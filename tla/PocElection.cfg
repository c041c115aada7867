SPECIFICATION Spec
CONSTANTS
    Addr = {1, 2, 3, 4}
    BlockInterval = 1
    EpochInterval = 4
    MaxValidatorSize = 2
    GenesisTime = 2
    GenesisValidators <- Ascending
    MaxTime = 12
    MaxTxs = 1
INVARIANTS TypeOK MintCntExact ValidatorsElected BestContributorsElected
PROPERTIES SafeSizeKept FullRotationKeepsCandidates
CHECK_DEADLOCK FALSE
