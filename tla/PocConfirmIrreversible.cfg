SPECIFICATION Spec
CONSTANTS
    Node = {0, 1}
    Validator <- RoundRobin
    ConsensusSize = 2
    EpochInterval = 8
    MaxSlot = 7
INVARIANTS ConfirmedIsIrreversible
CHECK_DEADLOCK FALSE
