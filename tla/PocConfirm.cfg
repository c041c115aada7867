SPECIFICATION Spec
CONSTANTS
    Node = {0, 1}
    Validator <- RoundRobin
    ConsensusSize = 2
    EpochInterval = 4
    MaxSlot = 7
INVARIANTS WalkFindsNewest ConfirmedHasQuorum ConfirmationKeepsUp
 
CHECK_DEADLOCK FALSE
