SPECIFICATION AllSpec
CONSTANTS
    Block = {"g", "a1", "a2", "b1", "b2", "b3", "c2", "c3"}
    Genesis = "g"
    Parent <- MCParent
    Tx = {"t", "u"}
    Txs <- MCTxs
    Writer = {"importer", "miner"}
    Miner = "miner"
    Mined = {"a1", "a2"}
    Plans <- MCPlans
INVARIANTS CanonicalIsHeadChain LookupsFollowCanonical HeadIsHeaviest HeadComplete PendingExact 
 
CHECK_DEADLOCK FALSE
