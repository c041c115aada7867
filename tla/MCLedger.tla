------------------------------ MODULE MCLedger ------------------------------
(***************************************************************************)
(* Model checking of the block chain and of the transaction pool.  A       *)
(* behaviour exercises one of the two, chosen by the initial state.        *)
(*                                                                         *)
(* BlockChain on the branches a, which the node mines, b, and c, which     *)
(* leaves a after its first block.  A transaction of a is in b, higher up. *)
(* TxPool for two senders; a can pay for its first transactions only.      *)
(***************************************************************************)
EXTENDS BlockChain

VARIABLES part, pool, head, journal, writer, heads, restarts, reprices, course

MCParent == [b \in Block \ {Genesis} |->
    CASE b = "a2" -> "a1" [] b = "a3" -> "a2"
      [] b = "b2" -> "b1" [] b = "b3" -> "b2"
      [] b = "c2" -> "a1" [] b = "c3" -> "c2" [] OTHER -> "g"]

MCTxs == [b \in Block |->
    CASE b \in {"a1", "b2"} -> {"t"} [] b \in {"a2", "c3"} -> {"u"} [] OTHER -> {}]

Plan(bs, f, c, r) ==
    [blocks |-> bs, fast |-> f, crashes |-> c, rewinds |-> r]

AB == Block \ {"c2", "c3"}

MCPlans == {Plan(Block, FALSE, 2, 0), Plan(Block, FALSE, 0, 2), Plan(AB, TRUE, 0, 1), Plan(AB, TRUE, 1, 0)}

PanicPlans == {Plan(AB, TRUE, 0, 1)}

-----------------------------------------------------------------------------
tx(a, n, price, cost) == [from |-> a, nonce |-> n, price |-> price, cost |-> cost]

PoolTx == {tx("a", 0, 10, 1), tx("a", 0, 20, 2), tx("a", 1, 30, 2), tx("a", 2, 12, 1),
           tx("b", 0, 15, 1), tx("b", 1, 25, 1)}

PoolFunds == [a \in {"a", "b"} |-> 3]

Course(s, n, q, j, h, c, r) ==
    [txs |-> s, batch |-> n, globalQueue |-> q, journal |-> j, heads |-> h,
     crashes |-> c, reprices |-> r]

Courses == {Course(PoolTx, 2, 2, FALSE, 0, 0, 2),                         \* one head, prices and batches
            Course({t \in PoolTx : t.nonce < 2}, 1, 2, FALSE, 2, 0, 0),   \* reorganisations
            Course({t \in PoolTx : t.nonce < 2}, 1, 4, TRUE, 0, 1, 0)}    \* restarts

Pool == INSTANCE TxPool WITH
    Acct <- {"a", "b"}, Tx <- PoolTx, Funds <- PoolFunds, GasPrices <- {1, 14}, PriceBump <- 10,
    AccountSlots <- 1, GlobalSlots <- 2, AccountQueue <- 1, Plans <- Courses,
    crashes <- restarts, plan <- course

bc == <<db, mem, up, fault, wal, pending, stored, uncertain, fast, crashes, rewinds, plan>>
tp == <<pool, head, journal, writer, heads, restarts, reprices, course>>
allVars == <<part, bc, tp>>

AllInit == /\ part \in {"chain", "pool"}
           /\ Init /\ (part # "chain" => plan = Plan(AB, TRUE, 0, 1))
           /\ Pool!Init /\ (part # "pool" => course = Course(PoolTx, 2, 2, FALSE, 0, 0, 2))

AllNext == \/ part = "chain" /\ Next /\ UNCHANGED <<part, tp>>
           \/ part = "pool" /\ Pool!Next /\ UNCHANGED <<part, bc>>

AllSpec == AllInit /\ [][AllNext]_allVars

-----------------------------------------------------------------------------
\* What Pending() hands to the miner can be executed in order on the pool's head, the
\* next nonce follows it, and nothing that continues it is left in the queue, after any
\* replacement, eviction, equalisation or reorganisation (addTx, promoteExecutables,
\* demoteUnexecutables, reset).
PendingExact == /\ Pool!TypeOK
                /\ Pool!PendingExecutable /\ Pool!NextFollowsPending /\ Pool!NothingReadyQueued

\* The limits hold for all but local accounts: GlobalSlots unless every account is
\* within the AccountSlots it is guaranteed, and AccountQueue, also when pending
\* transactions are demoted (promoteExecutables).
PoolBounded == Pool!PendingBounded /\ Pool!QueueBounded

\* While the chain stays, a transaction of a local account leaves the pool only for a
\* better one of the same nonce; a restart brings back every journaled transaction that
\* is still valid on the chain, or a better one (journal.go: load, rotate).
LocalsKept == Pool!LocalsKept /\ Pool!JournalSurvives
=============================================================================
