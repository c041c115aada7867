------------------------------- MODULE TxPool -------------------------------
(***************************************************************************)
(* The transaction pool (core/tx_pool.go, tx_list.go, tx_journal.go).      *)
(*                                                                         *)
(* Every exported operation and every case of the event loop holds pool.mu *)
(* from beginning to end, so each is one action; the operators it is made  *)
(* of take the pool and return the pool they leave behind.  A list of an   *)
(* account is the set of its transactions: they have different nonces.     *)
(* The chain is the set of transactions it has executed.  Gas and size     *)
(* limits are left out: they act as the cost limit does.                   *)
(***************************************************************************)
EXTENDS Integers, Sequences, FiniteSets, SequencesExt, FiniteSetsExt

CONSTANTS
    Acct, Funds,   \* senders, and what each owns before any transaction
    Tx,            \* transactions: from, nonce, price, cost
    GasPrices,     \* thresholds for SetGasPrice; the least one is PriceLimit
    PriceBump, AccountSlots, GlobalSlots, AccountQueue,
    Plans          \* bounds: per plan, the transactions sent and how many arrive
                   \* together, GlobalQueue, whether there is a journal, and how
                   \* many new heads, restarts and calls of SetGasPrice there are

\* The heap orders by price alone: with no two prices of Tx equal its order is total.
VARIABLES
    pool,        \* the TxPool object
    head,        \* chain of the loop's head
    journal,     \* the journal file, without repetitions
    writer,      \* the journal is open for appending
    heads, crashes, reprices,
    plan         \* the plan followed

vars == <<pool, head, journal, writer, heads, crashes, reprices, plan>>

-----------------------------------------------------------------------------
(* Chains and accounts. *)

Of(S, a) == {t \in S : t.from = a}
Nonces(S) == {t.nonce : t \in S}
Below(S, n) == {t \in S : t.nonce < n}
Above(S, n) == {t \in S : t.nonce > n}
At(S, n) == {t \in S : t.nonce = n}
ByNonce(S) == SetToSortSeq(S, LAMBDA t, u : t.nonce < u.nonce)

\* The account's nonce and balance after the transactions of chain c.
Nonce(c, a) == Cardinality(Of(c, a))
Balance(c, a) == Funds[a] - MapThenSumSet(LAMBDA t : t.cost, Of(c, a))

Chains == {c \in SUBSET plan.txs : \A a \in Acct :
              Nonces(Of(c, a)) = 0 .. (Nonce(c, a) - 1) /\ Balance(c, a) >= 0}

PriceLimit == Min(GasPrices)

EmptyPool(c) ==
    [pending |-> [a \in Acct |-> {}],      \* executable transactions
     queue   |-> [a \in Acct |-> {}],      \* the others
     all     |-> {},                       \* the transactions known by hash
     items   |-> [t \in Tx |-> 0],         \* heap of prices, a bag
     stales  |-> 0,                        \* heap entries believed stale
     beats   |-> <<>>,                     \* accounts, last heard of last
     locals  |-> {},                       \* accounts treated as local
     gasPrice |-> PriceLimit,
     chain   |-> c,                        \* currentState
     next    |-> [a \in Acct |-> Nonce(c, a)]]   \* nonces of pendingState

Pending(p) == UNION {p.pending[a] : a \in Acct}
Queued(p) == UNION {p.queue[a] : a \in Acct}
Known(p) == Pending(p) \cup Queued(p)
Heap(p) == MapThenSumSet(LAMBDA t : p.items[t], Tx)

Init ==
    /\ plan \in Plans
    /\ pool = EmptyPool({}) /\ head = {}
    /\ journal = <<>> /\ writer = plan.journal
    /\ heads = 0 /\ crashes = 0 /\ reprices = 0

-----------------------------------------------------------------------------
(* The price heap: entries of transactions that left the pool stay in it   *)
(* until they are popped or until too many are stale.                      *)

Put(p, t) == [p EXCEPT !.items[t] = @ + 1]

Removed(p) ==
    IF p.stales + 1 <= Heap(p) \div 4
    THEN [p EXCEPT !.stales = @ + 1]
    ELSE [p EXCEPT !.stales = 0,
                   !.items = [t \in Tx |-> IF t \in p.all THEN 1 ELSE 0]]

Pop(p, t) ==
    [p EXCEPT !.items[t] = @ - 1, !.stales = IF t \in p.all THEN @ ELSE @ - 1]

Entries(p) == {t \in Tx : p.items[t] > 0}
Cheapest(S) == CHOOSE t \in S : \A u \in S : t.price <= u.price

\* Mutant of Droppable: local accounts are not spared.
DroppableAll(p) == Entries(p)

\* Local transactions are popped and pushed back: they stay where they are.
Droppable(p) == {t \in Entries(p) : t \in p.all => t.from \notin p.locals}

RECURSIVE PopStale(_)
PopStale(p) ==
    LET t == Cheapest(Entries(p)) IN
    IF Entries(p) # {} /\ t \notin p.all THEN PopStale(Pop(p, t)) ELSE p

\* The pool without the stale entries found on top, and the answer.
Underpriced(p, t) ==
    IF t.from \in p.locals THEN [pool |-> p, yes |-> FALSE]
    ELSE LET q == PopStale(p)
         IN  [pool |-> q, yes |-> /\ Entries(q) # {}
                                  /\ Cheapest(Entries(q)).price >= t.price]

\* The pool and the transactions to drop, the cheapest first.
RECURSIVE Discard(_, _, _)
Discard(p, count, drop) ==
    LET t == Cheapest(Droppable(p)) IN
    IF count <= 0 \/ Droppable(p) = {} THEN [pool |-> p, drop |-> drop]
    ELSE IF t \in p.all THEN Discard(Pop(p, t), count - 1, Append(drop, t))
    ELSE Discard(Pop(p, t), count, drop)

RECURSIVE Cap(_, _, _)
Cap(p, threshold, drop) ==
    LET t == Cheapest(Droppable(p))
        stop == {u \in Entries(p) \cap p.all : u.price >= threshold}
    IN  IF \/ Droppable(p) = {}
           \/ stop # {} /\ Cheapest(stop).price <= t.price
        THEN [pool |-> p, drop |-> drop]
        ELSE Cap(Pop(p, t), threshold,
                 IF t \in p.all THEN Append(drop, t) ELSE drop)

-----------------------------------------------------------------------------
(* Lists and the moves between them. *)

\* The transaction may join the list: no other has its nonce, or it pays
\* enough more than the one that has.
Accepts(list, t) ==
    \A old \in At(list, t.nonce) :
        /\ old.price < t.price
        /\ (old.price * (100 + PriceBump)) \div 100 <= t.price

Overlaps(list, t) == At(list, t.nonce) # {}
With(list, t) == (list \ At(list, t.nonce)) \cup {t}

Forget(p, t) == Removed([p EXCEPT !.all = @ \ {t}])
ForgetAll(p, S) == FoldSet(LAMBDA t, q : Forget(q, t), p, S)
Remember(p, t) == Put([p EXCEPT !.all = @ \cup {t}], t)

enqueueTx(p, t) ==
    LET list == p.queue[t.from] IN
    IF ~Accepts(list, t) THEN p
    ELSE Remember(ForgetAll([p EXCEPT !.queue[t.from] = With(list, t)],
                            At(list, t.nonce)), t)

enqueueAll(p, S) == FoldSet(LAMBDA t, q : enqueueTx(q, t), p, S)

Beat(beats, a) == Append(SelectSeq(beats, LAMBDA b : b # a), a)
Silent(beats, a) == SelectSeq(beats, LAMBDA b : b # a)

\* The list of the sender with t in place of the transaction it replaces.
Replace(p, t, list) ==
    ForgetAll([p EXCEPT !.pending[t.from] = With(list, t)], At(list, t.nonce))

RememberNew(p, t) == IF t \in p.all THEN p ELSE Remember(p, t)

promoteTx(p, t) ==
    IF ~Accepts(p.pending[t.from], t) THEN Forget(p, t)
    ELSE [RememberNew(Replace(p, t, p.pending[t.from]), t)
            EXCEPT !.beats = Beat(@, t.from), !.next[t.from] = t.nonce + 1]

LowerNext(p, a, n) == [p EXCEPT !.next[a] = IF @ > n THEN n ELSE @]

\* When the first transaction of the pending list goes, those behind it leave
\* the list and are not queued.
RemovePending(p, a, n, list) ==
    LET cut == [p EXCEPT !.pending[a] = Below(list, n)] IN
    LowerNext(IF Below(list, n) = {} THEN [cut EXCEPT !.beats = Silent(@, a)]
              ELSE enqueueAll(cut, Above(list, n)), a, n)

RemoveListed(p, t, list) ==
    IF Overlaps(list, t) THEN RemovePending(p, t.from, t.nonce, list)
    ELSE [p EXCEPT !.queue[t.from] = @ \ At(@, t.nonce)]

removeTx(p, t) ==
    IF t \notin p.all THEN p ELSE RemoveListed(Forget(p, t), t, p.pending[t.from])

removeTxs(p, s) == FoldLeft(LAMBDA q, t : removeTx(q, t), p, s)

-----------------------------------------------------------------------------
(* promoteExecutables *)

\* The run of consecutive nonces at the front of the list.
Ready(list, start) ==
    {t \in list : /\ Min(Nonces(list)) <= start
                  /\ Min(Nonces(list)) .. t.nonce \subseteq Nonces(list)}

\* Mutant of Over: one transaction too many is kept.
OverOne(list, n) == {t \in list : Cardinality(Below(list, t.nonce)) > n}

Over(list, n) == {t \in list : Cardinality(Below(list, t.nonce)) >= n}

Unpayable(p, list, a) == {t \in list : t.cost > Balance(p.chain, a)}

DropQueued(p, a, S) == ForgetAll([p EXCEPT !.queue[a] = @ \ S], S)

DropOld(p, a) == DropQueued(p, a, Below(p.queue[a], Nonce(p.chain, a)))
DropUnpayable(p, a) == DropQueued(p, a, Unpayable(p, p.queue[a], a))
DropOver(p, a) ==
    IF a \in p.locals THEN p ELSE DropQueued(p, a, Over(p.queue[a], AccountQueue))

PromoteReady(p, a, ready) ==
    FoldLeft(LAMBDA q, t : promoteTx(q, t),
             [p EXCEPT !.queue[a] = @ \ ready], ByNonce(ready))

Promote(p, a) == PromoteReady(p, a, Ready(p.queue[a], p.next[a]))

promoteAccount(p, a) == DropOver(Promote(DropUnpayable(DropOld(p, a), a), a), a)

\* One transaction, the last, is taken from each of the accounts.
ShaveOne(p, a) ==
    LET last == Max(Nonces(p.pending[a])) IN
    LowerNext(ForgetAll([p EXCEPT !.pending[a] = Below(@, last)],
                        At(p.pending[a], last)), a, last)

Slots(p, a) == Cardinality(p.pending[a])

RECURSIVE Shave(_, _, _, _)
Shave(p, offenders, a, floor) ==
    IF Cardinality(Pending(p)) > GlobalSlots /\ Slots(p, a) > floor
    THEN Shave(FoldLeft(LAMBDA q, b : ShaveOne(q, b), p, offenders),
               offenders, a, floor)
    ELSE p

\* The largest transactors lose transactions until they are as small as the
\* next one, and in the end all of them down to AccountSlots; ord decides
\* between accounts of one size.
equalize(p, ord) ==
    LET large == SelectSeq(ord, LAMBDA a : a \notin p.locals
                                           /\ Slots(p, a) > AccountSlots)
        pos(a) == CHOOSE i \in DOMAIN ord : ord[i] = a
        s == SortSeq(large, LAMBDA a, b :
                 \/ Slots(p, a) > Slots(p, b)
                 \/ Slots(p, a) = Slots(p, b) /\ pos(a) < pos(b))
        q == FoldLeftDomain(LAMBDA x, k :
                 IF k = 1 THEN x
                 ELSE Shave(x, SubSeq(s, 1, k - 1), s[k - 1], Slots(x, s[k])),
                 p, s)
    IN  IF s = <<>> THEN p ELSE Shave(q, s, Last(s), AccountSlots)

\* Queued transactions over the limit go, those of the account heard of last
\* first; ord decides between the accounts that have no heartbeat.
trimQueue(p, ord) ==
    LET here == SelectSeq(ord, LAMBDA a : a \notin p.locals /\ p.queue[a] # {})
        heard == SelectSeq(p.beats, LAMBDA a : a \in Range(here))
        s == Reverse(heard)
             \o SelectSeq(here, LAMBDA a : a \notin Range(heard))
        step(acc, a) ==
            LET txs == Reverse(ByNonce(acc.pool.queue[a]))
                all == Len(txs) <= acc.drop
                cut == IF all THEN Reverse(txs) ELSE SubSeq(txs, 1, acc.drop)
            IN  [pool |-> removeTxs(acc.pool, cut), drop |-> acc.drop - Len(cut)]
        over == Cardinality(Queued(p)) - plan.globalQueue
    IN  IF over <= 0 THEN p
        ELSE FoldLeft(step, [pool |-> p, drop |-> over], s).pool

promoteExecutables(p, accounts, ord) ==
    trimQueue(equalize(
        FoldSet(LAMBDA a, q : IF q.queue[a] = {} THEN q ELSE promoteAccount(q, a),
                p, accounts), ord), ord)

-----------------------------------------------------------------------------
(* add and demoteUnexecutables *)

validateTx(p, t, local) ==
    /\ local \/ t.from \in p.locals \/ p.gasPrice <= t.price
    /\ Nonce(p.chain, t.from) <= t.nonce
    /\ t.cost <= Balance(p.chain, t.from)

Limit == GlobalSlots + plan.globalQueue

Result(p, res) == [pool |-> p, res |-> res]

\* The rest of add, once there is room.  A replacement in the pending list
\* returns before the sender is marked as local.
addInto(p, t, local, list, queue) ==
    IF Overlaps(list, t)
    THEN IF Accepts(list, t) THEN Result(Remember(Replace(p, t, list), t), "replaces")
         ELSE Result(p, "refused")
    ELSE IF ~Accepts(queue, t) THEN Result(p, "refused")
    ELSE Result([enqueueTx(p, t) EXCEPT !.locals = IF local THEN @ \cup {t.from} ELSE @],
                IF Overlaps(queue, t) THEN "replaces" ELSE "new")

addWithRoom(p, t, local) == addInto(p, t, local, p.pending[t.from], p.queue[t.from])

RemoveAll(x) == removeTxs(x.pool, x.drop)

addToFull(x, t, local) ==
    IF x.yes THEN Result(x.pool, "refused")
    ELSE addWithRoom(
            RemoveAll(Discard(x.pool, Cardinality(x.pool.all) - (Limit - 1), <<>>)),
            t, local)

\* The pool after add, and whether the transaction is refused, replaces
\* another or is new.
add(p, t, local) ==
    IF t \in p.all \/ ~validateTx(p, t, local) THEN Result(p, "refused")
    ELSE IF Cardinality(p.all) >= Limit THEN addToFull(Underpriced(p, t), t, local)
    ELSE addWithRoom(p, t, local)

\* The batch so far, with the result x for its next transaction: the pool, the
\* accounts to promote and the transactions to journal.
Added(batch, t, x) ==
    [pool  |-> x.pool,
     dirty |-> batch.dirty \cup IF x.res = "new" THEN {t.from} ELSE {},
     log   |-> IF x.res # "refused" /\ t.from \in x.pool.locals
               THEN Append(batch.log, t) ELSE batch.log]

Promoted(batch, ord) ==
    [batch EXCEPT !.pool = IF batch.dirty = {} THEN @
                           ELSE promoteExecutables(@, batch.dirty, ord)]

addTxsLocked(p, txs, local, ord) ==
    Promoted(FoldLeft(LAMBDA batch, t : Added(batch, t, add(batch.pool, t, local)),
                      [pool |-> p, dirty |-> {}, log |-> <<>>], txs), ord)

\* Mutant of demoteAccount: the transactions behind an unpayable one stay.
demoteAccountKeepsGap(p, a) ==
    LET old == Below(p.pending[a], Nonce(p.chain, a)) IN
    ForgetAll([p EXCEPT !.pending[a] = @ \ old], old)

DropPending(p, a, S) == ForgetAll([p EXCEPT !.pending[a] = @ \ S], S)
Postpone(p, a, S) == enqueueAll([p EXCEPT !.pending[a] = @ \ S], S)

PendingOld(p, a) == DropPending(p, a, Below(p.pending[a], Nonce(p.chain, a)))

\* What is behind an unpayable transaction is queued again.
PendingUnpayable(p, a, S) ==
    IF S = {} THEN p
    ELSE Postpone(DropPending(p, a, S), a, Above(p.pending[a] \ S, Min(Nonces(S))))

\* So is a list that does not begin at the account's nonce.
PendingGap(p, a) ==
    IF Nonce(p.chain, a) \in Nonces(p.pending[a]) THEN p
    ELSE Postpone(p, a, p.pending[a])

PendingEmpty(p, a) ==
    IF p.pending[a] = {} THEN [p EXCEPT !.beats = Silent(@, a)] ELSE p

Payable(p, a) == PendingUnpayable(p, a, Unpayable(p, p.pending[a], a))

\* The pending list after a change of state.
demoteAccount(p, a) == PendingEmpty(PendingGap(Payable(PendingOld(p, a), a), a), a)

demoteUnexecutables(p) ==
    FoldSet(LAMBDA a, q : demoteAccount(q, a), p,
            {a \in Acct : p.pending[a] # {}})

\* The pool's own view of the next nonces, from its pending lists.
UpdateNext(p) ==
    [p EXCEPT !.next = [a \in Acct |-> IF p.pending[a] = {} THEN @[a]
                                       ELSE Max(Nonces(p.pending[a])) + 1]]

-----------------------------------------------------------------------------
(* The operations. *)

Orders == SetToSeqs(Acct)
Batches ==
    UNION {SetToSeqs(S) : S \in {R \in SUBSET plan.txs : Cardinality(R) \in 1 .. plan.batch}}

Journaled(log) ==
    journal' = IF writer
               THEN journal \o SelectSeq(log, LAMBDA t : t \notin Range(journal))
               ELSE journal

Batch(x) ==
    /\ pool' = x.pool
    /\ Journaled(x.log)

addTxs(txs, local, ord) ==
    /\ Batch(addTxsLocked(pool, txs, local, ord))
    /\ UNCHANGED <<head, writer, heads, crashes, reprices>>

AddLocals == \E txs \in Batches, ord \in Orders : addTxs(txs, TRUE, ord)
AddRemotes == \E txs \in Batches, ord \in Orders : addTxs(txs, FALSE, ord)

SetGasPrice(price) ==
    /\ reprices < plan.reprices
    /\ reprices' = reprices + 1
    /\ pool' = RemoveAll(Cap([pool EXCEPT !.gasPrice = price], price, <<>>))
    /\ UNCHANGED <<head, journal, writer, heads, crashes>>

\* A new head.  Transactions of blocks that are no longer on the chain are
\* added again unless the reorganisation is too deep.
Fresh(c) == [pool EXCEPT !.chain = c, !.next = [a \in Acct |-> Nonce(c, a)]]
Revised(p, ord) == promoteExecutables(UpdateNext(demoteUnexecutables(p)), Acct, ord)

reset(c, reinject, ord) ==
    /\ LET x == addTxsLocked(Fresh(c), reinject, FALSE, ord)
       IN  Batch([x EXCEPT !.pool = Revised(@, ord)])
    /\ head' = c
    /\ UNCHANGED <<writer, crashes, reprices>>

NewHead ==
    /\ heads < plan.heads
    /\ heads' = heads + 1
    /\ \E c \in Chains \ {head}, ord \in Orders :
          \E txs \in SetToSeqs(head \ c) \cup {<<>>} : reset(c, txs, ord)

\* A block or the state of the new head is missing: the loop moves on, the
\* pool stays.
ResetFails ==
    /\ heads < plan.heads
    /\ heads' = heads + 1
    /\ \E c \in Chains \ {head} : head' = c
    /\ UNCHANGED <<pool, journal, writer, crashes, reprices>>

\* The loop evicts the queues of accounts it has not heard of for Lifetime;
\* an account without pending transactions has no heartbeat at all.
Evict ==
    \E k \in 0 .. Len(pool.beats), ord \in Orders :
        LET recent == SubSeq(pool.beats, k + 1, Len(pool.beats))
            s == SelectSeq(ord, LAMBDA a : a \notin Range(recent) \cup pool.locals)
        IN  /\ pool' = FoldLeft(LAMBDA q, a : removeTxs(q, ByNonce(q.queue[a])),
                                pool, s)
            /\ UNCHANGED <<head, journal, writer, heads, crashes, reprices>>

local(p, ord) ==
    FlattenSeq([i \in DOMAIN ord |->
        IF ord[i] \in p.locals
        THEN ByNonce(p.pending[ord[i]]) \o ByNonce(p.queue[ord[i]]) ELSE <<>>])

\* The journal is written anew, moved into place and opened; any of the three
\* may fail, and then nothing is journaled until the next rotation.
rotate(p, ord, moved, opened) ==
    /\ opened => moved
    /\ journal' = IF moved THEN local(p, ord) ELSE journal
    /\ writer' = opened

Rotate ==
    /\ plan.journal
    /\ \E ord \in Orders, moved, opened \in BOOLEAN : rotate(pool, ord, moved, opened)
    /\ UNCHANGED <<pool, head, heads, crashes, reprices>>

\* load(pool.AddLocal) on a new pool.
load(c, ord) ==
    FoldLeft(LAMBDA q, t : addTxsLocked(q, <<t>>, TRUE, ord).pool,
             EmptyPool(c), journal)

\* The node stops or crashes and NewTxPool loads the journal.
NewTxPool ==
    /\ crashes < plan.crashes
    /\ crashes' = crashes + 1
    /\ \E c \in Chains, ord \in Orders, moved, opened \in BOOLEAN :
          /\ pool' = load(c, ord) /\ head' = c
          /\ rotate(pool', ord, moved /\ plan.journal, opened /\ plan.journal)
    /\ UNCHANGED <<heads, reprices>>

Next ==
    /\ \/ AddLocals \/ AddRemotes \/ (\E price \in GasPrices : SetGasPrice(price))
       \/ NewHead \/ ResetFails \/ Evict \/ Rotate \/ NewTxPool
    /\ UNCHANGED plan

Spec == Init /\ [][Next]_vars

-----------------------------------------------------------------------------
(* Properties. *)

\* The fields keep their types; the price threshold is one that was set
\* (SetGasPrice), though the count of stale entries may go below zero.
TypeOK ==
    /\ pool.pending \in [Acct -> SUBSET Tx] /\ pool.queue \in [Acct -> SUBSET Tx]
    /\ pool.all \subseteq Tx /\ pool.locals \subseteq Acct
    /\ pool.items \in [Tx -> Nat] /\ pool.stales \in Int
    /\ pool.next \in [Acct -> Nat] /\ pool.gasPrice \in GasPrices
    /\ Range(journal) \subseteq Tx /\ writer \in BOOLEAN

\* What Pending() hands to the miner can be executed in order on the state of
\* the pool's head: no gap, no old nonce, nothing the sender cannot pay, after
\* any replacement, eviction, equalisation or reorganisation.
PendingExecutable ==
    \A a \in Acct :
        LET list == pool.pending[a]
            n == Nonce(pool.chain, a)
        IN  /\ Nonces(list) = n .. (n + Cardinality(list) - 1)
            /\ \A t \in list : t.cost <= Balance(pool.chain, a)

\* The nonce pendingState hands out next follows the pending list
\* (validateTxPoolInternals of tx_pool_test.go); as long as the head stays, for
\* accounts without pending transactions too (State().GetNonce).
NextFollowsPending ==
    \A a \in Acct : pool.pending[a] # {} \/ heads = 0 =>
        pool.next[a] = Nonce(pool.chain, a) + Cardinality(pool.pending[a])

\* As long as the head stays, a queued transaction does not continue the
\* pending list: promoteExecutables would have moved it.
NothingReadyQueued ==
    heads = 0 => \A a \in Acct : Nonce(pool.chain, a) + Cardinality(pool.pending[a])
                                     \notin Nonces(pool.queue[a])

\* Pending transactions exceed GlobalSlots only if no account that is not local
\* has more than the AccountSlots it is guaranteed.
PendingBounded ==
    \/ Cardinality(Pending(pool)) <= GlobalSlots
    \/ \A a \in Acct \ pool.locals : Slots(pool, a) <= AccountSlots

\* An account that is not local has at most AccountQueue queued transactions,
\* also when its pending transactions are demoted.
QueueBounded ==
    \A a \in Acct \ pool.locals : Cardinality(pool.queue[a]) <= AccountQueue

Covered(t, p) ==
    \E u \in Known(p) : u.from = t.from /\ u.nonce = t.nonce /\ u.price >= t.price

\* While the chain stays, a transaction of a local account leaves the pool only
\* for a better one of the same nonce: pricing, limits and eviction spare it.
LocalsKept ==
    [][heads' = heads /\ crashes' = crashes =>
         \A t \in Known(pool) : t.from \in pool.locals => Covered(t, pool')]_vars

\* A restart brings back every journaled transaction that is still valid on
\* the chain, or a better one of the same nonce.
JournalSurvives ==
    [][crashes' > crashes =>
         \A t \in Range(journal) :
             (/\ Nonce(pool'.chain, t.from) <= t.nonce
              /\ t.cost <= Balance(pool'.chain, t.from)) => Covered(t, pool')]_vars

=============================================================================
