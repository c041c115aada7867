----------------------------- MODULE PocConfirm -----------------------------
(***************************************************************************)
(* Block confirmation among validators (updateConfirmedBlockHeader in      *)
(* consensus/poc/poc.go) over the fork choice of core/blockchain.go.       *)
(*                                                                         *)
(* A slot belongs to one validator, which mints at most one block in it,   *)
(* so a block is named by its slot and block 0 is the genesis block.       *)
(* Blocks reach the other nodes in any order that respects parents, with   *)
(* any delay.  Difficulty is always 1: total difficulty is the number.     *)
(***************************************************************************)
EXTENDS Integers, FiniteSets, FiniteSetsExt

CONSTANTS
    Node,           \* nodes, each of them a validator
    Validator,      \* Validator[t]: whose slot t is
    ConsensusSize,  \* validators needed to confirm a block
    EpochInterval,  \* slots in an epoch
    MaxSlot         \* bound: the last slot

Slots == 1 .. MaxSlot
Blocks == 0 .. MaxSlot

ASSUME ConfirmAssumption ==
    /\ MaxSlot \in Nat \ {0} /\ EpochInterval \in Nat \ {0} /\ ConsensusSize \in Nat \ {0}
    /\ Validator \in [Slots -> Node]

None == -1

\* An assignment of the slots, for model checking: they go round the nodes.
RoundRobin == [t \in Slots |-> t % Cardinality(Node)]

VARIABLES
    now,        \* the current slot
    tree,       \* tree[b]: parent, number and ancestors of block b; NotMinted before
    known,      \* known[n]: blocks in the database of n
    head,       \* head[n]: currentBlock
    curHeader,  \* curHeader[n]: currentHeader of the header chain
    confirmed,  \* confirmed[n]: confirmedBlockHeader, None before it is loaded
    stored      \* stored[n]: the block under confirmedBlockHead in the database

vars == <<now, tree, known, head, curHeader, confirmed, stored>>

NotMinted == [parent |-> None, number |-> None, chain |-> {}]

Minted == {b \in Blocks : tree[b] # NotMinted}

Number(b) == tree[b].number

\* The blocks from b down to the genesis block, which the parent hashes fix.
Chain(b) == tree[b].chain

EpochOf(b) == b \div EpochInterval

Init ==
    /\ now = 1
    /\ tree = [b \in Blocks |-> IF b = 0 THEN [parent |-> None, number |-> 0, chain |-> {0}]
                                ELSE NotMinted]
    /\ known = [n \in Node |-> {0}]
    /\ head = [n \in Node |-> 0]
    /\ curHeader = [n \in Node |-> 0]
    /\ confirmed = [n \in Node |-> None]
    /\ stored = [n \in Node |-> None]

(***************************************************************************)
(* updateConfirmedBlockHeader, from the node's current header down.        *)
(***************************************************************************)

\* loadConfirmedBlockHeader: the stored block, or else the genesis block.
Loaded(n) ==
    IF confirmed[n] # None THEN confirmed[n]
    ELSE IF stored[n] # None THEN stored[n] ELSE 0

\* Mutant of Seen: validatorMap is kept across epochs.
SeenAcrossEpochs(from, b) == {Validator[c] : c \in {d \in Chain(from) : d > b}}

\* validatorMap when the loop, which goes down from the current header, has come to
\* block b: who minted the blocks of b's epoch that it has passed.
Seen(from, b) ==
    {Validator[c] : c \in {d \in Chain(from) : d > b /\ EpochOf(d) = EpochOf(b)}}

\* Mutant of GivesUp: the fast return is taken one block early.
GivesUpEarly(from, conf, b) ==
    \/ b = conf \/ Number(conf) >= Number(b)
    \/ Number(b) - Number(conf) <= ConsensusSize - Cardinality(Seen(from, b))

\* The loop ends at b and nothing is confirmed: b is not above the confirmed block, or
\* (fast return) the blocks from b down to that one cannot bring enough validators.
GivesUp(from, conf, b) ==
    \/ b = conf \/ Number(conf) >= Number(b)
    \/ Number(b) - Number(conf) < ConsensusSize - Cardinality(Seen(from, b))

\* With the validator of b itself there are enough.
Enough(from, b) == Cardinality(Seen(from, b) \cup {Validator[b]}) >= ConsensusSize

\* The block confirmed after the loop: where it ends first, or still conf.
Walk(from, conf) ==
    LET b == Max({c \in Chain(from) : GivesUp(from, conf, c) \/ Enough(from, c)})
    IN  IF GivesUp(from, conf, b) THEN conf ELSE b

\* Mutant of UpdateConfirmed: not called.
UpdateConfirmedSkipped(n) == UNCHANGED <<confirmed, stored>>

\* Mutant of UpdateConfirmed: the block found is kept in memory only.
UpdateConfirmedUnstored(n) ==
    /\ confirmed' = [confirmed EXCEPT ![n] = Walk(curHeader[n], Loaded(n))]
    /\ UNCHANGED stored

UpdateConfirmed(n) ==
    LET new == Walk(curHeader[n], Loaded(n))
    IN  /\ confirmed' = [confirmed EXCEPT ![n] = new]
        /\ stored' = IF new = Loaded(n) THEN stored ELSE [stored EXCEPT ![n] = new]

-----------------------------------------------------------------------------

Tick ==
    /\ now < MaxSlot
    /\ now' = now + 1
    /\ UNCHANGED <<tree, known, head, curHeader, confirmed, stored>>

\* BlockChain.insert for every block of the new branch, the newest first: the
\* current header ends up on the oldest of them, because the last call, for b
\* itself, finds b canonical already (reorg, insert).
SetHead(n, b) ==
    /\ head' = [head EXCEPT ![n] = b]
    /\ curHeader' = [curHeader EXCEPT ![n] = Min(Chain(b) \ Chain(head[n]))]

\* The validator of the slot mints on its head, if that is older than the slot
\* (CheckValidator), and writes the block without verifying it (worker.wait).
Mint(n) ==
    /\ Validator[now] = n
    /\ head[n] < now /\ now \notin Minted
    /\ tree' = [tree EXCEPT ![now] = [parent |-> head[n],
                                      number |-> Number(head[n]) + 1,
                                      chain |-> Chain(head[n]) \cup {now}]]
    /\ known' = [known EXCEPT ![n] = @ \cup {now}]
    /\ head' = [head EXCEPT ![n] = now]
    /\ curHeader' = [curHeader EXCEPT ![n] = now]
    /\ UNCHANGED <<now, confirmed, stored>>

\* insertChain for one block: verifySeal, which updates the confirmed block
\* from the chain as it was before, then WriteBlockAndState.  A block as high
\* as the head replaces it or not by the toss of a coin.
Receive(n, b) ==
    /\ b \in Minted \ known[n] /\ tree[b].parent \in known[n]
    /\ UpdateConfirmed(n)
    /\ known' = [known EXCEPT ![n] = @ \cup {b}]
    /\ \/ Number(b) >= Number(head[n]) /\ SetHead(n, b)
       \/ Number(b) <= Number(head[n]) /\ UNCHANGED <<head, curHeader>>
    /\ UNCHANGED <<now, tree>>

\* A restarted node has lost only what it held in memory.
Restart(n) ==
    /\ confirmed[n] # None
    /\ confirmed' = [confirmed EXCEPT ![n] = None]
    /\ UNCHANGED <<now, tree, known, head, curHeader, stored>>

Next ==
    \/ Tick
    \/ \E n \in Node : Mint(n) \/ Restart(n)
    \/ \E n \in Node, b \in Slots : Receive(n, b)

Spec == Init /\ [][Next]_vars

-----------------------------------------------------------------------------

TypeOK ==
    /\ now \in Slots
    /\ tree \in [Blocks -> [parent : Blocks \cup {None}, number : Blocks \cup {None},
                             chain : SUBSET Blocks]]
    /\ known \in [Node -> SUBSET Blocks]
    /\ head \in [Node -> Blocks] /\ curHeader \in [Node -> Blocks]
    /\ confirmed \in [Node -> Blocks \cup {None}]
    /\ stored \in [Node -> Blocks \cup {None}]

\* b is confirmed by the chain up to h: the blocks of b's epoch from b on were
\* minted by ConsensusSize different validators.
ConfirmedBy(b, h) ==
    /\ b \in Chain(h)
    /\ Cardinality({Validator[c] : c \in {d \in Chain(h) :
                        d >= b /\ EpochOf(d) = EpochOf(b)}}) >= ConsensusSize

\* updateConfirmedBlockHeader finds the newest confirmed block above the one it
\* has, of the chain it walks, and its early return never misses one.
WalkFindsNewest ==
    \A n \in Node :
        LET conf == Loaded(n)
            above == {b \in Chain(curHeader[n]) :
                         Number(b) > Number(conf) /\ ConfirmedBy(b, curHeader[n])}
        IN  Walk(curHeader[n], conf) = IF above = {} THEN conf ELSE Max(above)

\* A stored confirmed block rests on ConsensusSize validators of one epoch that
\* built on it, on a chain the node has, whatever reorganisations and restarts
\* came between (updateConfirmedBlockHeader, storeConfirmedBlockHeader).
ConfirmedHasQuorum ==
    \A n \in Node :
        stored[n] # None => \E h \in known[n] : ConfirmedBy(stored[n], h)

\* The confirmed block number a node answers never goes back, across
\* reorganisations and restarts (updateConfirmedBlockHeader).
ConfirmedNeverGoesBack ==
    [][\A n \in Node : Number(Loaded(n)') >= Number(Loaded(n))]_vars

\* On a chain without a missed slot confirmation lags by fewer than two rounds
\* of ConsensusSize blocks, the restart of the count in a new epoch included,
\* and the block a node minted last itself.
ConfirmationKeepsUp ==
    \A n \in Node :
        Number(head[n]) = head[n] =>
            Number(head[n]) - Number(Loaded(n)) <= 2 * ConsensusSize

\* What a node reports as confirmed stays on its chain ("retrieves the latest
\* irreversible block", GetConfirmedBlockNumber).
ConfirmedIsIrreversible ==
    \A n \in Node : Loaded(n) \in Chain(head[n])

=============================================================================
