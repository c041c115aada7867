----------------------------- MODULE BlockChain -----------------------------
(***************************************************************************)
(* The chain database of one node (core/blockchain.go, headerchain.go and  *)
(* database_util.go): what is on disk, what is in memory, and the order in *)
(* which the writes of an operation reach the disk.                        *)
(*                                                                         *)
(* An operation that holds bc.mu appears as the list of the batches of its *)
(* writes, in wal; they are applied one write at a time and a crash loses  *)
(* the rest.  Blocks form a fixed tree and have difficulty 1, so that      *)
(* total difficulty is the number.  Verification reads without the lock:   *)
(* it happens between operations and its outcome is used later.            *)
(* Transactions are the transfers and the data messages, which execution   *)
(* accepts once (preCheck).  The nonce of a candidate message is not       *)
(* looked at; a chain may have the same message twice, and a reorg that    *)
(* drops the later one deletes the lookup of the other.                    *)
(***************************************************************************)
EXTENDS Integers, Sequences, FiniteSets

CONSTANTS
    Block, Genesis,  \* the blocks, and the first of them
    Parent,          \* Parent[b], for every block but Genesis
    Tx, Txs,         \* transactions, and those of every block
    Writer,          \* who writes blocks: the importer and the miner
    Miner, Mined,    \* the writer that mines, and the blocks it may mint
    Plans            \* bounds: per plan, which blocks there are, whether the node
                     \* starts in fast sync, how often it crashes and rewinds

None == "none"

Number(b) ==
    LET num[c \in Block] == IF c = Genesis THEN 0 ELSE num[Parent[c]] + 1
    IN  num[b]

\* The block and its ancestors, and the same as a list, the newest first.
Chain(b) ==
    LET up[c \in Block] == IF c = Genesis THEN {c} ELSE {c} \cup up[Parent[c]]
    IN  up[b]

\* The i-th of the blocks S of one chain.
NewestFirst(S, i) == CHOOSE b \in S : Cardinality({c \in S : Number(c) > Number(b)}) = i - 1

Numbers == {Number(b) : b \in Block}

ASSUME ChainAssumption ==
    /\ Genesis \in Block /\ None \notin Block /\ Miner \in Writer
    /\ Mined \subseteq Block \ {Genesis}
    /\ Parent \in [Block \ {Genesis} -> Block] /\ Txs \in [Block -> SUBSET Tx]
    /\ Plans \subseteq [blocks : SUBSET Block, fast : BOOLEAN,
                         crashes : Nat, rewinds : Nat]

\* The parents lead to the genesis block.
ASSUME TreeAssumption ==
    \A b \in Block : /\ Number(b) \in Nat
                     /\ b = Genesis => Number(b) = 0 /\ Chain(b) = {b}
                     /\ b # Genesis => /\ Number(b) = Number(Parent[b]) + 1
                                       /\ Chain(b) = {b} \cup Chain(Parent[b])

\* The genesis block has no transactions (Genesis.ToBlock), and no chain has a
\* transaction twice: executing it uses up its nonce (preCheck, SetNonce).
ASSUME NonceAssumption ==
    /\ Txs[Genesis] = {}
    /\ \A b \in Block : \A c, d \in Chain(b) : c # d => Txs[c] \cap Txs[d] = {}

VARIABLES
    db,       \* the database
    mem,      \* currentBlock, current header and currentFastBlock
    up,       \* the node runs
    fault,    \* how the node failed last
    wal,      \* writes the running operation has still to do
    pending,  \* pending[w]: block that w has verified and not yet written
    stored,   \* block stored with receipts, before the fast head is updated
    uncertain,  \* headers added by the running synchronisation
    fast,     \* fast synchronisation
    crashes, rewinds,
    plan      \* the plan followed

vars == <<db, mem, up, fault, wal, pending, stored, uncertain, fast,
          crashes, rewinds, plan>>

Heads == [block : Block, header : Block, fast : Block]
AllAt(b) == [block |-> b, header |-> b, fast |-> b]

Init ==
    /\ db = [hdr |-> {Genesis}, body |-> {Genesis}, td |-> {Genesis},
             state |-> {Genesis},
             canon |-> [n \in Numbers |-> IF n = 0 THEN Genesis ELSE None],
             head |-> AllAt(Genesis),
             lookup |-> [t \in Tx |-> None]]
    /\ mem = AllAt(Genesis)
    /\ up = TRUE /\ fault = None
    /\ wal = <<>>
    /\ pending = [w \in Writer |-> None] /\ stored = None /\ uncertain = {}
    /\ plan \in Plans /\ fast = plan.fast
    /\ crashes = 0 /\ rewinds = 0

\* GetBlock, HasBlockAndState.
Has(b) == b \in db.hdr \cap db.body
Complete(b) == Has(b) /\ b \in db.state

Idle == up /\ wal = <<>>

-----------------------------------------------------------------------------
(***************************************************************************)
(* The writes (database_util.go).  A write adds a block to some tables or  *)
(* deletes it, and overrides entries of the canonical numbering, of the    *)
(* lookups and of the heads; a head is set in memory as it is written.     *)
(***************************************************************************)

Nothing == [x \in {} |-> None]

Write(add, del, b, canon, lookup, head) ==
    [add |-> add, del |-> del, blk |-> b, canon |-> canon, lookup |-> lookup, head |-> head,
     then |-> "continue"]
Ends(how) == [Write({}, {}, Genesis, Nothing, Nothing, Nothing) EXCEPT !.then = how]

Put(tables, b) == Write(tables, {}, b, Nothing, Nothing, Nothing)
Delete(table, b) == Write({}, {table}, b, Nothing, Nothing, Nothing)

WriteCanonicalHash(b) == Write({}, {}, b, [n \in {Number(b)} |-> b], Nothing, Nothing)
DeleteCanonicalHash(n) == Write({}, {}, Genesis, [m \in {n} |-> None], Nothing, Nothing)
WriteHead(h, b) == Write({}, {}, b, Nothing, Nothing, [k \in {h} |-> b])
WriteTxLookupEntries(b) == Write({}, {}, b, Nothing, [t \in Txs[b] |-> b], Nothing)
DeleteTxLookupEntries(S) == Write({}, {}, Genesis, Nothing, [t \in S |-> None], Nothing)

\* WriteBlockAndState's batch: block, state and, of a canonical block, lookups.
Batch(b, canonical) ==
    Write({"hdr", "body", "state"}, {}, b, Nothing,
          IF canonical THEN [t \in Txs[b] |-> b] ELSE Nothing, Nothing)

Panic == Ends("panic")
LoadLastState == Ends("load")

\* Entries f written over those of g.
Over(f, g) == [x \in DOMAIN g |-> IF x \in DOMAIN f THEN f[x] ELSE g[x]]

Table(w, t) ==
    IF t \in w.add THEN db[t] \cup {w.blk}
    ELSE IF t \in w.del THEN db[t] \ {w.blk} ELSE db[t]

Written(w) ==
    [hdr |-> Table(w, "hdr"), body |-> Table(w, "body"), td |-> Table(w, "td"),
     state |-> Table(w, "state"), canon |-> Over(w.canon, db.canon),
     head |-> Over(w.head, db.head), lookup |-> Over(w.lookup, db.lookup)]

\* loadLastState, if the head block on disk is there with its state.
Loadable == Complete(db.head.block)

Loaded ==
    LET b == db.head.block
    IN  [block  |-> b,
         header |-> IF db.head.header \in db.hdr THEN db.head.header ELSE b,
         fast   |-> IF Has(db.head.fast) THEN db.head.fast ELSE b]

\* Down after a fault: what was in memory is lost.
Down(why) ==
    /\ up' = FALSE /\ fault' = why /\ wal' = <<>>
    /\ mem' = AllAt(Genesis)
    /\ pending' = [w \in Writer |-> None] /\ stored' = None /\ uncertain' = {}

\* What is left after one write.
Rest == IF Len(Head(wal)) = 1 THEN Tail(wal) ELSE <<Tail(Head(wal))>> \o Tail(wal)

\* One write of the running operation.  SetHead ends with loadLastState, which
\* would take bc.mu again if it had to reset the chain.
Step ==
    /\ up /\ wal # <<>>
    /\ LET w == Head(Head(wal))
       IN  \/ /\ w.then = "continue"
              /\ db' = Written(w) /\ mem' = Over(w.head, mem)
              /\ wal' = Rest
              /\ UNCHANGED <<up, fault, pending, stored, uncertain>>
           \/ /\ w.then = "load"
              /\ IF Loadable
                 THEN /\ mem' = Loaded
                      /\ db' = [db EXCEPT !.head.header = Loaded.header]
                      /\ wal' = Rest
                      /\ UNCHANGED <<up, fault, pending, stored, uncertain>>
                 ELSE Down("deadlock") /\ UNCHANGED db
           \/ w.then = "panic" /\ Down("panic") /\ UNCHANGED db
    /\ UNCHANGED <<fast, crashes, rewinds>>

-----------------------------------------------------------------------------
(***************************************************************************)
(* Blocks: insertChain and the miner verify, then WriteBlockAndState.      *)
(***************************************************************************)

\* What peers have of this node's blocks is what it has written before.
FromPeers(b) == b \in Mined => b \in db.state

\* ValidateBody, and the parent's state and total difficulty.  Propagated and
\* downloaded blocks are not imported during fast synchronisation; the miner
\* builds on its current block.
Verify(w, b) ==
    /\ Idle /\ pending[w] = None
    /\ b # Genesis /\ \A v \in Writer : pending[v] # b
    /\ ~Complete(b) /\ Complete(Parent[b]) /\ Parent[b] \in db.td
    /\ IF w = Miner THEN b \in Mined \ db.state /\ Parent[b] = mem.block
       ELSE FromPeers(b) /\ ~fast
    /\ pending' = [pending EXCEPT ![w] = b]
    /\ UNCHANGED <<db, mem, up, fault, wal, stored, uncertain, fast, crashes, rewinds>>

\* The parent is gone when its total difficulty is read again.
Abandon(w) ==
    /\ Idle /\ pending[w] # None /\ Parent[pending[w]] \notin db.td
    /\ pending' = [pending EXCEPT ![w] = None]
    /\ UNCHANGED <<db, mem, up, fault, wal, stored, uncertain, fast, crashes, rewinds>>

\* insert, given whether the block is already canonical at its number.
Insert(b, canonical) ==
    <<WriteCanonicalHash(b), WriteHead("block", b)>> \o
    (IF canonical THEN <<>> ELSE <<WriteHead("header", b), WriteHead("fast", b)>>)

\* Mutant of Connected: missing blocks are not noticed.
ConnectedUnchecked(old, new) == TRUE

\* reorg reads both branches down to the common block, and all of them must be
\* there; then it inserts the new branch, the newest block first.
Connected(old, new) ==
    LET common == Chain(old) \cap Chain(new)
        branches == (Chain(old) \cup Chain(new)) \ common
        fork == CHOOSE b \in common : \A c \in common : Number(c) <= Number(b)
    IN  \A b \in (branches \ {old, new}) \cup {fork} : Has(b)

\* Mutant of Reorg: only the new head is inserted.
ReorgOnlyHead(old, new) ==
    <<Insert(new, db.canon[Number(new)] = new) \o <<WriteTxLookupEntries(new)>>>>

\* Mutant of Reorg: the lookups of dropped transactions stay.
ReorgKeepsLookups(old, new) ==
    LET added == Chain(new) \ Chain(old)
    IN  [i \in 1 .. Cardinality(added) |->
            LET b == NewestFirst(added, i)
            IN  Insert(b, db.canon[Number(b)] = b) \o <<WriteTxLookupEntries(b)>>]

Reorg(old, new) ==
    LET added == Chain(new) \ Chain(old)
        inserts == [i \in 1 .. Cardinality(added) |->
                       LET b == NewestFirst(added, i)
                       IN  Insert(b, db.canon[Number(b)] = b) \o <<WriteTxLookupEntries(b)>>]
        dropped == (UNION {Txs[b] : b \in Chain(old) \ Chain(new)})
                     \ (UNION {Txs[b] : b \in added})
    IN  inserts \o <<<<DeleteTxLookupEntries(dropped)>>>>

\* Mutant of Loses: a block that leaves the head's chain is a side block.
LosesAnyFork(b) == Parent[b] # mem.block

\* The fork choice; equal total difficulty is decided by a coin.
Wins(b) == Number(b) >= Number(mem.block)
Loses(b) == Number(b) <= Number(mem.block)

\* The total difficulty goes to disk first and reorg writes directly; block and
\* state follow in one batch, and the new head last.
WriteBlockAndState(w) ==
    LET b == pending[w]
        extends == Parent[b] = mem.block
    IN  /\ Idle /\ b # None
        /\ \/ /\ Wins(b)
              /\ wal' = IF ~extends /\ ~Connected(mem.block, b)
                        THEN <<<<Put({"td"}, b)>>>>
                        ELSE <<<<Put({"td"}, b)>>>>
                               \o (IF extends THEN <<>> ELSE Reorg(mem.block, b))
                               \o <<<<Batch(b, TRUE)>>, Insert(b, ~extends \/ db.canon[Number(b)] = b)>>
           \/ /\ Loses(b)
              /\ wal' = <<<<Put({"td"}, b), Batch(b, FALSE)>>>>
        /\ pending' = [pending EXCEPT ![w] = None]
        /\ UNCHANGED <<db, mem, up, fault, stored, uncertain, fast, crashes, rewinds>>

(***************************************************************************)
(* Headers and receipts, in fast synchronisation.                          *)
(***************************************************************************)

\* HeaderChain.WriteHeader.  The downloader adds one peer's headers in order
\* from a common ancestor, those that are not known yet (findAncestor,
\* InsertHeaderChain).
WriteHeader(b) ==
    LET n == Number(b)
        above == {m \in Numbers : m > n /\ \A k \in n + 1 .. m : db.canon[k] # None}
        parents == Chain(b) \ {b}
        stale == {c \in parents : \A d \in parents :
                     Number(d) >= Number(c) => db.canon[Number(d)] # d}
        renumber == [i \in 1 .. Cardinality(above) |-> <<DeleteCanonicalHash(n + i)>>] \o
                    [i \in 1 .. Cardinality(stale) |-> <<WriteCanonicalHash(NewestFirst(stale, i))>>] \o
                    <<<<WriteCanonicalHash(b), WriteHead("header", b)>>>>
    IN  /\ Idle /\ fast
        /\ b # Genesis /\ FromPeers(b) /\ b \notin db.hdr /\ Parent[b] \in db.td
        /\ parents \subseteq db.hdr /\ uncertain \subseteq parents
        /\ uncertain' = uncertain \cup {b}
        /\ \/ Number(b) >= Number(mem.header)
              /\ wal' = <<<<Put({"td"}, b), Put({"hdr"}, b)>>>> \o renumber
           \/ Number(b) <= Number(mem.header)
              /\ wal' = <<<<Put({"td"}, b), Put({"hdr"}, b)>>>>
        /\ UNCHANGED <<db, mem, up, fault, pending, stored, fast, crashes, rewinds>>

\* InsertReceiptChain: the batch is written without the lock, the fast head
\* updated under it.
InsertReceiptChain(b) ==
    /\ Idle /\ fast /\ stored = None
    /\ b \in db.hdr \ db.body /\ Parent[b] \in db.body
    /\ db' = [db EXCEPT !.body = @ \cup {b},
                        !.lookup = Over(WriteTxLookupEntries(b).lookup, @)]
    /\ stored' = b
    /\ UNCHANGED <<mem, up, fault, wal, pending, uncertain, fast, crashes, rewinds>>

UpdateFastHead ==
    /\ Idle /\ stored # None
    /\ wal' = IF stored \in db.td /\ Number(stored) > Number(mem.fast)
              THEN <<<<WriteHead("fast", stored)>>>> ELSE <<>>
    /\ stored' = None
    /\ UNCHANGED <<db, mem, up, fault, pending, uncertain, fast, crashes, rewinds>>

\* A failed synchronisation takes back the headers it added (processHeaders,
\* Rollback): a head moves down as long as it is one of them.  The links stay
\* on disk.
Rollback ==
    LET moves(h, c) == \A d \in Chain(mem[h]) :
                          Number(d) >= Number(c) => d \in uncertain
        back(h, c) == IF c \in Chain(mem[h]) /\ moves(h, c)
                      THEN <<WriteHead(h, Parent[c])>> ELSE <<>>
        one(c) == back("header", c) \o back("fast", c) \o back("block", c)
    IN  /\ Idle /\ stored = None /\ uncertain # {}
        /\ wal' = SelectSeq([i \in 1 .. Cardinality(uncertain) |-> one(NewestFirst(uncertain, i))],
                            LAMBDA writes : writes # <<>>)
        /\ uncertain' = {}
        /\ UNCHANGED <<db, mem, up, fault, pending, stored, fast, crashes, rewinds>>

\* All headers have arrived: none is uncertain any more.
HeadersDone ==
    /\ Idle /\ uncertain # {}
    /\ uncertain' = {}
    /\ UNCHANGED <<db, mem, up, fault, wal, pending, stored, fast, crashes, rewinds>>

\* After enough failures the downloader synchronises fully (fsPivotFails).
FallBack ==
    /\ Idle /\ fast /\ stored = None /\ uncertain = {}
    /\ fast' = FALSE
    /\ UNCHANGED <<db, mem, up, fault, wal, pending, stored, uncertain, crashes, rewinds>>

(***************************************************************************)
(* Rewinding, crashes and restarts.                                        *)
(***************************************************************************)

\* The headers SetHead deletes: from the top down to the target, or to the first
\* one that is missing.
Gone(top, target) ==
    {b \in Chain(top) : /\ Number(b) > target
                        /\ \A c \in Chain(top) : Number(c) >= Number(b) => c \in db.hdr}

\* Where a head goes when the header chain ends at header.
Lower(b, header) ==
    IF Number(header) >= Number(b) THEN b ELSE IF Has(header) THEN header ELSE Genesis

\* BlockChain.SetHead: headers above the target go, from the current header
\* down, then their numbers; the other heads follow.  A block to rewind to
\* without its state is dereferenced after it was set to nil.
Rewind(heads, target) ==
    LET top == heads.header
        gone == Gone(top, target)
        last == CHOOSE b \in Chain(top) \ gone :
                    \A c \in Chain(top) \ gone : Number(c) <= Number(b)
        header == IF last \in db.hdr THEN last ELSE Genesis
        block == Lower(heads.block, header)
        deletes == [i \in 1 .. Cardinality(gone) |->
                       LET b == NewestFirst(gone, i)
                       IN  <<Delete("body", b), Delete("hdr", b), Delete("td", b)>>]
        numbers == {n \in Numbers : target < n /\ n <= Number(top)}
    IN  deletes
          \o [i \in 1 .. Cardinality(numbers) |-> <<DeleteCanonicalHash(Number(top) + 1 - i)>>]
          \o <<<<WriteHead("header", header)>>>>
          \o (IF block \notin db.state THEN <<<<Panic>>>>
              ELSE <<<<WriteHead("block", block),
                       WriteHead("fast", Lower(heads.fast, header)), LoadLastState>>>>)

SetHead(target) ==
    /\ Idle /\ rewinds < plan.rewinds
    /\ rewinds' = rewinds + 1
    /\ wal' = Rewind(mem, target)
    /\ UNCHANGED <<db, mem, up, fault, pending, stored, uncertain, fast, crashes>>

Crash ==
    /\ up /\ crashes < plan.crashes
    /\ crashes' = crashes + 1
    /\ Down("crash")
    /\ UNCHANGED <<db, fast, rewinds>>

\* NewBlockChain: the head on disk is loaded if it is complete; else Reset
\* rewinds from the header it has, and makes the genesis block the head.
Restart ==
    LET b == db.head.block
        heads == [AllAt(Genesis) EXCEPT !.header = IF b \in db.hdr THEN b ELSE Genesis]
    IN  /\ ~up
        /\ up' = TRUE /\ fault' = None
        /\ mem' = heads
        /\ wal' = IF Loadable THEN <<<<LoadLastState>>>>
                  ELSE Rewind(heads, 0)
                         \o <<Insert(Genesis, db.canon[0] = Genesis) \o <<WriteHead("header", Genesis)>>>>
        /\ fast' = (plan.fast /\ (Loadable => b = Genesis))
        /\ UNCHANGED <<db, pending, stored, uncertain, crashes, rewinds>>

Next ==
    /\ \/ Step \/ Crash \/ Restart \/ UpdateFastHead \/ Rollback
       \/ HeadersDone \/ FallBack
       \/ \E w \in Writer : Abandon(w) \/ WriteBlockAndState(w)
       \/ \E w \in Writer, b \in plan.blocks : Verify(w, b)
       \/ \E b \in plan.blocks : WriteHeader(b) \/ InsertReceiptChain(b)
       \/ \E n \in Numbers : SetHead(n)
    /\ UNCHANGED plan

Spec == Init /\ [][Next]_vars

-----------------------------------------------------------------------------

TypeOK ==
    /\ db.hdr \cup db.body \cup db.td \cup db.state \subseteq Block
    /\ db.canon \in [Numbers -> Block \cup {None}]
    /\ db.lookup \in [Tx -> Block \cup {None}]
    /\ db.head \in Heads /\ mem \in Heads
    /\ fault \in {None, "crash", "panic", "deadlock"}
    /\ pending \in [Writer -> Block \cup {None}] /\ stored \in Block \cup {None}
    /\ uncertain \subseteq Block

\* The node has only ever imported blocks in full.
OnlyImports == ~plan.fast /\ crashes = 0 /\ rewinds = 0

\* After every import, reorganisations included, each number up to the head's
\* names the head's ancestor and no number above it names a block (insert,
\* reorg: the new branch is inserted out of order and never cleared first).
CanonicalIsHeadChain ==
    Idle /\ OnlyImports => \A n \in Numbers :
                IF n <= Number(mem.block) THEN db.canon[n] \in Chain(mem.block)
                ELSE db.canon[n] = None

\* A transaction is found in the block of the head's chain that holds it, and
\* is not found if none does (reorg, WriteTxLookupEntries, TxDifference).
LookupsFollowCanonical ==
    Idle /\ OnlyImports => \A t \in Tx :
                LET holders == {b \in Chain(mem.block) : t \in Txs[b]}
                IN  IF holders = {} THEN db.lookup[t] = None
                    ELSE db.lookup[t] \in holders

\* No stored block is longer than the head, whatever the order in which the
\* importer and the miner verify and write (WriteBlockAndState's fork choice).
HeadIsHeaviest ==
    Idle /\ OnlyImports => \A b \in db.hdr \cap db.state : Number(b) <= Number(mem.block)

\* Whatever was interrupted, or rewound, the head is a block with its state, and all its
\* ancestors are on disk with their total difficulty (loadLastState, SetHead, reorg's
\* refusal of an unconnected branch); the header and the fast head have a total
\* difficulty on disk, with which WriteHeader and InsertReceiptChain compare without
\* looking; and SetHead never ends in a Reset, which would take bc.mu a second time
\* ("This method assumes that the chain manager mutex is held", loadLastState).  Not
\* after both: SetHead deletes blocks before it moves the heads, from the current header
\* down, and a crash in between leaves the head on disk above what was deleted.
HeadComplete ==
    crashes = 0 \/ rewinds = 0 =>
        /\ fault # "deadlock"
        /\ Idle => /\ Complete(mem.block)
                   /\ \A b \in Chain(mem.block) : Has(b) /\ b \in db.td
                   /\ {mem.header, mem.fast} \subseteq db.td

\* "Rewound state missing, rolled back to before pivot, reset to genesis"
\* (SetHead): the node goes on.
RewindNeverPanics == fault # "panic"

=============================================================================
