------------------------------- MODULE Gossip -------------------------------
(***************************************************************************)
(* How blocks and transactions travel between nodes: the handlers of        *)
(* NewBlockMsg, NewBlockHashesMsg and TxMsg in handleMsg, BroadcastBlock,   *)
(* BroadcastTx and the broadcast loops (src/pkg/eth/handler.go), the known  *)
(* lists and heads of peers (peer.go), and syncer and synchronise           *)
(* (sync.go).  Every block has difficulty 1, so a block's number is its     *)
(* total difficulty.  The fetcher and the downloader appear by what they do *)
(* to the chain; their own modules have the details.                        *)
(***************************************************************************)
EXTENDS Integers, Sequences, FiniteSets

CONSTANTS Node, Links,       \* nodes; pairs of nodes, as sets, that get connected
          Branch,            \* who mined the first blocks, while nobody was connected
          MaxBlocks, Tx,     \* blocks ever mined (a bound); transactions
          maxKnown           \* maxKnownBlocks and maxKnownTxs

VARIABLES parent, number,    \* of every block; -1 before it is mined
          have, head,        \* each node's blocks and its head
          linked,            \* pairs that have registered each other
          known, knownTxs,   \* the known lists: node, peer -> set
          remote,            \* node, peer -> the peer's head and total difficulty
          wire,              \* messages on their way, sender and receiver
          fetching, queued,  \* the fetcher: announced blocks with their origin; its queue
          duty,              \* broadcasts that goroutines and loops still have to do
          syncs,             \* peers a started synchronise runs with
          acceptTxs, pool,
          status, missed,    \* handshakes under way; blocks imported meanwhile
          checked, dangling, \* blocks whose header is verified; blocks without a parent
          offers             \* how often a block was offered, sender and receiver
vars == <<parent, number, have, head, linked, known, knownTxs, remote, wire,
          fetching, queued, duty, syncs, acceptTxs, pool, status, missed, checked, dangling, offers>>

Block == 1 .. MaxBlocks
Pair == {<<n, p>> \in Node \X Node : {n, p} \in Links /\ n # p}
Peers(n) == {p \in Node : p # n /\ {n, p} \in linked}
Made == {b \in Block : number[b] > 0}
Unknown == [head |-> 0, td |-> 0]

RECURSIVE Chain(_)
Chain(b) == IF b = 0 THEN {0} ELSE {b} \cup Chain(parent[b])
Td(b) == IF b = 0 THEN 0 ELSE number[b]

By(n) == {b \in DOMAIN Branch : Branch[b] = n}
Newest(bs) == CHOOSE b \in {0} \cup bs : \A c \in bs : c <= b

Init ==
  /\ number = [b \in Block |->
       IF b \in DOMAIN Branch THEN Cardinality({c \in By(Branch[b]) : c <= b}) ELSE 0]
  /\ parent = [b \in Block |->
       IF b \in DOMAIN Branch THEN Newest({c \in By(Branch[b]) : c < b}) ELSE 0]
  /\ have = [n \in Node |-> {0} \cup By(n)]
  /\ head = [n \in Node |-> Newest(By(n))]
  /\ linked = {} /\ status = {} /\ missed = {}
  /\ checked = [n \in Node |-> {}] /\ dangling = [n \in Node |-> {}]
  /\ offers = [np \in Pair |-> [b \in Block |-> 0]]
  /\ known = [np \in Pair |-> {}] /\ knownTxs = [np \in Pair |-> {}]
  /\ remote = [np \in Pair |-> Unknown]
  /\ wire = [np \in Pair |-> <<>>]
  /\ fetching = [n \in Node |-> {}] /\ queued = [n \in Node |-> {}]
  /\ duty = [n \in Node |-> {}] /\ syncs = [n \in Node |-> {}]
  /\ acceptTxs = [n \in Node |-> FALSE] /\ pool = [n \in Node |-> {}]

chainVars == <<parent, number, have, head, missed, checked, dangling>>
peerVars == <<known, knownTxs, remote, linked, status, offers>>

-----------------------------------------------------------------------------
(* Connections.                                                             *)

\* handle sends Status to the other side; both do so before either registers.
Handshake(l) ==
  /\ l \in Links \ linked /\ ~\E s \in status : s.link = l
  /\ status' = status \cup {[link |-> l, head |-> [n \in l |-> head[n]]]}
  /\ UNCHANGED <<chainVars, known, knownTxs, remote, linked, offers, wire, fetching, queued, duty,
                 syncs, acceptTxs, pool>>

Other(s, n) == CHOOSE p \in s.link : p # n

\* Register, and syncTransactions for what is pending.
Register(s) ==
  /\ s \in status
  /\ status' = status \ {s}
  /\ linked' = linked \cup {s.link}
  /\ remote' = [np \in Pair |->
       IF {np[1], np[2]} = s.link THEN [head |-> s.head[np[2]], td |-> Td(s.head[np[2]])]
       ELSE remote[np]]
  /\ knownTxs' = [np \in Pair |->
       IF {np[1], np[2]} = s.link THEN pool[np[1]] ELSE knownTxs[np]]
  /\ wire' = [np \in Pair |->
       IF {np[1], np[2]} = s.link /\ pool[np[1]] # {}
       THEN Append(wire[np], [type |-> "txs", txs |-> pool[np[1]]]) ELSE wire[np]]
  /\ UNCHANGED <<chainVars, known, offers, fetching, queued, duty, syncs, acceptTxs, pool>>

-----------------------------------------------------------------------------
(* BroadcastBlock and BroadcastTx.                                          *)

PeersWithoutBlock(n, b) == {p \in Peers(n) : b \notin known[<<n, p>>]}
PeersWithoutTx(n, x) == {p \in Peers(n) : x \notin knownTxs[<<n, p>>]}
Sqrt(k) == CHOOSE r \in 0 .. k : r * r <= k /\ (r + 1) * (r + 1) > k

SendNewBlock(b) == [type |-> "block", block |-> b, td |-> number[b]]
SendNewBlockHashes(b) == [type |-> "hash", block |-> b]
To(n, S, m) == [np \in Pair |-> IF np[1] = n /\ np[2] \in S THEN <<m>> ELSE <<>>]
Post(out) == wire' = [np \in Pair |-> wire[np] \o out[np]]
Sent(n, S, b) ==
  offers' = [np \in Pair |->
    IF np[1] = n /\ np[2] \in S THEN [offers[np] EXCEPT ![b] = @ + 1] ELSE offers[np]]

Mark(n, S, b) == [np \in Pair |-> IF np[1] = n /\ np[2] \in S THEN known[np] \cup {b} ELSE known[np]]

Propagate(n, b) ==
  /\ <<b, "propagate">> \in duty[n]
  /\ duty' = [duty EXCEPT ![n] = @ \ {<<b, "propagate">>}]
  /\ \E S \in SUBSET PeersWithoutBlock(n, b) :
       /\ Cardinality(S) = Sqrt(Cardinality(PeersWithoutBlock(n, b)))
       /\ known' = Mark(n, S, b)
       /\ Post(To(n, S, SendNewBlock(b))) /\ Sent(n, S, b)
  /\ UNCHANGED <<chainVars, knownTxs, remote, linked, status, fetching, queued, syncs, acceptTxs, pool>>

Announce(n, b) ==
  /\ <<b, "announce">> \in duty[n]
  /\ duty' = [duty EXCEPT ![n] = @ \ {<<b, "announce">>}]
  /\ known' = Mark(n, PeersWithoutBlock(n, b), b)
  /\ Post(To(n, PeersWithoutBlock(n, b), SendNewBlockHashes(b))) /\ Sent(n, PeersWithoutBlock(n, b), b)
  /\ UNCHANGED <<chainVars, knownTxs, remote, linked, status, fetching, queued, syncs, acceptTxs, pool>>

\* One after the other.
minedBroadcastLoop(n, b) ==
  /\ <<b, "mined">> \in duty[n]
  /\ duty' = [duty EXCEPT ![n] = (@ \ {<<b, "mined">>}) \cup {<<b, "announce">>}]
  /\ \E S \in SUBSET PeersWithoutBlock(n, b) :
       /\ Cardinality(S) = Sqrt(Cardinality(PeersWithoutBlock(n, b)))
       /\ known' = Mark(n, S, b)
       /\ Post(To(n, S, SendNewBlock(b))) /\ Sent(n, S, b)
  /\ UNCHANGED <<chainVars, knownTxs, remote, linked, status, fetching, queued, syncs, acceptTxs, pool>>

\* A transaction new to the pool is sent to all peers not known to have it.
BroadcastTx(n, x) ==
  /\ <<x, "tx">> \in duty[n]
  /\ duty' = [duty EXCEPT ![n] = @ \ {<<x, "tx">>}]
  /\ knownTxs' = [np \in Pair |->
       IF np[1] = n /\ np[2] \in PeersWithoutTx(n, x) THEN knownTxs[np] \cup {x} ELSE knownTxs[np]]
  /\ Post(To(n, PeersWithoutTx(n, x), [type |-> "txs", txs |-> {x}]))
  /\ UNCHANGED <<chainVars, known, offers, remote, linked, status, fetching, queued, syncs, acceptTxs, pool>>

-----------------------------------------------------------------------------
(* The chain.                                                               *)

Pending(n) == \E s \in status : n \in s.link
\* A heavier block becomes the head; of two equal ones, either may.
Heads(n, b) ==
  IF Td(b) > Td(head[n]) THEN {b} ELSE IF Td(b) = Td(head[n]) THEN {b, head[n]} ELSE {head[n]}

\* External: the miner of node n seals a block on its head.
Mine(n) ==
  /\ \E b \in Block \ Made :
       /\ \A c \in Block \ Made : b <= c
       /\ parent' = [parent EXCEPT ![b] = head[n]]
       /\ number' = [number EXCEPT ![b] = Td(head[n]) + 1]
       /\ have' = [have EXCEPT ![n] = @ \cup {b}]
       /\ head' = [head EXCEPT ![n] = b]
       /\ missed' = IF Pending(n) THEN missed \cup {<<n, b>>} ELSE missed
       /\ duty' = [duty EXCEPT ![n] = @ \cup {<<b, "mined">>}]
  /\ UNCHANGED <<checked, dangling, peerVars, wire, fetching, queued, syncs, acceptTxs, pool>>

\* The fetcher gets an announced block from the peer that announced it.
Fetch(n, b, p) ==
  /\ <<b, p>> \in fetching[n]
  /\ fetching' = [fetching EXCEPT ![n] = @ \ {<<b, p>>}]
  /\ queued' = [queued EXCEPT ![n] = IF b \in have[n] THEN @ ELSE @ \cup {b}]
  /\ UNCHANGED <<chainVars, peerVars, wire, duty, syncs, acceptTxs, pool>>

\* insert of the fetcher: a block with a good header is propagated at once ...
Verify(n, b) ==
  /\ b \in queued[n] /\ number[b] <= Td(head[n]) + 1
  /\ queued' = [queued EXCEPT ![n] = @ \ {b}]
  /\ IF b \in have[n] THEN UNCHANGED <<checked, dangling, duty>>
     ELSE IF parent[b] \notin have[n]
     THEN dangling' = [dangling EXCEPT ![n] = @ \cup {b}] /\ UNCHANGED <<checked, duty>>
     ELSE /\ checked' = [checked EXCEPT ![n] = @ \cup {b}]
          /\ duty' = [duty EXCEPT ![n] = @ \cup {<<b, "propagate">>}]
          /\ UNCHANGED dangling
  /\ UNCHANGED <<parent, number, have, head, missed, peerVars, wire, fetching, syncs, acceptTxs, pool>>

\* ... and announced when the inserter of NewProtocolManager has imported it.
Import(n, b) ==
  /\ b \in checked[n]
  /\ checked' = [checked EXCEPT ![n] = @ \ {b}]
  /\ have' = [have EXCEPT ![n] = @ \cup {b}]
  /\ \E h \in Heads(n, b) : head' = [head EXCEPT ![n] = h]
  /\ missed' = IF Pending(n) THEN missed \cup {<<n, b>>} ELSE missed
  /\ duty' = [duty EXCEPT ![n] = @ \cup {<<b, "announce">>}]
  /\ acceptTxs' = [acceptTxs EXCEPT ![n] = TRUE]
  /\ UNCHANGED <<parent, number, dangling, peerVars, wire, fetching, queued, syncs, pool>>

\* A cycle of the downloader that ends well brings the chain of the peer's head.
synchronise(n, p) ==
  IF remote[<<n, p>>].td <= Td(head[n])
  THEN UNCHANGED <<have, head, missed, duty, acceptTxs>>
  ELSE /\ have' = [have EXCEPT ![n] = @ \cup Chain(remote[<<n, p>>].head)]
       /\ head' = [head EXCEPT ![n] = remote[<<n, p>>].head]
       /\ missed' = IF Pending(n) THEN missed \cup {<<n, remote[<<n, p>>].head>>} ELSE missed
       /\ acceptTxs' = [acceptTxs EXCEPT ![n] = TRUE]
       /\ duty' = [duty EXCEPT ![n] = @ \cup {<<remote[<<n, p>>].head, "announce">>}]

Synchronise(n, p) ==
  /\ p \in syncs[n]
  /\ syncs' = [syncs EXCEPT ![n] = @ \ {p}]
  /\ synchronise(n, p)
  /\ UNCHANGED <<parent, number, checked, dangling, peerVars, wire, fetching, queued, pool>>

BestPeer(n) == {p \in Peers(n) : \A q \in Peers(n) : remote[<<n, q>>].td <= remote[<<n, p>>].td}

\* The syncer, for a new peer or when the ticker fires.
syncer(n) ==
  /\ \E p \in BestPeer(n) : remote[<<n, p>>].td > Td(head[n]) /\ synchronise(n, p)
  /\ UNCHANGED <<parent, number, checked, dangling, peerVars, wire, fetching, queued, syncs, pool>>

-----------------------------------------------------------------------------
(* handleMsg of node n for the next message of peer p.                      *)

\* The list makes room before it takes one more; what goes is not determined.
MarkBlock(n, p, b) ==
  \E k \in SUBSET known[<<n, p>>] :
    /\ IF Cardinality(known[<<n, p>>]) < maxKnown THEN k = known[<<n, p>>]
       ELSE Cardinality(k) = maxKnown - 1
    /\ known' = [known EXCEPT ![<<n, p>>] = k \cup {b}]
MarkTransactions(n, p, xs) == knownTxs' = [knownTxs EXCEPT ![<<n, p>>] = @ \cup xs]

Read(n, p, type) ==
  /\ wire[<<p, n>>] # <<>> /\ Head(wire[<<p, n>>]).type = type
  /\ wire' = [wire EXCEPT ![<<p, n>>] = Tail(@)]

\* trueHead and trueTD: what the sender of a block must have.
Must(m) == [head |-> parent[m.block], td |-> m.td - 1]

NewBlockMsg(n, p) ==
  /\ Read(n, p, "block")
  /\ LET m == Head(wire[<<p, n>>])
     IN  /\ MarkBlock(n, p, m.block)
         /\ queued' = [queued EXCEPT ![n] = IF m.block \in have[n] THEN @ ELSE @ \cup {m.block}]
         /\ IF Must(m).td > remote[<<n, p>>].td
            THEN /\ remote' = [remote EXCEPT ![<<n, p>>] = Must(m)]
                 /\ syncs' = [syncs EXCEPT ![n] = IF Must(m).td > Td(head[n]) THEN @ \cup {p} ELSE @]
            ELSE UNCHANGED <<remote, syncs>>
  /\ UNCHANGED <<chainVars, knownTxs, offers, linked, status, fetching, duty, acceptTxs, pool>>

NewBlockHashesMsg(n, p) ==
  /\ Read(n, p, "hash")
  /\ LET b == Head(wire[<<p, n>>]).block
     IN  /\ MarkBlock(n, p, b)
         /\ fetching' = [fetching EXCEPT ![n] = IF b \in have[n] THEN @ ELSE @ \cup {<<b, p>>}]
  /\ UNCHANGED <<chainVars, knownTxs, offers, remote, linked, status, queued, duty, syncs, acceptTxs, pool>>

\* The pool announces what is new to it.
Pooled(n, xs) ==
  /\ pool' = [pool EXCEPT ![n] = @ \cup xs]
  /\ duty' = [duty EXCEPT ![n] = @ \cup ((xs \ pool[n]) \X {"tx"})]

TxMsg(n, p) ==
  /\ Read(n, p, "txs")
  /\ IF acceptTxs[n]
     THEN /\ MarkTransactions(n, p, Head(wire[<<p, n>>]).txs)
          /\ Pooled(n, Head(wire[<<p, n>>]).txs)
     ELSE UNCHANGED <<knownTxs, pool, duty>>
  /\ UNCHANGED <<chainVars, known, offers, remote, linked, status, fetching, queued, syncs, acceptTxs>>

\* External: a user of node n sends a transaction.
AddLocal(n, x) ==
  /\ \A m \in Node : x \notin pool[m]
  /\ Pooled(n, {x})
  /\ UNCHANGED <<chainVars, peerVars, wire, fetching, queued, syncs, acceptTxs>>

Next ==
  \/ \E l \in Links : Handshake(l)
  \/ \E s \in status : Register(s)
  \/ \E n \in Node :
       \/ Mine(n) \/ syncer(n)
       \/ \E b \in Block : Propagate(n, b) \/ Announce(n, b) \/ minedBroadcastLoop(n, b)
                           \/ Verify(n, b) \/ Import(n, b)
       \/ \E x \in Tx : BroadcastTx(n, x) \/ AddLocal(n, x)
       \/ \E p \in Node \ {n} :
            /\ {n, p} \in Links
            /\ \/ NewBlockMsg(n, p) \/ NewBlockHashesMsg(n, p) \/ TxMsg(n, p) \/ Synchronise(n, p)
               \/ \E b \in Block : Fetch(n, b, p)

Spec == Init /\ [][Next]_vars

-----------------------------------------------------------------------------
TypeOK ==
  /\ \A n \in Node : have[n] \subseteq 0 .. MaxBlocks /\ head[n] \in have[n]
  /\ linked \subseteq Links
  /\ \A n \in Node : syncs[n] \subseteq Node /\ pool[n] \subseteq Tx

\* Nobody has anything left to do: no message, broadcast, fetch, import or
\* synchronisation is under way, and every handshake is over.
Quiet ==
  /\ status = {}
  /\ \A np \in Pair : wire[np] = <<>>
  /\ \A n \in Node : fetching[n] = {} /\ duty[n] = {} /\ syncs[n] = {} /\ checked[n] = {}
  /\ \A n \in Node : \A b \in queued[n] : number[b] > Td(head[n]) + 1
  /\ \A n \in Node : \A p \in Peers(n) : remote[<<n, p>>].td <= Td(head[n])

\* What a node believes to be the head of a peer is a block the peer has, with
\* its total difficulty: handleMsg credits the sender of a block with the
\* parent only, because a block is propagated before it is imported.
BelievedHeadsExist ==
  \A np \in Pair : LET r == remote[np]
                   IN  r.head \in have[np[2]] /\ r.td = Td(r.head) /\ r.td <= Td(head[np[2]])

\* A node's chain is whole; no block is offered twice over a connection while
\* the known list holds; and when all is quiet, a block that was offered to a
\* node is in its chain, waits for its turn or was found without a parent.
OffersExact ==
  /\ \A n \in Node : Chain(head[n]) \subseteq have[n]
  /\ MaxBlocks <= maxKnown => \A np \in Pair, b \in Block : offers[np][b] <= 1
  /\ Quiet => \A np \in Pair, b \in Block :
       offers[np][b] > 0 => b \in have[np[2]] \cup queued[np[2]] \cup dangling[np[2]]

=============================================================================
