------------------------------- MODULE MCWire -------------------------------
(***************************************************************************)
(* Model checking of what peers say to each other: the RLP codec, the      *)
(* sessions of the protocol handler, the transactions and replies it       *)
(* sends, and the spreading of blocks and transactions between nodes.  A   *)
(* behaviour exercises one part, chosen by the initial state.              *)
(***************************************************************************)
EXTENDS Integers, Sequences, FiniteSets

VARIABLES part,
          stream, target, todo, err, buf, heads, fault, reader, out,
          pc, rm, rmTarget, rmId, peers, dlPeers, disc, wg, syncer, stop,
          offered, txSent, pending, pack, done, failed, quit,
          forkDrop, replyWire, replyAsked, got, fetchWants, session, mistaken,
          query, origin, headers, unknown, serveAsked, request, content, serveSent,
          parent, number, have, head, linked, known, knownTxs, remote, wire, fetching, queued, duty, syncs,
          acceptTxs, pool, status, missed, checked, dangling, offers

\* Inputs of up to three bytes around every boundary of the header byte, lists
\* of three, and payloads of 55, 56 and 256 bytes under correct and wrong headers.
Ones(n) == [i \in 1 .. n |-> 1]
Bytes3 == UNION {[1 .. n -> {0, 1, 128, 129, 193, 194}] : n \in 0 .. 3}
Lists3 == {<<194>> \o x : x \in [1 .. 3 -> {0, 129, 192, 193}]}
Long == {<<184, 56>> \o Ones(56), <<184, 55>> \o Ones(55), <<183>> \o Ones(55), <<185, 0, 56>> \o Ones(56),
         <<247>> \o Ones(55), <<248, 56>> \o Ones(56), <<248, 58, 184, 56>> \o Ones(56),
         <<249, 0, 56>> \o Ones(56), <<184, 56>> \o Ones(55), <<185, 1, 0>> \o Ones(256)}
u == [k |-> "uint", n |-> 2, zero |-> 0]
by == [k |-> "bytes", zero |-> <<>>]
Ptr(t) == [k |-> "ptr", e |-> t]
SliceOf(t) == [k |-> "slice", e |-> t]
F(t, g) == [t |-> t, tag |-> g]
GoTypes ==
  {u, by, [k |-> "bool"], [k |-> "big"], [k |-> "iface"], [k |-> "raw"], [k |-> "bytearray", n |-> 2],
   SliceOf(u), [k |-> "array", n |-> 2, e |-> by], SliceOf(SliceOf(by)),
   [k |-> "struct", fs |-> <<F(Ptr(by), "nil"), F(Ptr(SliceOf(by)), "nil")>>],
   [k |-> "struct", fs |-> <<F(u, ""), F(by, "-"), F(Ptr(by), ""), F(SliceOf(u), "tail")>>]}
Codec == INSTANCE RLP WITH
    Inputs <- Bytes3 \cup Lists3 \cup Long, ReadSizes <- {1, 3}, MaxInteger <- 3, Types <- GoTypes

\* The peer of a reply is on the same side of the fork, then on the other.
Same == INSTANCE Protocol WITH
    Session <- {"s1", "s2", "s3"}, Id <- [s1 |-> "i", s2 |-> "i", s3 |-> "j"], Dropper <- {"d"}, maxPeers <- 1,
    Conn <- {"c1", "c2", "c3"}, NodeId <- [c1 |-> "i", c2 |-> "j", c3 |-> "i"], Tx <- {"x", "y"}, packSize <- 1,
    ReplySide <- "same", PeerHasFork <- FALSE, OwnTd <- 3, PeerTd <- 4, MaxAsked <- 3,
    Length <- 5, Fork <- 2, SideLength <- 4, ServeSide <- 20, W <- 16, Amounts <- {0, 3, 9}, Skips <- {0, 1, 11, 15},
    MaxFetch <- 4, softLimit <- 3, Wanted <- {1, 2, 24, 40},
    Stored <- [bodies |-> {1, 2, 24}, nodes |-> {1}, receipts |-> {1}], EmptyRoot <- {2},
    target <- rmTarget, wire <- replyWire
Other == INSTANCE Protocol WITH
    Session <- {"s1", "s2", "s3"}, Id <- [s1 |-> "i", s2 |-> "i", s3 |-> "j"], Dropper <- {"d"}, maxPeers <- 1,
    Conn <- {"c1", "c2", "c3"}, NodeId <- [c1 |-> "i", c2 |-> "j", c3 |-> "i"], Tx <- {"x", "y"}, packSize <- 1,
    ReplySide <- "other", PeerHasFork <- TRUE, OwnTd <- 3, PeerTd <- 2, MaxAsked <- 3,
    Length <- 5, Fork <- 2, SideLength <- 4, ServeSide <- 20, W <- 16, Amounts <- {0, 3, 9}, Skips <- {0, 1, 11, 15},
    MaxFetch <- 4, softLimit <- 3, Wanted <- {1, 2, 24, 40},
    Stored <- [bodies |-> {1, 2, 24}, nodes |-> {1}, receipts |-> {1}], EmptyRoot <- {2},
    target <- rmTarget, wire <- replyWire

\* Two nodes that mine on branches of their own; three in a line.
Pair == INSTANCE Gossip WITH
    Node <- {1, 2}, Links <- {{1, 2}}, Branch <- <<1, 2>>, MaxBlocks <- 4, Tx <- {}, maxKnown <- 1
Line == INSTANCE Gossip WITH
    Node <- {1, 2, 3}, Links <- {{1, 2}, {2, 3}}, Branch <- <<1, 1>>, MaxBlocks <- 2, Tx <- {101}, maxKnown <- 4

rl == <<stream, target, todo, err, buf, heads, fault, reader, out>>
ha == <<pc, rm, rmTarget, rmId, peers, dlPeers, disc, wg, syncer, stop>>
tx == <<offered, txSent, pending, pack, done, failed, quit>>
re == <<forkDrop, replyWire, replyAsked, got, fetchWants, session, mistaken>>
sv == <<query, origin, headers, unknown, serveAsked, request, content, serveSent>>
go == <<parent, number, have, head, linked, known, knownTxs, remote, wire, fetching, queued, duty, syncs,
        acceptTxs, pool, status, missed, checked, dangling, offers>>
vars == <<part, rl, ha, tx, re, sv, go>>

Init == /\ part \in {"rlp", "sessions", "txs", "same", "other", "serve", "pair", "line"}
        /\ IF part = "rlp" THEN Codec!Init
           ELSE /\ stream = Codec!Reset(<<>>, 0, TRUE) /\ target = u /\ todo = <<>> /\ err = ""
                /\ buf = Codec!emptybuf /\ heads = <<>> /\ fault = FALSE /\ reader = Codec!none /\ out = <<>>
        /\ IF part = "serve" THEN Same!ServeInit
           ELSE /\ query = Same!NoQuery /\ serveAsked = Same!NoRequest
                /\ origin = query.origin /\ request = serveAsked.hashes
                /\ headers = <<>> /\ unknown = FALSE /\ content = <<>> /\ serveSent = FALSE
        /\ Same!Init /\ Same!TxInit /\ Same!ReplyInit
        /\ IF part = "line" THEN Line!Init ELSE Pair!Init

Next ==
    \/ part = "rlp" /\ Codec!Next /\ UNCHANGED <<part, ha, tx, re, sv, go>>
    \/ part = "sessions" /\ Same!Next /\ UNCHANGED <<part, rl, tx, re, sv, go>>
    \/ part = "txs" /\ Same!TxNext /\ UNCHANGED <<part, rl, ha, re, sv, go>>
    \/ part = "same" /\ Same!ReplyNext /\ UNCHANGED <<part, rl, ha, tx, sv, go>>
    \/ part = "other" /\ Other!ReplyNext /\ UNCHANGED <<part, rl, ha, tx, sv, go>>
    \/ part = "serve" /\ Same!ServeNext /\ UNCHANGED <<part, rl, ha, tx, re, go>>
    \/ part = "pair" /\ Pair!Next /\ UNCHANGED <<part, rl, ha, tx, re, sv>>
    \/ part = "line" /\ Line!Next /\ UNCHANGED <<part, rl, ha, tx, re, sv>>

Spec == Init /\ [][Next]_vars

-----------------------------------------------------------------------------
Types == /\ Codec!TypeOK /\ Same!TypeOK /\ Same!TxTypeOK /\ Same!ReplyTypeOK /\ Same!ServeTypeOK
         /\ IF part = "line" THEN Line!TypeOK ELSE Pair!TypeOK

\* The codec (decode.go, encode.go, raw.go, typecache.go): the Stream's limits nest and
\* its lists never pass over input; a value that decodes without an error encodes back to
\* the very bytes it came from, so a block has one encoding and one hash; Split and
\* CountValues take a value exactly where the Stream does.
CodecExact == part = "rlp" => /\ Codec!ListsNest /\ Codec!CanonicalForm
                              /\ Codec!SplitAgrees /\ Codec!CountsAgree

\* Peers (handler.go, sync.go, peer.go, fetcher.go): a registered session is live,
\* however many goroutines remove it at once; a connection gets each pending
\* transaction offered to it once unless its id came back or a send failed; a peer is
\* dropped at the fork only for what it sent; a reply has the headers and contents
\* asked for, within its limits; a block is offered once over a link, and a head a
\* node believes a peer to have exists.
PeersExact == /\ Types
              /\ Same!RegisteredIsLive /\ Same!OffersConserved
              /\ IF part = "other" THEN Other!ForkCheckExact ELSE Same!ForkCheckExact
              /\ Same!HeadersAsAsked /\ Same!ContentAsAsked
              /\ IF part = "line" THEN Line!BelievedHeadsExist /\ Line!OffersExact
                                  ELSE Pair!BelievedHeadsExist /\ Pair!OffersExact
=============================================================================
