------------------------------- MODULE MCNet -------------------------------
(***************************************************************************)
(* Model checking of the peer-to-peer layer: the server with its dialer    *)
(* and listener, the encrypted transport, message pipes, and node          *)
(* discovery.  A behaviour exercises one part, chosen by the initial state. *)
(***************************************************************************)
EXTENDS Integers, Sequences, FiniteSets

VARIABLES part,
          lock, running, quit, loop, listen, slots, conn, peers, ds, tasks, queued, taskdone, stop, ops,
          dest, at, hs, rw, wire, wrote, sent, got, faults, why,
          buckets, db, bonding, bondslots, th, tableCalls,
          plist, res, udpNext, timer, now, jumps, closing, loopEnded, replies,
          target, table, entries, asked, seen, pending, told, over,
          closed, mpClosing, wr, rd, pipeSent, calls

\* The server seen from the listener (no dynamic dials, one node added and
\* removed while it runs) and from the dialer (one static node, one found by
\* discovery, one that connects).
Inbound == INSTANCE P2PServer WITH
    Node <- {"a", "b", "me"}, Self <- "me", maxDynDials <- 0, bootnodes <- <<>>, Conn <- {"c1", "c2"},
    Trusted <- {"b"}, StaticNodes <- {}, MaxPeers <- 1, MaxPendingPeers <- 2, maxActiveDialTasks <- 1,
    Callers <- {"a", "b"}, Found <- {}, Addable <- {}, Ops <- 0
Outbound == INSTANCE P2PServer WITH
    Node <- {"a", "b", "me"}, Self <- "me", maxDynDials <- 1, bootnodes <- <<"b">>, Conn <- {"c1"},
    Trusted <- {}, StaticNodes <- {"a"}, MaxPeers <- 1, MaxPendingPeers <- 1, maxActiveDialTasks <- 2,
    Callers <- {"a"}, Found <- {"b"}, Addable <- {"a"}, Ops <- 1

Tp == INSTANCE Transport WITH
    Sizes <- {14, 15, 40}, maxUint24 <- 32, MaxSent <- 2, MaxFaults <- 1,
    Writer <- {"w1", "w2"}, Reader <- {"r1"}, Size <- {0, 2}, MaxMsgs <- 3, Closers <- {"a", "b"},
    closing <- mpClosing

Nodes == {"a", "b", "c", "me"}
Calling == {"c1", "c2", "c3"}
Disc == INSTANCE Discover WITH
    Id <- Nodes, self <- "me", logdist <- [n \in Nodes |-> 1], bucketSize <- 2,
    maxBondingPingPongs <- 1, maxFindnodeFailures <- 2, Seeds <- <<"a", "b">>, Thread <- {"t1", "t2"}, Calls <- 3,
    Hash <- {<<0, 0>>, <<0, 1>>, <<1, 2>>, <<2, 0>>, <<3, 3>>}, width <- 2, lookupSelf <- <<0, 0>>,
    alpha <- 2, lookupBucketSize <- 3, maxNeighbors <- 2,
    Call <- Calling, From <- [c \in Calling |-> IF c = "c2" THEN "b" ELSE "a"],
    Wants <- [c \in Calling |-> IF c = "c3" THEN "neighbors" ELSE "pong"],
    Chunks <- 2, MaxTime <- 3, MaxJumps <- 1, MaxReplies <- 2, calls <- tableCalls

sv == <<lock, running, quit, loop, listen, slots, conn, peers, ds, tasks, queued, taskdone, stop, ops>>
rx == <<dest, at, hs, rw, wire, wrote, sent, got, faults, why>>
ta == <<buckets, db, bonding, bondslots, th, tableCalls>>
ud == <<plist, res, udpNext, timer, now, jumps, closing, loopEnded, replies>>
lo == <<target, table, entries, asked, seen, pending, told, over>>
mp == <<closed, mpClosing, wr, rd, pipeSent, calls>>
vars == <<part, sv, rx, ta, ud, lo, mp>>

Init == /\ part \in {"inbound", "outbound", "rlpx", "table", "udp", "lookup", "pipe"}
        /\ IF part = "outbound" THEN Outbound!Init ELSE Inbound!Init
        /\ Tp!Init /\ Disc!Init /\ Disc!UdpInit /\ Tp!PipeInit
        /\ part # "rlpx" => dest = "recv"
        /\ IF part = "lookup" THEN Disc!LookupInit
           ELSE /\ target = <<0, 0>> /\ table = {} /\ entries = <<>> /\ asked = {} /\ seen = {}
                /\ pending = {} /\ told = {} /\ over = TRUE

Next ==
    \/ part = "inbound" /\ Inbound!Next /\ UNCHANGED <<part, rx, ta, ud, lo, mp>>
    \/ part = "outbound" /\ Outbound!Next /\ UNCHANGED <<part, rx, ta, ud, lo, mp>>
    \/ part = "rlpx" /\ Tp!Next /\ UNCHANGED <<part, sv, ta, ud, lo, mp>>
    \/ part = "table" /\ Disc!Next /\ UNCHANGED <<part, sv, rx, ud, lo, mp>>
    \/ part = "udp" /\ Disc!UdpNext /\ UNCHANGED <<part, sv, rx, ta, lo, mp>>
    \/ part = "lookup" /\ Disc!LookupNext /\ UNCHANGED <<part, sv, rx, ta, ud, mp>>
    \/ part = "pipe" /\ Tp!PipeNext /\ UNCHANGED <<part, sv, rx, ta, ud, lo>>

Spec == Init /\ [][Next]_vars

-----------------------------------------------------------------------------
Types == /\ IF part = "outbound" THEN Outbound!TypeOK ELSE Inbound!TypeOK
         /\ Tp!TypeOK /\ Disc!TypeOK /\ Disc!UdpTypeOK /\ Disc!LookupTypeOK /\ Tp!PipeTypeOK

\* The server (server.go, dial.go): peer map and peer goroutines agree, so a node has
\* one peer; only trusted and static connections pass MaxPeers; every handshake slot
\* is accounted for; a node is dialed by one task at a time, dynamic dials stay within
\* their number, the loop keeps ticking while a static node is missing, and nothing is
\* left when Stop returns.  The stream under a peer (rlpx.go, peer.go, message.go): what
\* an end reads is a prefix of what the other sent, both ends hold the same keys and
\* stay in step through the switch to compression; a piped write returns when its
\* payload was consumed.
ConnectionsExact ==
    /\ Types
    /\ IF part = "outbound"
       THEN /\ Outbound!OnePeerPerNode /\ Outbound!PeerLimit /\ Outbound!SlotsConserved /\ Outbound!DialsExact
            /\ Outbound!DynDialsBounded /\ Outbound!KeepsTicking /\ Outbound!StoppedIsEmpty
       ELSE /\ Inbound!OnePeerPerNode /\ Inbound!PeerLimit /\ Inbound!SlotsConserved /\ Inbound!DialsExact
            /\ Inbound!KeepsTicking /\ Inbound!StoppedIsEmpty
    /\ Tp!ReadsPrefix /\ Tp!KeysAgree /\ Tp!FramesInStep /\ Tp!WriteMeansConsumed /\ Tp!ClosedForGood

\* Discovery (table.go, udp.go, node.go): buckets hold a node once and within their size
\* though add unlocks in the middle, and a node leaves only because it failed too many
\* queries or left a ping unanswered while it was the oldest of a full bucket; exchanges
\* are limited; a waiting bond waits for a living one; every pending request gets one
\* result and has its timer; a lookup keeps the closest nodes it was told of, with
\* bounded queries, under a metric that is the XOR distance.
DiscoveryExact ==
    /\ [](/\ Disc!BucketsSound /\ Disc!ExchangesLimited /\ Disc!WaitsForLiving
          /\ Disc!ListExact /\ Disc!TimerArmed
          /\ part = "lookup" => /\ Disc!ResultIsClosest /\ Disc!QueriesBounded
                                /\ Disc!MetricSound /\ Disc!NeighborsWhole)
    /\ [][Disc!LeavesForCause]_ta
=============================================================================
