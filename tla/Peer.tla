--------------------------------- MODULE Peer ---------------------------------
(*****************************************************************************)
(* A peer connection: the matching of protocols and the run loop.            *)
(*****************************************************************************)
EXTENDS Integers, Sequences, FiniteSets, SequencesExt

-----------------------------------------------------------------------------
(***************************************************************************)
(* Which subprotocols two peers speak with each other, and with which      *)
(* message codes (p2p/peer.go).  A protocol is a pair <<name, version>> of *)
(* numbers; Length gives its message count.                                *)
(***************************************************************************)

CONSTANTS Protocol,           \* pairs <<name, version>>
          Length,             \* [Protocol -> number of message codes]
          baseProtocolLength  \* codes of the base protocol

\* capsByNameAndVersion
Before(p, q) == p[1] < q[1] \/ (p[1] = q[1] /\ p[2] < q[2])
sorted(caps) == SetToSortSeq(caps, Before)

\* matchProtocols: the highest common version of each name, with offsets in
\* the order of the sorted capabilities; an older match gives its codes back.
match(r, p) ==
    LET old == {q \in DOMAIN r.offsets : q[1] = p[1]}
        start == r.next - (IF old = {} THEN 0 ELSE Length[CHOOSE q \in old : TRUE])
    IN [next |-> start + Length[p],
        offsets |-> [q \in (DOMAIN r.offsets \ old) \union {p} |-> IF q = p THEN start ELSE r.offsets[q]]]
matchProtocols(protocols, caps) ==
    FoldLeft(LAMBDA r, p : IF p \in protocols THEN match(r, p) ELSE r,
             [next |-> baseProtocolLength, offsets |-> <<>>], sorted(caps)).offsets

\* getProto: the protocols whose code range holds the code.
getProto(offsets, code) == {p \in DOMAIN offsets : code >= offsets[p] /\ code < offsets[p] + Length[p]}

Codes == 0..(baseProtocolLength + FoldSet(LAMBDA p, n : n + Length[p], 0, Protocol))

\* Both ends assign the same codes to the same protocols, whatever each of
\* them speaks: the highest common version of every name, and no code twice.
MatchAgrees(ours, theirs) ==
    LET mine == matchProtocols(ours, theirs)
        yours == matchProtocols(theirs, ours)
    IN /\ mine = yours
       /\ \A p \in ours \intersect theirs : \E q \in DOMAIN mine : q[1] = p[1] /\ q[2] >= p[2]
       /\ \A code \in Codes : Cardinality(getProto(mine, code)) <= 1
       /\ \A p \in DOMAIN mine : mine[p] >= baseProtocolLength

-----------------------------------------------------------------------------
(***************************************************************************)
(* A connected peer (p2p/peer.go): the matching of the subprotocols both   *)
(* ends speak, and the goroutines of Peer.run -- the read loop, the ping   *)
(* loop and one protocol handler per match -- with the token that lets one *)
(* protocol write at a time and the error channels through which each of   *)
(* them ends the peer.                                                     *)
(*                                                                         *)
(* A protocol is a pair <<name, version>>; Length gives its message count. *)
(* What Protocol.Run does is the subprotocol's own code: here it reads and *)
(* writes in any order, may return at any time, and returns when an        *)
(* operation fails.                                                        *)
(***************************************************************************)

CONSTANTS ours, theirs    \* the protocols of the two ends

VARIABLES running,        \* the matched protocols and the offsets of their codes
          run,            \* Peer.run: "loop", "closed", "wait", "done"
          why,            \* why the loop ended
          wire,           \* the transport is open
          writeStart,     \* the write token is in its buffer
          writeErr, readErr, protoErr,   \* buffered channels
          read,           \* readLoop: place and message
          ping,           \* pingLoop
          proto           \* [matched protocol -> place of its goroutine]
vars == <<running, run, why, wire, writeStart, writeErr, readErr, protoErr, read, ping, proto>>

-----------------------------------------------------------------------------
protoErrCap == Cardinality(DOMAIN running) + 1

\* newPeer and the start of run: the token is put in, the goroutines start.
Init ==
    /\ running = matchProtocols(ours, theirs)
    /\ run = "loop" /\ why = "none" /\ wire = TRUE /\ writeStart = TRUE
    /\ writeErr = <<>> /\ readErr = <<>> /\ protoErr = <<>>
    /\ read = [at |-> "read", code |-> 0] /\ ping = "wait"
    /\ proto = [p \in DOMAIN running |-> "code"]

\* One iteration of the select in run.
WriteDone ==
    /\ run = "loop" /\ writeErr # <<>> /\ writeErr' = <<>>
    /\ IF Head(writeErr) = "nil" THEN writeStart' = TRUE /\ UNCHANGED <<running, run, why>>
       ELSE run' = "closed" /\ why' = "network" /\ UNCHANGED writeStart
    /\ UNCHANGED <<running, wire, readErr, protoErr, read, ping, proto>>
ReadFailed ==
    /\ run = "loop" /\ readErr # <<>> /\ readErr' = <<>>
    /\ run' = "closed" /\ why' = IF Head(readErr) = "disc" THEN "remote" ELSE "network"
    /\ UNCHANGED <<running, wire, writeStart, writeErr, protoErr, read, ping, proto>>
ProtoFailed ==
    /\ run = "loop" /\ protoErr # <<>> /\ protoErr' = Tail(protoErr)
    /\ run' = "closed" /\ why' = "protocol"
    /\ UNCHANGED <<running, wire, writeStart, writeErr, readErr, read, ping, proto>>
\* Peer.Disconnect by the server.
Disconnected ==
    /\ run = "loop"
    /\ run' = "closed" /\ why' = "requested"
    /\ UNCHANGED <<running, wire, writeStart, writeErr, readErr, protoErr, read, ping, proto>>
\* Mutant of CloseWire.
CloseWireNever ==
    /\ run = "closed"
    /\ run' = "wait"
    /\ UNCHANGED <<running, why, wire, writeStart, writeErr, readErr, protoErr, read, ping, proto>>
\* p.rw.close, after close(p.closed).
CloseWire ==
    /\ run = "closed"
    /\ run' = "wait" /\ wire' = FALSE
    /\ UNCHANGED <<running, why, writeStart, writeErr, readErr, protoErr, read, ping, proto>>
\* p.wg.Wait returns.
Waited ==
    /\ run = "wait" /\ read.at = "done" /\ ping = "done" /\ \A p \in DOMAIN proto : proto[p] = "done"
    /\ run' = "done"
    /\ UNCHANGED <<running, why, wire, writeStart, writeErr, readErr, protoErr, read, ping, proto>>

closed == run # "loop"

-----------------------------------------------------------------------------
(* readLoop and handle.                                                    *)
discMsg == 1
Arrive ==
    /\ read.at = "read" /\ wire
    /\ \E code \in Codes : read' = [at |-> "handle", code |-> code]
    /\ UNCHANGED <<running, run, why, wire, writeStart, writeErr, readErr, protoErr, ping, proto>>
\* The transport fails, or has been closed.
ReadError ==
    /\ read.at = "read"
    /\ read' = [read EXCEPT !.at = "error"]
    /\ UNCHANGED <<running, run, why, wire, writeStart, writeErr, readErr, protoErr, ping, proto>>
\* Base protocol messages; a ping is answered by a goroutine of its own.
HandleBase ==
    /\ read.at = "handle" /\ read.code < baseProtocolLength
    /\ read' = IF read.code = discMsg THEN [read EXCEPT !.at = "disc"] ELSE [at |-> "read", code |-> 0]
    /\ UNCHANGED <<running, run, why, wire, writeStart, writeErr, readErr, protoErr, ping, proto>>
HandleUnknown ==
    /\ read.at = "handle" /\ read.code >= baseProtocolLength /\ getProto(running, read.code) = {}
    /\ read' = [read EXCEPT !.at = "error"]
    /\ UNCHANGED <<running, run, why, wire, writeStart, writeErr, readErr, protoErr, ping, proto>>
\* proto.in <- msg, received by ReadMsg of the protocol.
Deliver ==
    /\ read.at = "handle" /\ read.code >= baseProtocolLength
    /\ \E p \in getProto(running, read.code) : proto[p] = "read" /\ proto' = [proto EXCEPT ![p] = "code"]
    /\ read' = [at |-> "read", code |-> 0]
    /\ UNCHANGED <<running, run, why, wire, writeStart, writeErr, readErr, protoErr, ping>>
HandleClosed ==
    /\ read.at = "handle" /\ closed /\ getProto(running, read.code) # {}
    /\ read' = [read EXCEPT !.at = "error"]
    /\ UNCHANGED <<running, run, why, wire, writeStart, writeErr, readErr, protoErr, ping, proto>>
\* errc <- err; the channel holds one value.
ReadReport ==
    /\ read.at \in {"error", "disc"} /\ Len(readErr) < 1
    /\ readErr' = <<read.at>> /\ read' = [read EXCEPT !.at = "done"]
    /\ UNCHANGED <<running, run, why, wire, writeStart, writeErr, protoErr, ping, proto>>

-----------------------------------------------------------------------------
(* pingLoop.                                                               *)
Ping ==
    /\ ping = "wait"
    /\ \E ok \in BOOLEAN : ping' = IF ok /\ wire THEN "wait" ELSE "report"
    /\ UNCHANGED <<running, run, why, wire, writeStart, writeErr, readErr, protoErr, read, proto>>
PingReport ==
    /\ ping = "report" /\ Len(protoErr) < protoErrCap
    /\ protoErr' = Append(protoErr, "ping") /\ ping' = "done"
    /\ UNCHANGED <<running, run, why, wire, writeStart, writeErr, readErr, read, proto>>
PingClosed ==
    /\ ping = "wait" /\ closed
    /\ ping' = "done"
    /\ UNCHANGED <<running, run, why, wire, writeStart, writeErr, readErr, protoErr, read, proto>>

-----------------------------------------------------------------------------
(* The goroutine of a protocol, with protoRW.ReadMsg and WriteMsg.         *)
Goto(p, place) == proto' = [proto EXCEPT ![p] = place]
Calls(p) ==
    /\ proto[p] = "code" /\ \E op \in {"read", "write", "return"} : Goto(p, op)
    /\ UNCHANGED <<running, run, why, wire, writeStart, writeErr, readErr, protoErr, read, ping>>
ReadEOF(p) ==
    /\ proto[p] = "read" /\ closed /\ Goto(p, "return")
    /\ UNCHANGED <<running, run, why, wire, writeStart, writeErr, readErr, protoErr, read, ping>>
TakeToken(p) ==
    /\ proto[p] = "write" /\ writeStart /\ writeStart' = FALSE /\ Goto(p, "writing")
    /\ UNCHANGED <<running, run, why, wire, writeErr, readErr, protoErr, read, ping>>
WriteClosed(p) ==
    /\ proto[p] = "write" /\ closed /\ Goto(p, "return")
    /\ UNCHANGED <<running, run, why, wire, writeStart, writeErr, readErr, protoErr, read, ping>>
\* The write ends, with an error or without; its result goes to run.
WriteReport(p) ==
    /\ proto[p] = "writing" /\ Len(writeErr) < 1
    /\ \E ok \in BOOLEAN : /\ ok => wire
                           /\ writeErr' = <<IF ok THEN "nil" ELSE "error">>
                           /\ Goto(p, IF ok THEN "code" ELSE "return")
    /\ UNCHANGED <<running, run, why, wire, writeStart, readErr, protoErr, read, ping>>
ProtoReport(p) ==
    /\ proto[p] = "return" /\ Len(protoErr) < protoErrCap
    /\ protoErr' = Append(protoErr, "proto") /\ Goto(p, "done")
    /\ UNCHANGED <<running, run, why, wire, writeStart, writeErr, readErr, read, ping>>

Goroutine(p) == TakeToken(p) \/ WriteClosed(p) \/ WriteReport(p) \/ ProtoReport(p) \/ ReadEOF(p)
Reader == ReadError \/ HandleBase \/ HandleUnknown \/ HandleClosed \/ ReadReport
Loop == WriteDone \/ ReadFailed \/ ProtoFailed \/ CloseWire \/ Waited
Next == \/ Loop \/ Disconnected \/ Reader \/ Arrive \/ Deliver
        \/ Ping \/ PingReport \/ PingClosed
        \/ \E p \in DOMAIN proto : Goroutine(p) \/ Calls(p)

Spec == Init /\ [][Next]_vars

-----------------------------------------------------------------------------
TypeOK ==
    /\ run \in {"loop", "closed", "wait", "done"} /\ wire \in BOOLEAN /\ writeStart \in BOOLEAN
    /\ Len(writeErr) <= 1 /\ Len(readErr) <= 1 /\ Len(protoErr) <= protoErrCap
    /\ read.at \in {"read", "handle", "disc", "error", "done"} /\ ping \in {"wait", "report", "done"}
    /\ DOMAIN proto = DOMAIN running

\* One protocol writes at a time: the token is in its buffer, with a writer,
\* or on its way back as the result of a write, and never in two places.
OneWriter ==
    Cardinality({p \in DOMAIN proto : proto[p] = "writing"}) + (IF writeStart THEN 1 ELSE 0) + Len(writeErr) <= 1

\* The peer is reported as closed by the remote end only if its disconnect
\* message was read.
RemoteOnlyByMessage == why = "remote" => read.code = discMsg /\ read.at = "done"

\* A peer that starts to close returns from run.
NobodyWaits == closed => run = "done"
=============================================================================
