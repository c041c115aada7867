---------------------------- MODULE BloomMatcher ----------------------------
(***************************************************************************)
(* A session of the bloom-bit matcher (core/bloombits/matcher.go and       *)
(* scheduler.go): schedulers turn streams of sections into deduplicated    *)
(* retrieval requests, the distributor hands them to Multiplex goroutines, *)
(* and the answers come back in the order of the streams.  The session may *)
(* be closed at any moment, by its user or by a goroutine whose retrieval  *)
(* failed; a second later it is killed.                                    *)
(*                                                                         *)
(* A run of a scheduler is one stream of one bit.  Channels between the    *)
(* stages hold Capacity entries.                                           *)
(***************************************************************************)
EXTENDS Integers, Sequences, FiniteSets, SequencesExt, FiniteSetsExt

CONSTANTS Run, BitOf,          \* streams and the bit of each
          Sections,            \* the sections a stream asks for, in order
          Multiplexer, batch, Capacity,
          MaxFailures          \* bound: retrievals that fail

Bits == {BitOf[r] : r \in Run}
SectionSet == ToSet(Sections)

VARIABLES req,        \* [Run -> scheduleRequests: [pc, next]]
          pend,       \* [Run -> channel between the two goroutines of a run]
          del,        \* [Run -> scheduleDeliveries: [pc, section]]
          out,        \* [Run -> sections delivered]
          resp,       \* [Bits -> [SectionSet -> "none", "pending" or "cached"]]
          dist,       \* channel of requests <<bit, section>>
          disr,       \* the distributor: [pc, requests, unallocs, allocs, armed]
          mx,         \* [Multiplexer -> [pc, bit, sections, missing]]
          quit, kill,
          failures
vars == <<req, pend, del, out, resp, dist, disr, mx, quit, kill, failures>>

NoTask == [pc |-> "allocate", bit |-> 0, sections |-> {}, missing |-> {}]
Init ==
    /\ req = [r \in Run |-> [pc |-> "read", next |-> 1]] /\ pend = [r \in Run |-> <<>>]
    /\ del = [r \in Run |-> [pc |-> "read", section |-> 0]] /\ out = [r \in Run |-> <<>>]
    /\ resp = [b \in Bits |-> [s \in SectionSet |-> "none"]]
    /\ dist = <<>>
    /\ disr = [pc |-> "loop", requests |-> [b \in Bits |-> {}], unallocs |-> {}, allocs |-> 0, armed |-> TRUE]
    /\ mx = [m \in Multiplexer |-> NoTask]
    /\ quit = FALSE /\ kill = FALSE /\ failures = 0

-----------------------------------------------------------------------------
(* scheduler: scheduleRequests and scheduleDeliveries of run r.            *)
Current(r) == Sections[req[r].next]
ReadRequest(r) ==
    /\ req[r].pc = "read" /\ req[r].next <= Len(Sections)
    /\ LET unique == resp[BitOf[r]][Current(r)] = "none" IN
       /\ req' = [req EXCEPT ![r].pc = IF unique THEN "dist" ELSE "pend"]
       /\ resp' = IF unique THEN [resp EXCEPT ![BitOf[r]][Current(r)] = "pending"] ELSE resp
    /\ UNCHANGED <<pend, del, out, dist, disr, mx, quit, kill, failures>>
SendDist(r) ==
    /\ req[r].pc = "dist" /\ Len(dist) < Capacity
    /\ dist' = Append(dist, <<BitOf[r], Current(r)>>) /\ req' = [req EXCEPT ![r].pc = "pend"]
    /\ UNCHANGED <<pend, del, out, resp, disr, mx, quit, kill, failures>>
SendPend(r) ==
    /\ req[r].pc = "pend" /\ Len(pend[r]) < Capacity
    /\ pend' = [pend EXCEPT ![r] = Append(@, Current(r))]
    /\ req' = [req EXCEPT ![r] = [pc |-> "read", next |-> @.next + 1]]
    /\ UNCHANGED <<del, out, resp, dist, disr, mx, quit, kill, failures>>
RequestsEnd(r) ==
    /\ req[r].pc # "done" /\ (quit \/ (req[r].pc = "read" /\ req[r].next > Len(Sections)))
    /\ req' = [req EXCEPT ![r].pc = "done"]
    /\ UNCHANGED <<pend, del, out, resp, dist, disr, mx, quit, kill, failures>>
ReadPend(r) ==
    /\ del[r].pc = "read" /\ pend[r] # <<>>
    /\ del' = [del EXCEPT ![r] = [pc |-> "wait", section |-> Head(pend[r])]]
    /\ pend' = [pend EXCEPT ![r] = Tail(@)]
    /\ UNCHANGED <<req, out, resp, dist, disr, mx, quit, kill, failures>>
DeliverResult(r) ==
    /\ del[r].pc = "wait" /\ resp[BitOf[r]][del[r].section] = "cached"
    /\ out' = [out EXCEPT ![r] = Append(@, del[r].section)] /\ del' = [del EXCEPT ![r].pc = "read"]
    /\ UNCHANGED <<req, pend, resp, dist, disr, mx, quit, kill, failures>>
DeliveriesEnd(r) ==
    /\ del[r].pc # "done" /\ (quit \/ (del[r].pc = "read" /\ pend[r] = <<>> /\ req[r].pc = "done"))
    /\ del' = [del EXCEPT ![r].pc = "done"]
    /\ UNCHANGED <<req, pend, out, resp, dist, disr, mx, quit, kill, failures>>

-----------------------------------------------------------------------------
(* The distributor.  assign gives a bit to a goroutine that waits in       *)
(* AllocateRetrieval, or notes it until one comes.                         *)
Waiting == {m \in Multiplexer : mx[m].pc = "allocate"}
Given(m, b) == [mx EXCEPT ![m] = [pc |-> "count", bit |-> b, sections |-> {}, missing |-> {}]]
assign(d, x, b) ==
    \/ \E m \in Multiplexer :
          /\ x[m].pc = "allocate"
          /\ mx' = [x EXCEPT ![m] = [NoTask EXCEPT !.pc = "count", !.bit = b]]
          /\ disr' = [d EXCEPT !.allocs = @ + 1]
    \/ mx' = x /\ disr' = [d EXCEPT !.unallocs = @ \union {b}]
Keep(d, x) == disr' = d /\ mx' = x

TakeRequest ==
    /\ disr.pc = "loop" /\ dist # <<>> /\ dist' = Tail(dist)
    /\ LET b == Head(dist)[1]
           d == [disr EXCEPT !.requests[b] = @ \union {Head(dist)[2]}]
       IN IF disr.requests[b] = {} THEN assign(d, mx, b) ELSE Keep(d, mx)
    /\ UNCHANGED <<req, pend, del, out, resp, quit, kill, failures>>
\* A retriever arrives: it gets the bit with the lowest section.
TakeRetriever(m) ==
    /\ disr.pc = "loop" /\ disr.unallocs # {} /\ mx[m].pc = "allocate"
    /\ \E b \in disr.unallocs :
          /\ \A c \in disr.unallocs : Min(disr.requests[b]) <= Min(disr.requests[c])
          /\ disr' = [disr EXCEPT !.unallocs = @ \ {b}, !.allocs = @ + 1] /\ mx' = Given(m, b)
    /\ UNCHANGED <<req, pend, del, out, resp, dist, quit, kill, failures>>
First(S, n) == {s \in S : Cardinality({t \in S : t < s}) < n}
\* AllocateSections of up to want sections, and the rest assigned to another.
TakeTask(m, want, pc) ==
    LET b == mx[m].bit
        task == First(disr.requests[b], want)
        d == [disr EXCEPT !.requests[b] = @ \ task]
        x == [mx EXCEPT ![m].sections = task, ![m].pc = pc]
    IN /\ disr.pc = "loop"
       /\ IF d.requests[b] # {} THEN assign(d, x, b) ELSE Keep(d, x)
       /\ UNCHANGED <<req, pend, del, out, resp, dist, quit, kill, failures>>
Rescheduled(d, b, missing) == [d EXCEPT !.requests[b] = @ \union missing]
\* DeliverSections: what is there is cached, what is missing is queued again.
TakeDelivery(m, next) ==
    LET b == mx[m].bit
        missing == mx[m].missing
        x == [mx EXCEPT ![m] = [NoTask EXCEPT !.pc = next]]
        d == Rescheduled([disr EXCEPT !.allocs = @ - 1, !.pc = IF ~disr.armed /\ disr.allocs = 1 THEN "done" ELSE "loop"], b, missing)
    IN /\ disr.pc = "loop"
       /\ resp' = [resp EXCEPT ![b] = [s \in SectionSet |->
                      IF s \in mx[m].sections \ missing /\ resp[b][s] = "pending" THEN "cached" ELSE resp[b][s]]]
       /\ IF missing # {} /\ disr.requests[b] = {} THEN assign(d, x, b) ELSE Keep(d, x)
       /\ UNCHANGED <<req, pend, del, out, dist, quit, kill, failures>>
Shutdown ==
    /\ disr.pc = "loop" /\ disr.armed /\ quit
    /\ disr' = IF disr.allocs = 0 THEN [disr EXCEPT !.pc = "done"] ELSE [disr EXCEPT !.armed = FALSE]
    /\ UNCHANGED <<req, pend, del, out, resp, dist, mx, quit, kill, failures>>
Killed ==
    /\ disr.pc = "loop" /\ kill /\ disr' = [disr EXCEPT !.pc = "done"]
    /\ UNCHANGED <<req, pend, del, out, resp, dist, mx, quit, kill, failures>>

-----------------------------------------------------------------------------
(* Multiplex.                                                              *)
Step(m, pc) ==
    /\ mx' = [mx EXCEPT ![m].pc = pc]
    /\ UNCHANGED <<req, pend, del, out, resp, dist, disr, quit, kill, failures>>
AllocateEnds(m) == mx[m].pc = "allocate" /\ quit /\ Step(m, "returned")
\* PendingSections, and the throttle below a full batch.
CountSections(m) ==
    /\ mx[m].pc = "count" /\ disr.pc = "loop"
    /\ Step(m, IF Cardinality(disr.requests[mx[m].bit]) < batch THEN "throttle" ELSE "take")
CountQuit(m) == mx[m].pc = "count" /\ quit /\ Step(m, "throttle")
ThrottleEnds(m) == mx[m].pc = "throttle" /\ Step(m, "take")
ThrottleQuit(m) == mx[m].pc = "throttle" /\ quit /\ Step(m, "abort")
\* The session ends: the bit is given back without a section.
AbortTake(m) == mx[m].pc = "abort" /\ TakeTask(m, 0, "giveup")
AbortQuit(m) == mx[m].pc = "abort" /\ quit /\ Step(m, "giveup")
AllocateSections(m) == mx[m].pc = "take" /\ TakeTask(m, batch, "mux")
AllocateQuit(m) == mx[m].pc = "take" /\ quit /\ Step(m, "mux")
MuxQuit(m) ==
    /\ mx[m].pc = "mux" /\ quit
    /\ mx' = [mx EXCEPT ![m].pc = "giveup", ![m].missing = mx[m].sections]
    /\ UNCHANGED <<req, pend, del, out, resp, dist, disr, quit, kill, failures>>
MuxAccepted(m) == mx[m].pc = "mux" /\ Step(m, "serve")
Served(m) == mx[m].pc = "serve" /\ Step(m, "deliver")
\* One section cannot be retrieved: the goroutine itself closes the session
\* and waits for it before it delivers.
ServedError(m) ==
    /\ mx[m].pc = "serve" /\ failures < MaxFailures /\ failures' = failures + 1
    /\ \E s \in mx[m].sections : mx' = [mx EXCEPT ![m].pc = "closing", ![m].missing = {s}]
    /\ quit' = TRUE /\ UNCHANGED <<req, pend, del, out, resp, dist, disr, kill>>
Ended == disr.pc = "done" /\ \A r \in Run : req[r].pc = "done" /\ del[r].pc = "done"
CloseWaited(m) == mx[m].pc = "closing" /\ Ended /\ Step(m, "deliver")
Deliver(m) == mx[m].pc = "deliver" /\ TakeDelivery(m, "allocate")
GiveUp(m) == mx[m].pc = "giveup" /\ TakeDelivery(m, "returned")
DeliverKilled(m) == mx[m].pc = "deliver" /\ kill /\ Step(m, "allocate")
GiveUpKilled(m) == mx[m].pc = "giveup" /\ kill /\ Step(m, "returned")

Close == ~quit /\ quit' = TRUE /\ UNCHANGED <<req, pend, del, out, resp, dist, disr, mx, kill, failures>>
Kill == quit /\ ~kill /\ kill' = TRUE /\ UNCHANGED <<req, pend, del, out, resp, dist, disr, mx, quit, failures>>

RunStep(r) == ReadRequest(r) \/ SendDist(r) \/ SendPend(r) \/ RequestsEnd(r)
DeliveryStep(r) == ReadPend(r) \/ DeliverResult(r) \/ DeliveriesEnd(r)
DistributorStep == TakeRequest \/ (\E m \in Multiplexer : TakeRetriever(m)) \/ Shutdown \/ Killed
MuxStep(m) == \/ AllocateEnds(m) \/ CountSections(m) \/ CountQuit(m) \/ ThrottleEnds(m) \/ ThrottleQuit(m) \/ AbortTake(m)
              \/ AbortQuit(m) \/ AllocateSections(m) \/ AllocateQuit(m) \/ MuxQuit(m) \/ MuxAccepted(m)
              \/ Served(m) \/ ServedError(m) \/ CloseWaited(m) \/ Deliver(m) \/ GiveUp(m) \/ DeliverKilled(m) \/ GiveUpKilled(m)
Next == (\E r \in Run : RunStep(r) \/ DeliveryStep(r)) \/ DistributorStep \/ (\E m \in Multiplexer : MuxStep(m)) \/ Close \/ Kill
Spec == Init /\ [][Next]_vars
Fairness == /\ \A r \in Run : WF_vars(RunStep(r)) /\ WF_vars(DeliveryStep(r))
            /\ WF_vars(DistributorStep) /\ WF_vars(Kill)
            /\ \A m \in Multiplexer : WF_vars(MuxStep(m))
LSpec == Spec /\ Fairness

-----------------------------------------------------------------------------
TypeOK ==
    /\ disr.unallocs \subseteq Bits /\ disr.allocs \in Int /\ quit \in BOOLEAN /\ kill \in BOOLEAN
    /\ \A b \in Bits : disr.requests[b] \subseteq SectionSet

Holding(m) == mx[m].pc \notin {"allocate", "returned"}
Untaken(b) == {m \in Multiplexer : mx[m].bit = b /\ mx[m].pc \in {"count", "throttle", "take", "abort"}}
Places(b, s) ==
    {<<"request", r>> : r \in {r \in Run : BitOf[r] = b /\ req[r].pc = "dist" /\ Current(r) = s}}
    \union {<<"dist", i>> : i \in {i \in DOMAIN dist : dist[i] = <<b, s>>}}
    \union {<<"queue", b>> : x \in disr.requests[b] \intersect {s}}
    \union {<<"task", m>> : m \in {m \in Multiplexer : mx[m].bit = b /\ s \in mx[m].sections}}

\* While the session runs, the distributor counts exactly the goroutines that
\* hold a bit; a bit it may still give away has a section to retrieve, and a
\* bit with sections is on offer or with one goroutine about to take them; every
\* section that is awaited is in exactly one place; and each stream delivers its
\* sections in order, each after its retrieval, once.
MatcherExact ==
    /\ disr.pc = "loop" /\ ~kill => disr.allocs = Cardinality({m \in Multiplexer : Holding(m)})
    /\ \A b \in disr.unallocs : disr.requests[b] # {}
    /\ ~quit => \A b \in Bits : disr.requests[b] # {} => Cardinality({x \in {b} : b \in disr.unallocs}) + Cardinality(Untaken(b)) = 1
    /\ ~quit => \A b \in Bits : \A s \in SectionSet : Cardinality(Places(b, s)) = IF resp[b][s] = "pending" THEN 1 ELSE 0
    /\ \A r \in Run : IsPrefix(out[r], Sections) /\ \A s \in ToSet(out[r]) : resp[BitOf[r]][s] = "cached"

\* Every stream delivers all of its sections or the session is closed, and a
\* closed session ends: its goroutines and those of its retrievers return,
\* although a retriever may itself be the one that waits for the end.
Over == IF quit THEN Ended /\ \A m \in Multiplexer : mx[m].pc = "returned"
               ELSE \A r \in Run : out[r] = Sections
=============================================================================
