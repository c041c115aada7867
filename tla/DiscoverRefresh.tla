--------------------------- MODULE DiscoverRefresh ---------------------------
(***************************************************************************)
(* The refresh loop of the discovery table and its shutdown                *)
(* (p2p/discover/table.go): lookups that wait for a refresh because the    *)
(* table is empty, the single doRefresh goroutine, and concurrent calls of *)
(* Close.                                                                  *)
(***************************************************************************)
EXTENDS Integers, Sequences, FiniteSets

CONSTANTS Caller,    \* lookups that need a refresh
          Closer     \* calls of Close

VARIABLES loop,      \* refreshLoop: "loop", "net", "wait", "free", "closed"
          waiting,   \* callers whose channels are kept by the loop
          done,      \* the loop's done channel: "nil", "open" or "closed"
          refresh,   \* doRefresh: "idle", "lookup", "seed", "self"
          netClosed, \* the transport is closed
          caller,    \* [Caller -> "idle", "asks", "waits", "released"]
          closer     \* [Closer -> "idle", "asks", "waits", "returned"]
vars == <<loop, waiting, done, refresh, netClosed, caller, closer>>

Init ==
    /\ loop = "loop" /\ waiting = {} /\ done = "nil" /\ refresh = "idle" /\ netClosed = FALSE
    /\ caller = [c \in Caller |-> "idle"] /\ closer = [c \in Closer |-> "idle"]

\* A new doRefresh unless one is running.
StartRefresh == IF done = "nil" THEN done' = "open" /\ refresh' = "lookup" ELSE UNCHANGED <<done, refresh>>

Timer ==
    /\ loop = "loop" /\ done = "nil" /\ done' = "open" /\ refresh' = "lookup"
    /\ UNCHANGED <<loop, waiting, netClosed, caller, closer>>

\* refresh: the request is taken by the loop, or the table is closed.
Ask(c) ==
    /\ caller[c] = "idle" /\ caller' = [caller EXCEPT ![c] = "asks"]
    /\ UNCHANGED <<loop, waiting, done, refresh, netClosed, closer>>
RefreshReq(c) ==
    /\ caller[c] = "asks" /\ loop = "loop"
    /\ caller' = [caller EXCEPT ![c] = "waits"] /\ waiting' = waiting \union {c}
    /\ StartRefresh
    /\ UNCHANGED <<loop, netClosed, closer>>
AskClosed(c) ==
    /\ caller[c] = "asks" /\ loop = "closed"
    /\ caller' = [caller EXCEPT ![c] = "released"]
    /\ UNCHANGED <<loop, waiting, done, refresh, netClosed, closer>>

Released == [c \in Caller |-> IF c \in waiting THEN "released" ELSE caller[c]]
RefreshDone ==
    /\ loop = "loop" /\ done = "closed"
    /\ done' = "nil" /\ waiting' = {} /\ caller' = Released
    /\ UNCHANGED <<loop, refresh, netClosed, closer>>

\* doRefresh: a random lookup; if the table is empty, seeds are bonded with
\* and stuffed, and the own node is looked up.  Its lookups do not ask for a
\* refresh themselves.
doRefresh ==
    /\ \/ refresh = "lookup" /\ (\E empty \in BOOLEAN :
             IF empty THEN refresh' = "seed" /\ UNCHANGED done ELSE refresh' = "idle" /\ done' = "closed")
       \/ refresh = "seed" /\ refresh' = "self" /\ UNCHANGED done
       \/ refresh = "self" /\ refresh' = "idle" /\ done' = "closed"
    /\ UNCHANGED <<loop, waiting, netClosed, caller, closer>>

-----------------------------------------------------------------------------
(* Close and the end of the loop: the transport is closed, the refresh in  *)
(* progress is waited for, the callers are released, the database closed.  *)
CloseCall(c) ==
    /\ closer[c] = "idle" /\ closer' = [closer EXCEPT ![c] = "asks"]
    /\ UNCHANGED <<loop, waiting, done, refresh, netClosed, caller>>
CloseReq(c) ==
    /\ closer[c] = "asks" /\ loop = "loop"
    /\ closer' = [closer EXCEPT ![c] = "waits"] /\ loop' = "net"
    /\ UNCHANGED <<waiting, done, refresh, netClosed, caller>>
CloseReturns(c) ==
    /\ closer[c] \in {"asks", "waits"} /\ loop = "closed"
    /\ closer' = [closer EXCEPT ![c] = "returned"]
    /\ UNCHANGED <<loop, waiting, done, refresh, netClosed, caller>>
EndLoop ==
    /\ \/ loop = "net" /\ netClosed' = TRUE /\ loop' = "wait" /\ UNCHANGED <<waiting, caller>>
       \/ loop = "wait" /\ done # "open" /\ loop' = "free" /\ UNCHANGED <<netClosed, waiting, caller>>
       \/ loop = "free" /\ caller' = Released /\ waiting' = {} /\ loop' = "closed" /\ UNCHANGED netClosed
    /\ UNCHANGED <<done, refresh, closer>>

Progress == \/ doRefresh \/ RefreshDone \/ EndLoop
            \/ \E c \in Caller : RefreshReq(c) \/ AskClosed(c)
            \/ \E c \in Closer : CloseReq(c) \/ CloseReturns(c)
Next == Timer \/ Progress \/ (\E c \in Caller : Ask(c)) \/ (\E c \in Closer : CloseCall(c))
Spec == Init /\ [][Next]_vars
\* Every goroutine keeps running; the select of the loop is fair to its
\* callers because Go picks among ready cases at random.
Fairness == /\ WF_vars(doRefresh) /\ WF_vars(RefreshDone) /\ WF_vars(EndLoop)
            /\ \A c \in Caller : SF_vars(RefreshReq(c)) /\ WF_vars(AskClosed(c))
            /\ \A c \in Closer : SF_vars(CloseReq(c)) /\ WF_vars(CloseReturns(c))
LSpec == Spec /\ Fairness

TypeOK == /\ loop \in {"loop", "net", "wait", "free", "closed"} /\ waiting \subseteq Caller
          /\ done \in {"nil", "open", "closed"} /\ refresh \in {"idle", "lookup", "seed", "self"}

\* One refresh at a time, and never one after the table is closed.
OneRefresh == /\ refresh # "idle" <=> done = "open"
              /\ loop = "closed" => refresh = "idle"

\* A lookup that waits for a refresh is released, and Close returns.
NobodyWaits == /\ \A c \in Caller : caller[c] \in {"idle", "released"}
               /\ \A c \in Closer : closer[c] \in {"idle", "returned"}
=============================================================================
