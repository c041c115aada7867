-------------------------------- MODULE Miner --------------------------------
(***************************************************************************)
(* Starting and stopping the miner (miner/miner.go, miner/worker.go): the  *)
(* callers of the API, the loop that follows the downloader, the mint      *)
(* loops and the worker's update loop run concurrently and meet in flags   *)
(* and in the channels quitCh and stopper.                                 *)
(*                                                                         *)
(* A step is one access to a shared flag or channel; what worker.mu guards *)
(* is one step.  A channel is a number; closing it twice is a panic, which *)
(* ends the process.  What a block contains is not modelled here.          *)
(***************************************************************************)
EXTENDS Integers, Sequences, FiniteSets

CONSTANTS
    User,        \* concurrent callers of the API
    MaxCall,     \* bound: API calls
    MaxHead,     \* bound: ChainHeadEvents
    Syncs,       \* whether the downloader runs at all
    Spaced       \* an input comes only when the earlier ones have taken effect

ASSUME MinerAssumption == {MaxCall, MaxHead} \subseteq Nat /\ {Syncs, Spaced} \subseteq BOOLEAN

Follower == "Miner.update"
Caller == User \cup {Follower}
Loop == 1 .. (MaxCall + 1)

VARIABLES
    flag,    \* mining, canStart, shouldStart of Miner; working: worker.mining
    chan,    \* quitCh and stopper; last: the newest channel
    closed,  \* closed channels
    todo,    \* what each caller has still to do
    loop,    \* the mint loops: where each is, and the channel it waits on
    sync,    \* the downloader: "none", "running" or "over"
    update,  \* worker.update: waiting, or about to replace quitCh
    calls, heads, panic

Flag == {"mining", "canStart", "shouldStart", "working"}

vars == <<flag, chan, closed, todo, loop, sync, update, calls, heads, panic>>

Init ==
    /\ flag = [f \in Flag |-> f = "canStart"]
    /\ chan = [quitCh |-> 1, stopper |-> 2, last |-> 2] /\ closed = {}
    /\ todo = [c \in Caller |-> <<>>]
    /\ loop = [l \in Loop |-> [at |-> "none", on |-> 0]]
    /\ sync = "none" /\ update = "wait"
    /\ calls = 0 /\ heads = 0 /\ panic = FALSE

Running == {l \in Loop : loop[l].at \notin {"none", "done"}}

close(ch) == closed' = closed \cup {ch} /\ panic' = (ch \in closed)

Fresh(name) == chan' = [chan EXCEPT ![name] = chan.last + 1, !.last = chan.last + 1]

\* Everything set in motion so far has happened.
Settled ==
    /\ \A c \in Caller : todo[c] = <<>>
    /\ update = "wait" /\ chan.stopper \notin closed
    /\ \A l \in Running : loop[l].at \in {"select", "seal"} /\ loop[l].on \notin closed

Input == ~panic /\ (Spaced => Settled)

-----------------------------------------------------------------------------
(* Start and Stop: the steps of the two methods, in order. *)

Store(name, val) == [op |-> "store", name |-> name, val |-> val]
Op(name) == [op |-> name]

StartSteps == <<Store("shouldStart", TRUE), Op("canStart?"),
                Store("mining", TRUE), Op("worker.start")>>

\* Mutant of StopSteps: the mining flag stays set.
StopStepsKeepMining == <<Op("working?"), Op("worker.stop"),
                         Store("shouldStart", FALSE)>>

StopSteps == <<Op("working?"), Op("worker.stop"),
               Store("mining", FALSE), Store("shouldStart", FALSE)>>

\* PrivateMinerAPI.Start, which leaves miner.Start to a goroutine, and Stop.
\* A user is such a goroutine: the caller of Start does not wait for it.
Call(u, steps) ==
    /\ Input /\ todo[u] = <<>> /\ calls < MaxCall
    /\ calls' = calls + 1
    /\ todo' = [todo EXCEPT ![u] = steps]
    /\ UNCHANGED <<flag, chan, closed, loop, sync, update, heads, panic>>

\* Mutant of CallStart: IsMining is not tested.
CallStartUnchecked(u) == Call(u, StartSteps)

CallStart(u) == ~flag.mining /\ Call(u, StartSteps)
CallStop(u) == Call(u, StopSteps)

Doing(c, op) == ~panic /\ todo[c] # <<>> /\ Head(todo[c]).op = op
Leave(c, steps) == todo' = [todo EXCEPT ![c] = steps]
Rest(c) == Tail(todo[c])

DoStore(c) ==
    /\ Doing(c, "store")
    /\ flag' = [flag EXCEPT ![Head(todo[c]).name] = Head(todo[c]).val]
    /\ Leave(c, Rest(c))
    /\ UNCHANGED <<chan, closed, loop, sync, update, calls, heads, panic>>

\* The early returns: Start while the node synchronises, worker.stop when the
\* worker is idle, and the test of Mining() at the start of a synchronisation.
DoTest(c) ==
    /\ \/ Doing(c, "canStart?") /\ Leave(c, IF flag.canStart THEN Rest(c) ELSE <<>>)
       \/ Doing(c, "working?") /\ Leave(c, IF flag.working THEN Rest(c) ELSE Tail(Rest(c)))
       \/ Doing(c, "mining?") /\ Leave(c, IF flag.mining THEN Rest(c) ELSE <<>>)
    /\ UNCHANGED <<flag, chan, closed, loop, sync, update, calls, heads, panic>>

WorkerStart(c) ==
    /\ Doing(c, "worker.start")
    /\ flag' = [flag EXCEPT !.working = TRUE]
    /\ LET free == {l \in Loop : loop[l].at = "none"}
           l == CHOOSE l \in free : \A k \in free : l <= k
       IN  loop' = [loop EXCEPT ![l].at = "top"]
    /\ Leave(c, Rest(c))
    /\ UNCHANGED <<chan, closed, sync, update, calls, heads, panic>>

\* Mutant of WorkerStop: the stopper is not closed.
WorkerStopSilent(c) ==
    /\ Doing(c, "worker.stop")
    /\ flag' = [flag EXCEPT !.working = FALSE]
    /\ Leave(c, Rest(c))
    /\ UNCHANGED <<chan, closed, loop, sync, update, calls, heads, panic>>

WorkerStop(c) ==
    /\ Doing(c, "worker.stop")
    /\ flag' = [flag EXCEPT !.working = FALSE]
    /\ close(chan.stopper)
    /\ Leave(c, Rest(c))
    /\ UNCHANGED <<chan, loop, sync, update, calls, heads>>

\* Mutant of SyncStarts: canStart stays set.
SyncStartsAllowing ==
    /\ Input /\ Syncs /\ sync = "none" /\ todo[Follower] = <<>>
    /\ sync' = "running"
    /\ todo' = [todo EXCEPT ![Follower] =
                   <<Op("mining?")>> \o StopSteps \o <<Store("shouldStart", TRUE)>>]
    /\ UNCHANGED <<flag, chan, closed, loop, update, calls, heads, panic>>

\* Miner.update: the downloader starts once and ends once.  What is read
\* of shouldStart at the end decides whether Start is called.
SyncStarts ==
    /\ Input /\ Syncs /\ sync = "none" /\ todo[Follower] = <<>>
    /\ sync' = "running"
    /\ todo' = [todo EXCEPT ![Follower] =
                   <<Store("canStart", FALSE), Op("mining?")>> \o StopSteps
                       \o <<Store("shouldStart", TRUE)>>]
    /\ UNCHANGED <<flag, chan, closed, loop, update, calls, heads, panic>>

SyncEnds ==
    /\ Input /\ sync = "running" /\ todo[Follower] = <<>>
    /\ sync' = "over"
    /\ todo' = [todo EXCEPT ![Follower] =
                   <<Store("canStart", TRUE), Store("shouldStart", FALSE)>>
                       \o IF flag.shouldStart THEN StartSteps ELSE <<>>]
    /\ UNCHANGED <<flag, chan, closed, loop, update, calls, heads, panic>>

-----------------------------------------------------------------------------
(* mintLoop and worker.update. *)

At(l, where) == ~panic /\ loop[l].at = where
Goto(l, where, ch) == loop' = [loop EXCEPT ![l] = [at |-> where, on |-> ch]]

\* The select reads self.stopper once and waits on what it has read.
Select(l) ==
    /\ At(l, "top") /\ Goto(l, "select", chan.stopper)
    /\ UNCHANGED <<flag, chan, closed, todo, sync, update, calls, heads, panic>>

\* mintBlock: nothing to mint, or a block that Seal delays to its slot.
Tick(l) ==
    /\ At(l, "select") /\ Goto(l, "mint", 0)
    /\ UNCHANGED <<flag, chan, closed, todo, sync, update, calls, heads, panic>>

MintBlock(l) ==
    /\ At(l, "mint")
    /\ Goto(l, "top", 0) \/ Goto(l, "seal", chan.quitCh)
    /\ UNCHANGED <<flag, chan, closed, todo, sync, update, calls, heads, panic>>

\* The time is up, or the channel closed: Seal returns either way.
Seal(l) ==
    /\ At(l, "seal") /\ Goto(l, "top", 0)
    /\ UNCHANGED <<flag, chan, closed, todo, sync, update, calls, heads, panic>>

Stopped(l) ==
    /\ At(l, "select") /\ loop[l].on \in closed
    /\ close(chan.quitCh)
    /\ Goto(l, "newQuit", 0)
    /\ UNCHANGED <<flag, chan, todo, sync, update, calls, heads>>

\* Mutant of NewQuit: the closed quitCh stays.
NewQuitMissing(l) ==
    /\ At(l, "newQuit") /\ Goto(l, "newStopper", 0)
    /\ UNCHANGED <<flag, chan, closed, todo, sync, update, calls, heads, panic>>

NewQuit(l) ==
    /\ At(l, "newQuit") /\ Fresh("quitCh") /\ Goto(l, "newStopper", 0)
    /\ UNCHANGED <<flag, closed, todo, sync, update, calls, heads, panic>>

NewStopper(l) ==
    /\ At(l, "newStopper") /\ Fresh("stopper") /\ Goto(l, "done", 0)
    /\ UNCHANGED <<flag, closed, todo, sync, update, calls, heads, panic>>

\* A ChainHeadEvent aborts the block being sealed.
ChainHead ==
    /\ Input /\ update = "wait" /\ heads < MaxHead
    /\ heads' = heads + 1
    /\ close(chan.quitCh)
    /\ update' = "newQuit"
    /\ UNCHANGED <<flag, chan, todo, loop, sync, calls>>

UpdateQuit ==
    /\ ~panic /\ update = "newQuit"
    /\ Fresh("quitCh")
    /\ update' = "wait"
    /\ UNCHANGED <<flag, closed, todo, loop, sync, calls, heads, panic>>

CallerStep(c) == DoStore(c) \/ DoTest(c) \/ WorkerStart(c) \/ WorkerStop(c)
LoopStep(l) == Select(l) \/ MintBlock(l) \/ Seal(l) \/ NewQuit(l) \/ NewStopper(l)

Next ==
    \/ \E u \in User : CallStart(u) \/ CallStop(u)
    \/ \E c \in Caller : CallerStep(c)
    \/ SyncStarts \/ SyncEnds \/ ChainHead \/ UpdateQuit
    \/ \E l \in Loop : LoopStep(l) \/ Tick(l) \/ Stopped(l)

\* Goroutines that can run do run.  A select whose stopper stays closed is not
\* left through the ticker for ever.
Fairness ==
    /\ \A c \in Caller : WF_vars(CallerStep(c))
    /\ \A l \in Loop : WF_vars(LoopStep(l)) /\ SF_vars(Stopped(l))
    /\ WF_vars(UpdateQuit)

Spec == Init /\ [][Next]_vars /\ Fairness

-----------------------------------------------------------------------------
(* Properties. *)

\* The variables keep their types, and quitCh and stopper, which mintLoop makes
\* anew, are never the same channel.
TypeOK ==
    /\ flag \in [Flag -> BOOLEAN]
    /\ {chan.quitCh, chan.stopper} \cup closed \subseteq 1 .. chan.last
    /\ chan.quitCh # chan.stopper
    /\ DOMAIN todo = Caller /\ DOMAIN loop = Loop
    /\ sync \in {"none", "running", "over"} /\ update \in {"wait", "newQuit"}
    /\ calls \in 0 .. MaxCall /\ heads \in 0 .. MaxHead /\ panic \in BOOLEAN

\* No channel is closed twice: worker.stop, mintLoop and worker.update all
\* close channels that another of them may have closed.
NoPanic == ~panic

\* At most one mint loop runs; two would mint the same slot.
OneLoop == Cardinality(Running) <= 1

\* When nothing is left to do, a mint loop runs exactly if the miner says that
\* it is mining, and both the miner and the worker say the same.
LoopIffMining ==
    Settled /\ ~panic => /\ flag.mining = flag.working
                         /\ flag.mining <=> Running # {}

\* Once Miner.update has handled the start of a synchronisation, and until
\* its end, nothing is minted.
NoMintingDuringSync ==
    Settled /\ ~panic /\ sync = "running" => Running = {}

\* A worker told to stop does stop: the loops running then exit.
StopTakesEffect ==
    \A c \in Caller : Doing(c, "worker.stop") ~> (panic \/ Running = {})

=============================================================================
