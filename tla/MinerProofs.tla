----------------------------- MODULE MinerProofs -----------------------------
(***************************************************************************)
(* Proofs about Miner, for any callers and any number of calls and head    *)
(* events, when each input comes after the earlier ones have taken effect  *)
(* (Spaced).                                                               *)
(***************************************************************************)
EXTENDS Miner, FiniteSetTheorems, SequenceTheorems, TLAPS

USE DEF Flag

-----------------------------------------------------------------------------
(* What a caller has still to do: Start and Stop from each of their steps  *)
(* on, and what Miner.update does at the two ends of a synchronisation.    *)

Start1 == StartSteps
Start2 == <<Op("canStart?"), Store("mining", TRUE), Op("worker.start")>>
Start3 == <<Store("mining", TRUE), Op("worker.start")>>
Start4 == <<Op("worker.start")>>

Stop1 == StopSteps
Stop2 == <<Op("worker.stop"), Store("mining", FALSE), Store("shouldStart", FALSE)>>
Stop3 == <<Store("mining", FALSE), Store("shouldStart", FALSE)>>
Stop4 == <<Store("shouldStart", FALSE)>>

Sync1 == <<Store("canStart", FALSE), Op("mining?"), Op("working?"), Op("worker.stop"),
           Store("mining", FALSE), Store("shouldStart", FALSE), Store("shouldStart", TRUE)>>
Sync2 == <<Op("mining?"), Op("working?"), Op("worker.stop"),
           Store("mining", FALSE), Store("shouldStart", FALSE), Store("shouldStart", TRUE)>>
Sync3 == <<Op("working?"), Op("worker.stop"),
           Store("mining", FALSE), Store("shouldStart", FALSE), Store("shouldStart", TRUE)>>
Sync4 == <<Op("worker.stop"),
           Store("mining", FALSE), Store("shouldStart", FALSE), Store("shouldStart", TRUE)>>
Sync5 == <<Store("mining", FALSE), Store("shouldStart", FALSE), Store("shouldStart", TRUE)>>
Sync6 == <<Store("shouldStart", FALSE), Store("shouldStart", TRUE)>>
Sync7 == <<Store("shouldStart", TRUE)>>

\* The end of a synchronisation, with a Start and without.
Over1 == <<Store("canStart", TRUE), Store("shouldStart", FALSE), Store("shouldStart", TRUE),
           Op("canStart?"), Store("mining", TRUE), Op("worker.start")>>
Over2 == <<Store("shouldStart", FALSE), Store("shouldStart", TRUE),
           Op("canStart?"), Store("mining", TRUE), Op("worker.start")>>
Rest1 == <<Store("canStart", TRUE), Store("shouldStart", FALSE)>>

-----------------------------------------------------------------------------
(* The inductive invariant. *)

Stopping == chan.stopper \in closed
Off == flag.mining = FALSE /\ flag.working = FALSE
On == flag.mining = TRUE /\ flag.working = TRUE
TurnedOn == flag.mining = TRUE /\ flag.working = FALSE

\* The synchronisation under way has been taken note of, and what runs was stopped.
Noted == sync = "running" => flag.canStart = FALSE
Held == Noted /\ (sync = "running" => flag.mining = FALSE)

\* The mint loops started so far are the first ones, and there are k fewer than
\* calls of Start, the one at the end of a synchronisation included.
Room(k) ==
    \E n \in Nat : /\ \A l \in Loop : loop[l].at = "none" <=> l > n
                   /\ n + k <= calls + (IF sync = "over" THEN 1 ELSE 0)

\* What holds while a caller has p still to do.
Phase(p) ==
    \/ p = <<>>
    \/ p \in {Start1, Start2} /\ Off /\ ~Stopping /\ Held /\ Room(1)
    \/ p = Start3 /\ Off /\ ~Stopping /\ sync # "running" /\ Room(1)
    \/ p = Start4 /\ TurnedOn /\ ~Stopping /\ sync # "running" /\ Room(1)
    \/ p \in {Over1, Over2} /\ Off /\ ~Stopping /\ sync = "over" /\ Room(1)
    \/ p = Rest1 /\ Off /\ ~Stopping /\ sync = "over"
    \/ p = Stop1 /\ flag.mining = flag.working /\ ~Stopping /\ Held
    \/ p = Stop2 /\ On /\ Held
    \/ p = Stop3 /\ flag.working = FALSE /\ Held
    \/ p = Stop4 /\ Off /\ Held
    \/ p = Sync1 /\ flag.mining = flag.working /\ ~Stopping
    \/ p = Sync2 /\ flag.mining = flag.working /\ ~Stopping /\ Noted
    \/ p \in {Sync3, Sync4} /\ On /\ Noted
    \/ p = Sync5 /\ flag.working = FALSE /\ Noted
    \/ p \in {Sync6, Sync7} /\ Off /\ Noted

Idle == \A c \in Caller : todo[c] = <<>>

CallersOK ==
    /\ \A c \in Caller : Phase(todo[c])
    /\ \A c, d \in Caller : todo[c] # <<>> /\ todo[d] # <<>> => c = d
    /\ update = "newQuit" => Idle
    /\ Idle => flag.mining = flag.working /\ Held

Places == {"none", "top", "select", "mint", "seal", "newQuit", "newStopper", "done"}

\* At most one loop runs.  It waits on the stopper there is, and between its end and
\* its successor the stopper is closed; quitCh is closed only until it is replaced.
LoopsOK ==
    /\ loop \in [Loop -> [at : Places, on : Nat]]
    /\ \A k, l \in Running : k = l
    /\ \A l \in Loop : loop[l].at = "select" => loop[l].on = chan.stopper
    /\ \A l \in Loop : loop[l].at \in {"newQuit", "newStopper"} => Stopping
    /\ Stopping => Running # {} /\ flag.working = FALSE /\ update = "wait"
    /\ flag.working = TRUE <=> Running # {} /\ ~Stopping
    /\ chan.quitCh \in closed => update = "newQuit" \/ \E l \in Loop : loop[l].at = "newQuit"

ChannelsOK ==
    /\ chan \in [quitCh : Nat, stopper : Nat, last : Nat]
    /\ chan.quitCh \in 1 .. chan.last /\ chan.stopper \in 1 .. chan.last
    /\ closed \subseteq 1 .. chan.last /\ chan.quitCh # chan.stopper

TypesOK ==
    /\ flag \in [Flag -> BOOLEAN]
    /\ DOMAIN todo = Caller
    /\ sync \in {"none", "running", "over"} /\ update \in {"wait", "newQuit"}
    /\ calls \in 0 .. MaxCall /\ heads \in 0 .. MaxHead

IInv == TypesOK /\ ChannelsOK /\ CallersOK /\ LoopsOK /\ Room(0) /\ panic = FALSE

-----------------------------------------------------------------------------
(* The programs, step by step. *)

\* p begins with the access op, after which q is left.
Begins(p, op, q) == p # <<>> /\ Head(p).op = op /\ Tail(p) = q
Sets(p, name, val, q) == Begins(p, "store", q) /\ Head(p).name = name /\ Head(p).val = val

\* Start, by itself and at the end of a synchronisation.
LEMMA StartPrograms ==
    /\ Sets(Start1, "shouldStart", TRUE, Start2)
    /\ Begins(Start2, "canStart?", Start3)
    /\ Sets(Start3, "mining", TRUE, Start4)
    /\ Begins(Start4, "worker.start", <<>>)
    /\ Sets(Over1, "canStart", TRUE, Over2)
    /\ Sets(Over2, "shouldStart", FALSE, Start1)
    /\ Sets(Rest1, "canStart", TRUE, Stop4)
  <1> DEFINE a == Store("canStart", TRUE)  b == Store("shouldStart", FALSE)  c == Store("shouldStart", TRUE)
             d == Op("canStart?")  e == Store("mining", TRUE)  f == Op("worker.start")
  <1>1. /\ Over1 = <<a, b, c, d, e, f>> /\ Over2 = <<b, c, d, e, f>> /\ Start1 = <<c, d, e, f>>
        /\ Start2 = <<d, e, f>> /\ Start3 = <<e, f>> /\ Start4 = <<f>> /\ Rest1 = <<a, b>> /\ Stop4 = <<b>>
    BY Zenon DEF Over1, Over2, Start1, StartSteps, Start2, Start3, Start4, Rest1, Stop4
  <1>2. /\ a.op = "store" /\ a.name = "canStart" /\ a.val = TRUE
        /\ b.op = "store" /\ b.name = "shouldStart" /\ b.val = FALSE
        /\ c.op = "store" /\ c.name = "shouldStart" /\ c.val = TRUE
        /\ e.op = "store" /\ e.name = "mining" /\ e.val = TRUE
        /\ d.op = "canStart?" /\ f.op = "worker.start"
    BY DEF Store, Op
  <1> HIDE DEF a, b, c, d, e, f
  <1>3. /\ Head(Over1) = a /\ Tail(Over1) = Over2 /\ Over1 # <<>>
        /\ Head(Over2) = b /\ Tail(Over2) = Start1 /\ Over2 # <<>>
    BY <1>1
  <1>4. /\ Head(Start1) = c /\ Tail(Start1) = Start2 /\ Start1 # <<>>
        /\ Head(Start2) = d /\ Tail(Start2) = Start3 /\ Start2 # <<>>
    BY <1>1
  <1>5. /\ Head(Start3) = e /\ Tail(Start3) = Start4 /\ Start3 # <<>>
        /\ Head(Start4) = f /\ Tail(Start4) = <<>> /\ Start4 # <<>>
        /\ Head(Rest1) = a /\ Tail(Rest1) = Stop4 /\ Rest1 # <<>>
    BY <1>1
  <1> QED
    BY <1>2, <1>3, <1>4, <1>5, ZenonT(40) DEF Sets, Begins

\* Stop; when the worker is idle the test skips the next step.
LEMMA StopPrograms ==
    /\ Begins(Stop1, "working?", Stop2)
    /\ Begins(Stop2, "worker.stop", Stop3)
    /\ Sets(Stop3, "mining", FALSE, Stop4)
    /\ Sets(Stop4, "shouldStart", FALSE, <<>>)
  <1> DEFINE a == Op("working?")  b == Op("worker.stop")
             c == Store("mining", FALSE)  d == Store("shouldStart", FALSE)
  <1>1. Stop1 = <<a, b, c, d>> /\ Stop2 = <<b, c, d>> /\ Stop3 = <<c, d>> /\ Stop4 = <<d>>
    BY Zenon DEF Stop1, StopSteps, Stop2, Stop3, Stop4
  <1>2. /\ c.op = "store" /\ c.name = "mining" /\ c.val = FALSE
        /\ d.op = "store" /\ d.name = "shouldStart" /\ d.val = FALSE
        /\ a.op = "working?" /\ b.op = "worker.stop"
    BY DEF Store, Op
  <1> HIDE DEF a, b, c, d
  <1>3. /\ Head(Stop1) = a /\ Tail(Stop1) = Stop2 /\ Stop1 # <<>>
        /\ Head(Stop2) = b /\ Tail(Stop2) = Stop3 /\ Stop2 # <<>>
        /\ Head(Stop3) = c /\ Tail(Stop3) = Stop4 /\ Stop3 # <<>>
        /\ Head(Stop4) = d /\ Tail(Stop4) = <<>> /\ Stop4 # <<>>
    BY <1>1
  <1> QED
    BY <1>2, <1>3 DEF Sets, Begins

\* The start of a synchronisation, in which Stop is called.
LEMMA SyncPrograms ==
    /\ Sets(Sync1, "canStart", FALSE, Sync2)
    /\ Begins(Sync2, "mining?", Sync3)
    /\ Begins(Sync3, "working?", Sync4) /\ Tail(Sync4) = Sync5
    /\ Begins(Sync4, "worker.stop", Sync5)
    /\ Sets(Sync5, "mining", FALSE, Sync6)
    /\ Sets(Sync6, "shouldStart", FALSE, Sync7)
    /\ Sets(Sync7, "shouldStart", TRUE, <<>>)
  <1> DEFINE a == Store("canStart", FALSE)  b == Op("mining?")  c == Op("working?")  d == Op("worker.stop")
             e == Store("mining", FALSE)  f == Store("shouldStart", FALSE)  g == Store("shouldStart", TRUE)
  <1>1. /\ Sync1 = <<a, b, c, d, e, f, g>> /\ Sync2 = <<b, c, d, e, f, g>> /\ Sync3 = <<c, d, e, f, g>>
        /\ Sync4 = <<d, e, f, g>> /\ Sync5 = <<e, f, g>> /\ Sync6 = <<f, g>> /\ Sync7 = <<g>>
    BY Zenon DEF Sync1, Sync2, Sync3, Sync4, Sync5, Sync6, Sync7
  <1>2. /\ a.op = "store" /\ a.name = "canStart" /\ a.val = FALSE
        /\ e.op = "store" /\ e.name = "mining" /\ e.val = FALSE
        /\ f.op = "store" /\ f.name = "shouldStart" /\ f.val = FALSE
        /\ g.op = "store" /\ g.name = "shouldStart" /\ g.val = TRUE
        /\ b.op = "mining?" /\ c.op = "working?" /\ d.op = "worker.stop"
    BY DEF Store, Op
  <1> HIDE DEF a, b, c, d, e, f, g
  <1>3. /\ Head(Sync1) = a /\ Tail(Sync1) = Sync2 /\ Sync1 # <<>>
        /\ Head(Sync2) = b /\ Tail(Sync2) = Sync3 /\ Sync2 # <<>>
    BY <1>1
  <1>4. /\ Head(Sync3) = c /\ Tail(Sync3) = Sync4 /\ Sync3 # <<>>
        /\ Head(Sync4) = d /\ Tail(Sync4) = Sync5 /\ Sync4 # <<>>
    BY <1>1
  <1>5. /\ Head(Sync5) = e /\ Tail(Sync5) = Sync6 /\ Sync5 # <<>>
        /\ Head(Sync6) = f /\ Tail(Sync6) = Sync7 /\ Sync6 # <<>>
        /\ Head(Sync7) = g /\ Tail(Sync7) = <<>> /\ Sync7 # <<>>
    BY <1>1
  <1> QED
    BY <1>2, <1>3, <1>4, <1>5, SMTT(40) DEF Sets, Begins

\* A pair before a tuple of four.
LEMMA Concat24 ==
    ASSUME NEW S, NEW a \in S, NEW b \in S, NEW c \in S, NEW d \in S, NEW e \in S, NEW f \in S
    PROVE  <<a, b>> \o <<c, d, e, f>> = <<a, b, c, d, e, f>>
  <1>1. /\ <<a, b>> \in Seq(S) /\ <<c, d, e, f>> \in Seq(S) /\ <<a, b, c, d, e, f>> \in Seq(S)
        /\ Len(<<a, b>>) = 2 /\ Len(<<c, d, e, f>>) = 4 /\ Len(<<a, b, c, d, e, f>>) = 6
    OBVIOUS
  <1>2. <<a, b>> \o <<c, d, e, f>> \in Seq(S) /\ Len(<<a, b>> \o <<c, d, e, f>>) = 6
    BY <1>1, ConcatProperties
  <1>3. \A i \in 1 .. 6 : (<<a, b>> \o <<c, d, e, f>>)[i] = <<a, b, c, d, e, f>>[i]
    BY <1>1, ConcatProperties
  <1> QED
    BY <1>1, <1>2, <1>3, SeqEqual, Zenon

\* What SyncStarts and SyncEnds give Miner.update to do.
LEMMA SyncProgram ==
    /\ <<Store("canStart", FALSE), Op("mining?")>> \o StopSteps \o <<Store("shouldStart", TRUE)>> = Sync1
    /\ <<Store("canStart", TRUE), Store("shouldStart", FALSE)>> \o StartSteps = Over1
    /\ <<Store("canStart", TRUE), Store("shouldStart", FALSE)>> \o <<>> = Rest1
  <1> DEFINE S == {Store("canStart", FALSE), Op("mining?"), Op("working?"), Op("worker.stop"),
                   Store("mining", FALSE), Store("shouldStart", FALSE), Store("shouldStart", TRUE),
                   Store("canStart", TRUE), Op("canStart?"), Store("mining", TRUE), Op("worker.start")}
             a == Store("canStart", FALSE)  b == Op("mining?")  c == Op("working?")  d == Op("worker.stop")
             e == Store("mining", FALSE)  f == Store("shouldStart", FALSE)  g == Store("shouldStart", TRUE)
             h == Store("canStart", TRUE)  m == Op("canStart?")  n == Store("mining", TRUE)  p == Op("worker.start")
  <1>1. a \in S /\ b \in S /\ c \in S /\ d \in S /\ e \in S /\ f \in S /\ g \in S
    BY Zenon
  <1>8. h \in S /\ f \in S /\ g \in S /\ m \in S /\ n \in S /\ p \in S
    BY Zenon
  <1>2. /\ StopSteps = <<c, d, e, f>> /\ Sync1 = <<a, b, c, d, e, f, g>> /\ StartSteps = <<g, m, n, p>>
        /\ Over1 = <<h, f, g, m, n, p>> /\ Rest1 = <<h, f>>
    BY Zenon DEF StopSteps, Sync1, StartSteps, Over1, Rest1
  <1> HIDE DEF S, a, b, c, d, e, f, g, h, m, n, p
  <1>3. <<a, b>> \o <<c, d, e, f>> = <<a, b, c, d, e, f>>
    BY <1>1, Concat24
  <1>7. <<h, f>> \o <<g, m, n, p>> = <<h, f, g, m, n, p>>
    BY <1>8, Concat24
  <1>4. <<a, b, c, d, e, f>> \o <<g>> = <<a, b, c, d, e, f, g>>
    <2>1. /\ <<a, b, c, d, e, f>> \in Seq(S) /\ <<g>> \in Seq(S) /\ <<a, b, c, d, e, f, g>> \in Seq(S)
          /\ Len(<<a, b, c, d, e, f>>) = 6 /\ Len(<<g>>) = 1 /\ Len(<<a, b, c, d, e, f, g>>) = 7
      BY <1>1
    <2>2. <<a, b, c, d, e, f>> \o <<g>> \in Seq(S) /\ Len(<<a, b, c, d, e, f>> \o <<g>>) = 7
      BY <2>1, ConcatProperties
    <2>3. \A i \in 1 .. 7 : (<<a, b, c, d, e, f>> \o <<g>>)[i] = <<a, b, c, d, e, f, g>>[i]
      BY <2>1, ConcatProperties
    <2> QED
      BY <2>1, <2>2, <2>3, SeqEqual, ZenonT(40)
  <1>5. <<h, f>> \o <<>> = <<h, f>>
    <2>1. <<h, f>> \in Seq(S)
      BY <1>8
    <2> QED
      BY <2>1, ConcatEmptySeq
  <1>6. /\ <<a, b>> \o StopSteps \o <<g>> = Sync1 /\ <<h, f>> \o StartSteps = Over1
        /\ <<h, f>> \o <<>> = Rest1
    BY <1>2, <1>3, <1>4, <1>5, <1>7, Zenon
  <1> QED
    BY <1>6, Zenon DEF a, b, g, h, f

-----------------------------------------------------------------------------
(* Steps of callers. *)

\* What a caller has left is all that a step of it changes of the programs.
LEMMA CallerMoves ==
    ASSUME IInv, NEW c \in Caller, NEW q, todo[c] # <<>>,
           todo' = [todo EXCEPT ![c] = q], update' = update, Phase(q)',
           q = <<>> => flag'.mining = flag'.working /\ Held'
    PROVE  CallersOK'
  <1>1. \A d \in Caller : d # c => todo[d] = <<>> /\ todo'[d] = <<>>
    BY DEF IInv, CallersOK, TypesOK
  <1>2. todo'[c] = q /\ update' # "newQuit"
    BY DEF IInv, CallersOK, TypesOK, Idle
  <1>3. \A d \in Caller : Phase(todo[d])'
    <2> SUFFICES ASSUME NEW d \in Caller PROVE Phase(todo[d])'
      OBVIOUS
    <2>1. CASE d = c
      BY <1>2, <2>1 DEF Phase
    <2>2. CASE d # c
      BY <1>1, <2>2 DEF Phase
    <2> QED
      BY <2>1, <2>2
  <1>4. \A d, e \in Caller : todo'[d] # <<>> /\ todo'[e] # <<>> => d = e
    BY <1>1
  <1> QED
    BY <1>2, <1>3, <1>4 DEF CallersOK, Idle

\* Room depends on the loops and on the calls only.
LEMMA SameRoom ==
    ASSUME UNCHANGED <<loop, calls, sync>>
    PROVE  Room(0)' = Room(0) /\ Room(1)' = Room(1)
  BY DEF Room

\* A caller that only sets a flag, other than worker.mining, or reads one.
LEMMA QuietStep ==
    ASSUME IInv, UNCHANGED <<chan, closed, loop, sync, update, calls, heads, panic>>,
           flag' \in [Flag -> BOOLEAN],
           flag'.working = flag.working, DOMAIN todo' = Caller
    PROVE  /\ TypesOK' /\ ChannelsOK' /\ LoopsOK' /\ Room(0)' /\ panic' = FALSE
           /\ Room(1)' = Room(1) /\ Stopping' = Stopping
  <1>1. TypesOK' /\ ChannelsOK' /\ panic' = FALSE
    BY DEF IInv, TypesOK, ChannelsOK
  <1>2. Stopping' = Stopping /\ Running' = Running
    BY DEF Stopping, Running
  <1>3. LoopsOK'
    BY <1>2 DEF IInv, LoopsOK, Running, Stopping
  <1> QED
    BY <1>1, <1>2, <1>3, SameRoom DEF IInv

\* The access that each program begins with.
LEMMA Accesses ==
    /\ \A p \in {Start1, Start3, Over1, Over2, Rest1, Stop3, Stop4, Sync1, Sync5, Sync6, Sync7} :
           Head(p).op = "store"
    /\ Head(Start2).op = "canStart?" /\ Head(Start4).op = "worker.start"
    /\ Head(Sync2).op = "mining?"
    /\ Head(Stop1).op = "working?" /\ Head(Sync3).op = "working?"
    /\ Head(Stop2).op = "worker.stop" /\ Head(Sync4).op = "worker.stop"
  BY StartPrograms, StopPrograms, SyncPrograms DEF Begins, Sets

\* A store to mining, canStart or shouldStart.
LEMMA StoreInv ==
    ASSUME IInv, NEW c \in Caller, DoStore(c)
    PROVE  IInv'
  <1> PICK p, q : p = todo[c] /\ q = Tail(p)
    BY Zenon
  <1>1. /\ p # <<>> /\ Head(p).op = "store" /\ Phase(p) /\ todo[c] # <<>>
        /\ flag' = [flag EXCEPT ![Head(p).name] = Head(p).val]
        /\ todo' = [todo EXCEPT ![c] = q] /\ DOMAIN todo' = Caller
        /\ UNCHANGED <<chan, closed, loop, sync, update, calls, heads, panic>>
    BY DEF DoStore, Doing, Leave, Rest, IInv, CallersOK, TypesOK
  <1>2. flag \in [Flag -> BOOLEAN]
    BY DEF IInv, TypesOK
  <1>3. \/ p = Start1 /\ Off /\ ~Stopping /\ Held /\ Room(1)
        \/ p = Start3 /\ Off /\ ~Stopping /\ sync # "running" /\ Room(1)
        \/ p \in {Over1, Over2} /\ Off /\ ~Stopping /\ sync = "over" /\ Room(1)
        \/ p = Rest1 /\ Off /\ ~Stopping /\ sync = "over"
        \/ p = Stop3 /\ flag.working = FALSE /\ Held
        \/ p = Stop4 /\ Off /\ Held
        \/ p = Sync1 /\ flag.mining = flag.working /\ ~Stopping
        \/ p = Sync5 /\ flag.working = FALSE /\ Noted
        \/ p \in {Sync6, Sync7} /\ Off /\ Noted
    BY <1>1, Accesses DEF Phase
  <1>4. /\ Head(p).name \in {"mining", "canStart", "shouldStart"} /\ Head(p).val \in BOOLEAN
    BY <1>3, StartPrograms, StopPrograms, SyncPrograms, ZenonT(40) DEF Sets
  <1>5. /\ flag' \in [Flag -> BOOLEAN]
        /\ flag'.working = flag.working
    BY <1>1, <1>2, <1>4
  <1>6. /\ TypesOK' /\ ChannelsOK' /\ LoopsOK' /\ Room(0)' /\ panic' = FALSE
        /\ Room(1)' = Room(1) /\ Stopping' = Stopping
    BY <1>1, <1>5, QuietStep, Zenon
  <1>7. Phase(q)' /\ (q = <<>> => flag'.mining = flag'.working /\ Held')
    <2>1. CASE p = Start1 /\ Off /\ ~Stopping /\ Held /\ Room(1)
      <3>1. Head(p).name = "shouldStart" /\ q = Start2 /\ q # <<>>
        BY <2>1, StartPrograms, ZenonT(40) DEF Sets, Begins
      <3> QED
        BY <1>1, <1>2, <1>5, <1>6, <2>1, <3>1, Zenon DEF Phase, Off, Held, Noted
    <2>2. CASE p = Start3 /\ Off /\ ~Stopping /\ sync # "running" /\ Room(1)
      <3>1. Head(p).name = "mining" /\ Head(p).val = TRUE /\ q = Start4 /\ q # <<>>
        BY <2>2, StartPrograms, ZenonT(40) DEF Sets, Begins
      <3> QED
        BY <1>1, <1>2, <1>5, <1>6, <2>2, <3>1, Zenon DEF Phase, Off, TurnedOn
    <2>3. CASE p \in {Over1, Over2} /\ Off /\ ~Stopping /\ sync = "over" /\ Room(1)
      <3>1. /\ Head(p).name \in {"canStart", "shouldStart"} /\ q \in {Over2, Start1} /\ q # <<>>
        BY <2>3, StartPrograms, ZenonT(40) DEF Sets, Begins
      <3> QED
        BY <1>1, <1>2, <1>5, <1>6, <2>3, <3>1, Zenon DEF Phase, Off, Held, Noted
    <2>4. CASE p = Rest1 /\ Off /\ ~Stopping /\ sync = "over"
      <3>1. Head(p).name = "canStart" /\ q = Stop4
        BY <2>4, StartPrograms DEF Sets, Begins
      <3>2. Stop4 # <<>>
        BY StopPrograms, Zenon DEF Sets, Begins
      <3> QED
        BY <1>1, <1>2, <1>5, <1>6, <2>4, <3>1, <3>2, Zenon DEF Phase, Off, Held, Noted
    <2>5. CASE p = Stop3 /\ flag.working = FALSE /\ Held
      <3>1. Head(p).name = "mining" /\ Head(p).val = FALSE /\ q = Stop4 /\ q # <<>>
        BY <2>5, StopPrograms, ZenonT(40) DEF Sets, Begins
      <3> QED
        BY <1>1, <1>2, <1>5, <1>6, <2>5, <3>1, ZenonT(40) DEF Phase, Off, Held, Noted
    <2>6. CASE p = Stop4 /\ Off /\ Held
      <3>1. Head(p).name = "shouldStart" /\ q = <<>>
        BY <2>6, StopPrograms, Zenon DEF Sets, Begins
      <3> QED
        BY <1>1, <1>2, <1>5, <1>6, <2>6, <3>1, ZenonT(40) DEF Phase, Off, Held, Noted
    <2>7. CASE p = Sync1 /\ flag.mining = flag.working /\ ~Stopping
      <3>1. Head(p).name = "canStart" /\ Head(p).val = FALSE /\ q = Sync2 /\ q # <<>>
        BY <2>7, SyncPrograms, ZenonT(40) DEF Sets, Begins
      <3> QED
        BY <1>1, <1>2, <1>5, <1>6, <2>7, <3>1, ZenonT(40) DEF Phase, Noted
    <2>8. CASE p = Sync5 /\ flag.working = FALSE /\ Noted
      <3>1. Head(p).name = "mining" /\ Head(p).val = FALSE /\ q = Sync6 /\ q # <<>>
        BY <2>8, SyncPrograms, ZenonT(40) DEF Sets, Begins
      <3> QED
        BY <1>1, <1>2, <1>5, <1>6, <2>8, <3>1, ZenonT(40) DEF Phase, Off, Noted
    <2>9. CASE p \in {Sync6, Sync7} /\ Off /\ Noted
      <3>1. Head(p).name = "shouldStart" /\ q \in {Sync7, <<>>}
        BY <2>9, SyncPrograms, Zenon DEF Sets, Begins
      <3> QED
        BY <1>1, <1>2, <1>5, <1>6, <2>9, <3>1, Zenon DEF Phase, Off, Noted, Held
    <2> QED
      BY <1>3, <2>1, <2>2, <2>3, <2>4, <2>5, <2>6, <2>7, <2>8, <2>9, Zenon
  <1>8. CallersOK'
    BY <1>1, <1>7, CallerMoves, Zenon
  <1> QED
    BY <1>6, <1>8 DEF IInv

\* The early returns.
LEMMA TestInv ==
    ASSUME IInv, NEW c \in Caller, DoTest(c)
    PROVE  IInv'
  <1> PICK p : p = todo[c]
    OBVIOUS
  <1>1. /\ p # <<>> /\ Phase(p) /\ todo[c] # <<>>
        /\ UNCHANGED <<flag, chan, closed, loop, sync, update, calls, heads, panic>>
        /\ flag \in [Flag -> BOOLEAN]
    BY DEF DoTest, Doing, IInv, CallersOK, TypesOK
  <1>2. /\ Stopping' = Stopping /\ Noted' = Noted /\ Held' = Held /\ Off' = Off /\ On' = On
        /\ Room(1)' = Room(1)
    BY <1>1, SameRoom DEF Stopping, Noted, Held, Off, On
  <1>3. PICK q : /\ todo' = [todo EXCEPT ![c] = q]
                 /\ \/ Head(p).op = "canStart?" /\ q = IF flag.canStart THEN Tail(p) ELSE <<>>
                    \/ Head(p).op = "working?" /\ q = IF flag.working THEN Tail(p) ELSE Tail(Tail(p))
                    \/ Head(p).op = "mining?" /\ q = IF flag.mining THEN Tail(p) ELSE <<>>
    BY Zenon DEF DoTest, Doing, Leave, Rest
  <1>4. DOMAIN todo' = Caller
    BY <1>3 DEF IInv, TypesOK
  <1>5. TypesOK' /\ ChannelsOK' /\ LoopsOK' /\ Room(0)' /\ panic' = FALSE
    BY <1>1, <1>4, QuietStep, ZenonT(40)
  <1>6. Phase(q)' /\ (q = <<>> => flag'.mining = flag'.working /\ Held')
    <2>1. CASE Head(p).op = "canStart?"
      <3>1. q = IF flag.canStart THEN Tail(p) ELSE <<>>
        BY <1>3, <2>1, Zenon
      <3>2. p = Start2 /\ Off /\ ~Stopping /\ Held /\ Room(1)
        BY <1>1, <2>1, Accesses, ZenonT(40) DEF Phase
      <3>3. Tail(p) = Start3 /\ Start3 # <<>>
        BY <3>2, StartPrograms, Zenon DEF Sets, Begins
      <3>4. CASE flag.canStart = TRUE
        BY <1>1, <1>2, <3>1, <3>2, <3>3, <3>4, ZenonT(40) DEF Phase, Held, Noted
      <3>5. CASE flag.canStart = FALSE
        BY <1>1, <1>2, <3>1, <3>2, <3>5, ZenonT(40) DEF Phase, Off
      <3> QED
        BY <1>1, <3>4, <3>5, Zenon
    <2>2. CASE Head(p).op = "working?"
      <3>1. q = IF flag.working THEN Tail(p) ELSE Tail(Tail(p))
        BY <1>3, <2>2, Zenon
      <3>2. \/ p = Stop1 /\ flag.mining = flag.working /\ ~Stopping /\ Held
            \/ p = Sync3 /\ On /\ Noted
        BY <1>1, <2>2, Accesses, Zenon DEF Phase
      <3>3. /\ Tail(Stop1) = Stop2 /\ Stop2 # <<>> /\ Tail(Stop2) = Stop3 /\ Stop3 # <<>>
            /\ Tail(Sync3) = Sync4 /\ Sync4 # <<>>
        BY StopPrograms, SyncPrograms, Zenon DEF Sets, Begins
      <3>4. CASE p = Stop1 /\ flag.mining = flag.working /\ ~Stopping /\ Held
        <4>1. CASE flag.working = TRUE
          BY <1>1, <1>2, <3>1, <3>3, <3>4, <4>1, ZenonT(40) DEF Phase, On
        <4>2. CASE flag.working = FALSE
          BY <1>1, <1>2, <3>1, <3>3, <3>4, <4>2, ZenonT(40) DEF Phase
        <4> QED
          BY <1>1, <4>1, <4>2, ZenonT(40)
      <3>5. CASE p = Sync3 /\ On /\ Noted
        BY <1>1, <1>2, <3>1, <3>3, <3>5, Zenon DEF Phase, On
      <3> QED
        BY <3>2, <3>4, <3>5, ZenonT(40)
    <2>3. CASE Head(p).op = "mining?"
      <3>1. q = IF flag.mining THEN Tail(p) ELSE <<>>
        BY <1>3, <2>3, ZenonT(40)
      <3>2. p = Sync2 /\ flag.mining = flag.working /\ ~Stopping /\ Noted
        BY <1>1, <2>3, Accesses DEF Phase
      <3>3. Tail(Sync2) = Sync3 /\ Sync3 # <<>>
        BY SyncPrograms, SMTT(40) DEF Begins
      <3>4. CASE flag.mining = TRUE
        BY <1>1, <1>2, <3>1, <3>2, <3>3, <3>4, ZenonT(40) DEF Phase, On
      <3>5. CASE flag.mining = FALSE
        BY <1>1, <1>2, <3>1, <3>2, <3>5 DEF Phase, Held
      <3> QED
        BY <1>1, <3>4, <3>5, Zenon
    <2> QED
      BY <1>3, <2>1, <2>2, <2>3
  <1>7. CallersOK'
    BY <1>1, <1>3, <1>6, CallerMoves, Zenon
  <1> QED
    BY <1>5, <1>7 DEF IInv

\* worker.start: the next loop is the first that has not run.
LEMMA WorkerStartInv ==
    ASSUME IInv, NEW c \in Caller, WorkerStart(c)
    PROVE  IInv'
  <1> PICK p : p = todo[c]
    OBVIOUS
  <1>1. /\ p # <<>> /\ Head(p).op = "worker.start" /\ Phase(p) /\ todo[c] # <<>>
        /\ flag' = [flag EXCEPT !.working = TRUE]
        /\ todo' = [todo EXCEPT ![c] = Tail(p)] /\ DOMAIN todo' = Caller
        /\ UNCHANGED <<chan, closed, sync, update, calls, heads, panic>>
    BY Zenon DEF WorkerStart, Doing, Leave, Rest, IInv, CallersOK, TypesOK
  <1>2. p = Start4 /\ TurnedOn /\ ~Stopping /\ sync # "running" /\ Room(1) /\ Tail(p) = <<>>
    <2>1. p = Start4 /\ TurnedOn /\ ~Stopping /\ sync # "running" /\ Room(1)
      BY <1>1, Accesses DEF Phase
    <2> QED
      BY <2>1, StartPrograms DEF Begins
  <1>3. update = "wait"
    BY <1>1 DEF IInv, TypesOK, CallersOK, Idle
  <1>4. PICK n \in Nat : /\ \A l \in Loop : loop[l].at = "none" <=> l > n
                         /\ n + 1 <= calls + (IF sync = "over" THEN 1 ELSE 0)
    BY <1>2 DEF Room
  <1>5. n + 1 \in Loop /\ n + 1 <= MaxCall + 1
    BY <1>4, MinerAssumption DEF Loop, IInv, TypesOK
  <1>6. loop' = [loop EXCEPT ![n + 1].at = "top"]
    <2> DEFINE free == {l \in Loop : loop[l].at = "none"}
    <2>1. n + 1 \in free /\ \A k \in free : n + 1 <= k /\ k \in Int
      BY <1>4, <1>5 DEF Loop
    <2>2. (CHOOSE l \in free : \A k \in free : l <= k) = n + 1
      BY <2>1
    <2> QED
      BY <2>2, Zenon DEF WorkerStart
  <1>7. /\ flag' \in [Flag -> BOOLEAN]
        /\ flag'.mining = TRUE /\ flag'.working = TRUE
    BY <1>1, <1>2, Zenon DEF IInv, TypesOK, TurnedOn
  <1>8. Running = {}
    BY <1>2 DEF IInv, LoopsOK, TurnedOn
  <1>9. LoopsOK'
    <2>1. loop' \in [Loop -> [at : Places, on : Nat]] /\ loop \in [Loop -> [at : Places, on : Nat]]
      BY <1>5, <1>6 DEF IInv, LoopsOK, Places
    <2>2. \A l \in Loop : IF l = n + 1 THEN loop'[l].at = "top" ELSE loop'[l] = loop[l]
      BY <1>6, <2>1
    <2>3. Running' = {n + 1}
      BY <1>5, <1>8, <2>2 DEF Running
    <2>4. Stopping' = Stopping
      BY <1>1 DEF Stopping
    <2>5. \A l \in Loop : loop'[l].at \notin {"select", "newQuit", "newStopper"}
      BY <1>8, <2>2 DEF Running
    <2>6. chan.quitCh \notin closed
      BY <1>3, <1>8 DEF IInv, LoopsOK, Running
    <2> QED
      BY <1>1, <1>2, <1>7, <2>1, <2>3, <2>4, <2>5, <2>6, ZenonT(40) DEF LoopsOK
  <1>10. Room(0)'
    <2>1. \A l \in Loop : loop'[l].at = "none" <=> l > n + 1
      BY <1>4, <1>5, <1>6 DEF IInv, LoopsOK, Loop
    <2>2. n + 1 \in Nat /\ (n + 1) + 0 <= calls + (IF sync = "over" THEN 1 ELSE 0)
      BY <1>4
    <2> QED
      BY <1>1, <2>1, <2>2 DEF Room
  <1>11. CallersOK'
    <2>1. Held'
      BY <1>1, <1>2 DEF Held, Noted
    <2>2. Phase(<<>>)'
      BY DEF Phase
    <2> QED
      BY <1>1, <1>2, <1>7, <2>1, <2>2, CallerMoves, Zenon
  <1>12. TypesOK' /\ ChannelsOK' /\ panic' = FALSE
    BY <1>1, <1>7 DEF IInv, TypesOK, ChannelsOK
  <1> QED
    BY <1>9, <1>10, <1>11, <1>12 DEF IInv

\* worker.stop: it is only called while a loop runs whose stopper is open.
LEMMA WorkerStopInv ==
    ASSUME IInv, NEW c \in Caller, WorkerStop(c)
    PROVE  IInv'
  <1> PICK p, q : p = todo[c] /\ q = Tail(p)
    BY Zenon
  <1>1. /\ p # <<>> /\ Head(p).op = "worker.stop" /\ Phase(p) /\ todo[c] # <<>>
        /\ flag' = [flag EXCEPT !.working = FALSE]
        /\ closed' = closed \cup {chan.stopper} /\ panic' = (chan.stopper \in closed)
        /\ todo' = [todo EXCEPT ![c] = q] /\ DOMAIN todo' = Caller
        /\ UNCHANGED <<chan, loop, sync, update, calls, heads>>
    BY DEF WorkerStop, close, Doing, Leave, Rest, IInv, CallersOK, TypesOK
  <1>2. \/ p = Stop2 /\ On /\ Held
        \/ p = Sync4 /\ On /\ Noted
    BY <1>1, Accesses DEF Phase
  <1>3. update = "wait"
    BY <1>1 DEF IInv, TypesOK, CallersOK, Idle
  <1>4. /\ flag' \in [Flag -> BOOLEAN]
        /\ flag'.mining = flag.mining /\ flag'.canStart = flag.canStart /\ flag'.working = FALSE
    BY <1>1, Zenon DEF IInv, TypesOK
  <1>5. Running # {} /\ ~Stopping
    BY <1>2 DEF IInv, LoopsOK, On
  <1>6. panic' = FALSE
    <2>1. panic' = (chan.stopper \in closed) /\ (chan.stopper \in closed) = FALSE
      BY <1>1, <1>5 DEF Stopping
    <2> QED
      BY <2>1, Zenon
  <1>7. Stopping' /\ Running' = Running
    BY <1>1 DEF Stopping, Running
  <1>8. LoopsOK'
    <2>1. chan.quitCh \in closed' => chan.quitCh \in closed
      BY <1>1 DEF IInv, ChannelsOK
    <2> QED
      BY <1>1, <1>3, <1>4, <1>5, <1>7, <2>1, SMTT(40) DEF IInv, LoopsOK
  <1>9. CallersOK'
    <2>1. Phase(q)' /\ q # <<>>
      <3>1. CASE p = Stop2 /\ On /\ Held
        <4>1. q = Stop3 /\ Stop3 # <<>>
          BY <3>1, StopPrograms DEF Sets, Begins
        <4> QED
          BY <1>1, <1>4, <3>1, <4>1, Zenon DEF Phase, Held, Noted
      <3>2. CASE p = Sync4 /\ On /\ Noted
        <4>1. q = Sync5 /\ Sync5 # <<>>
          BY <3>2, SyncPrograms DEF Sets, Begins
        <4> QED
          BY <1>1, <1>4, <3>2, <4>1, Zenon DEF Phase, Noted
      <3> QED
        BY <1>2, <3>1, <3>2
    <2> QED
      BY <1>1, <2>1, CallerMoves, Zenon
  <1>10. TypesOK' /\ ChannelsOK'
    BY <1>1, <1>4 DEF IInv, TypesOK, ChannelsOK
  <1>11. Room(0)'
    BY <1>1, SameRoom DEF IInv
  <1> QED
    BY <1>6, <1>8, <1>9, <1>10, <1>11, SMTT(40) DEF IInv

-----------------------------------------------------------------------------
(* Inputs, which come when the earlier ones have taken effect. *)

\* Nothing is under way when an input comes.
LEMMA QuietInput ==
    ASSUME IInv, Spaced, Input
    PROVE  /\ Idle /\ ~Stopping /\ update = "wait" /\ flag.mining = flag.working /\ Held
           /\ chan.quitCh \notin closed
  <1>1. Settled /\ Idle /\ ~Stopping /\ update = "wait"
    BY DEF Input, Settled, Idle, Stopping
  <1>2. flag.mining = flag.working /\ Held
    BY <1>1 DEF IInv, CallersOK
  <1>3. ~ \E l \in Loop : loop[l].at = "newQuit"
    BY <1>1 DEF IInv, LoopsOK
  <1> QED
    BY <1>1, <1>2, <1>3 DEF IInv, LoopsOK

\* A caller that had nothing to do begins.
LEMMA CallerBegins ==
    ASSUME IInv, Idle, update = "wait", update' = update, NEW c \in Caller, NEW q, q # <<>>,
           todo' = [todo EXCEPT ![c] = q], Phase(q)'
    PROVE  CallersOK'
  <1>1. DOMAIN todo = Caller /\ \A d \in Caller : todo[d] = <<>>
    BY DEF IInv, TypesOK, Idle
  <1>2. todo'[c] = q /\ \A d \in Caller : d # c => todo'[d] = <<>>
    BY <1>1
  <1>3. \A d \in Caller : Phase(todo[d])'
    <2> SUFFICES ASSUME NEW d \in Caller PROVE Phase(todo[d])'
      BY Zenon
    <2>1. CASE d = c
      BY <1>2, <2>1, ZenonT(40) DEF Phase
    <2>2. CASE d # c
      BY <1>2, <2>2 DEF Phase
    <2> QED
      BY <2>1, <2>2
  <1>4. \A d, e \in Caller : todo'[d] # <<>> /\ todo'[e] # <<>> => d = e
    BY <1>2
  <1> QED
    BY <1>2, <1>3, <1>4 DEF CallersOK, Idle

\* Start, called when the miner is not mining, and Stop.
LEMMA CallInv ==
    ASSUME IInv, Spaced, NEW u \in User, CallStart(u) \/ CallStop(u)
    PROVE  IInv'
  <1>1. PICK q \in {Start1, Stop1} :
           /\ q = Start1 => flag.mining = FALSE
           /\ Call(u, q)
    <2>1. CASE CallStart(u)
      <3>1. flag.mining = FALSE
        BY <2>1 DEF CallStart, IInv, TypesOK
      <3> QED
        BY <2>1, <3>1 DEF CallStart, Start1
    <2>2. CASE CallStop(u) /\ ~CallStart(u)
      <3>1. Call(u, Stop1)
        BY <2>2 DEF CallStop, Stop1
      <3>2. Stop1 # Start1
        BY StartPrograms, StopPrograms DEF Sets, Begins
      <3> QED
        BY <3>1, <3>2
    <2> QED
      BY <2>1, <2>2, Zenon
  <1>2. /\ Input /\ calls < MaxCall /\ calls' = calls + 1 /\ todo' = [todo EXCEPT ![u] = q]
        /\ UNCHANGED <<flag, chan, closed, loop, sync, update, heads, panic>>
    BY <1>1 DEF Call
  <1>3. u \in Caller /\ DOMAIN todo' = Caller
    BY <1>2 DEF Caller, IInv, TypesOK
  <1>4. /\ Idle /\ ~Stopping /\ update = "wait" /\ flag.mining = flag.working /\ Held
    BY <1>2, QuietInput
  <1>5. TypesOK' /\ ChannelsOK' /\ panic' = FALSE
    BY <1>2, <1>3, MinerAssumption DEF IInv, TypesOK, ChannelsOK
  <1>6. LoopsOK' /\ Stopping' = Stopping
    <2>1. Stopping' = Stopping /\ Running' = Running
      BY <1>2 DEF Stopping, Running
    <2> QED
      BY <1>2, <2>1 DEF IInv, LoopsOK
  <1>7. Room(0)' /\ Room(1)'
    <2>1. PICK n \in Nat : /\ \A l \in Loop : loop[l].at = "none" <=> l > n
                           /\ n + 0 <= calls + (IF sync = "over" THEN 1 ELSE 0)
      BY DEF IInv, Room
    <2>2. /\ n + 0 <= calls' + (IF sync' = "over" THEN 1 ELSE 0)
          /\ n + 1 <= calls' + (IF sync' = "over" THEN 1 ELSE 0)
      BY <1>2, <2>1 DEF IInv, TypesOK
    <2> QED
      BY <1>2, <2>1, <2>2 DEF Room
  <1>8. Phase(q)' /\ q # <<>>
    <2>1. CASE q = Start1
      <3>1. q # <<>>
        BY <2>1, StartPrograms, Zenon DEF Sets, Begins
      <3> QED
        BY <1>1, <1>2, <1>4, <1>6, <1>7, <2>1, <3>1, ZenonT(40) DEF Phase, Off, Held, Noted
    <2>2. CASE q = Stop1
      <3>1. q # <<>>
        BY <2>2, StopPrograms DEF Begins
      <3> QED
        BY <1>2, <1>4, <1>6, <2>2, <3>1, ZenonT(40) DEF Phase, Held, Noted
    <2> QED
      BY <1>1, <2>1, <2>2, Zenon
  <1>9. CallersOK'
    BY <1>2, <1>3, <1>4, <1>8, CallerBegins, Zenon
  <1> QED
    BY <1>5, <1>6, <1>7, <1>9 DEF IInv

\* The downloader's events.
LEMMA SyncInv ==
    ASSUME IInv, Spaced, SyncStarts \/ SyncEnds
    PROVE  IInv'
  <1>1. PICK q \in {Sync1, Over1, Rest1} :
           /\ Input /\ todo' = [todo EXCEPT ![Follower] = q]
           /\ \/ q = Sync1 /\ sync' = "running"
              \/ q \in {Over1, Rest1} /\ sync = "running" /\ sync' = "over"
           /\ sync \in {"none", "running"}
           /\ UNCHANGED <<flag, chan, closed, loop, update, calls, heads, panic>>
    <2>1. CASE SyncStarts
      BY <2>1, SyncProgram, Zenon DEF SyncStarts
    <2>2. CASE SyncEnds
      <3>1. CASE flag.shouldStart
        BY <2>2, <3>1, SyncProgram, Zenon DEF SyncEnds
      <3>2. CASE ~flag.shouldStart
        BY <2>2, <3>2, SyncProgram, Zenon DEF SyncEnds
      <3> QED
        BY <3>1, <3>2
    <2> QED
      BY <2>1, <2>2
  <1>2. Follower \in Caller /\ DOMAIN todo' = Caller
    BY <1>1, Zenon DEF Caller, IInv, TypesOK
  <1>3. Idle /\ ~Stopping /\ update = "wait" /\ flag.mining = flag.working /\ Held
    BY <1>1, QuietInput
  <1>4. TypesOK' /\ ChannelsOK' /\ panic' = FALSE
    BY <1>1, <1>2, Zenon DEF IInv, TypesOK, ChannelsOK
  <1>5. LoopsOK' /\ Stopping' = Stopping
    <2>1. Stopping' = Stopping /\ Running' = Running
      BY <1>1 DEF Stopping, Running
    <2> QED
      BY <1>1, <2>1, ZenonT(40) DEF IInv, LoopsOK
  <1>6. Room(0)' /\ (sync' = "over" => Room(1)')
    <2>1. PICK n \in Nat : /\ \A l \in Loop : loop[l].at = "none" <=> l > n
                           /\ n + 0 <= calls + (IF sync = "over" THEN 1 ELSE 0)
      BY DEF IInv, Room
    <2>2. /\ n + 0 <= calls' + (IF sync' = "over" THEN 1 ELSE 0)
          /\ sync' = "over" => n + 1 <= calls' + (IF sync' = "over" THEN 1 ELSE 0)
      BY <1>1, <2>1 DEF IInv, TypesOK
    <2> QED
      BY <1>1, <2>1, <2>2 DEF Room
  <1>7. Phase(q)' /\ q # <<>>
    <2>1. CASE q = Sync1 /\ sync' = "running"
      <3>1. q # <<>>
        BY <2>1, SyncPrograms, Zenon DEF Sets, Begins
      <3> QED
        BY <1>1, <1>3, <1>5, <2>1, <3>1, ZenonT(40) DEF Phase
    <2>2. CASE q \in {Over1, Rest1} /\ sync = "running" /\ sync' = "over"
      <3>1. q # <<>>
        BY <2>2, StartPrograms DEF Sets, Begins
      <3>2. Off'
        BY <1>1, <1>3, <2>2 DEF Held, Off
      <3> QED
        BY <1>1, <1>3, <1>5, <1>6, <2>2, <3>1, <3>2, ZenonT(40) DEF Phase
    <2> QED
      BY <1>1, <2>1, <2>2, Zenon
  <1>8. CallersOK'
    BY <1>1, <1>2, <1>3, <1>7, CallerBegins, Zenon
  <1> QED
    BY <1>4, <1>5, <1>6, <1>8, ZenonT(40) DEF IInv

\* A ChainHeadEvent closes quitCh, which is open; worker.update replaces it.
LEMMA HeadInv ==
    ASSUME IInv, (Spaced /\ ChainHead) \/ UpdateQuit
    PROVE  IInv'
  <1>1. CASE Spaced /\ ChainHead
    <2>1. /\ Input /\ heads < MaxHead /\ heads' = heads + 1 /\ update' = "newQuit"
          /\ closed' = closed \cup {chan.quitCh} /\ panic' = (chan.quitCh \in closed)
          /\ UNCHANGED <<flag, chan, todo, loop, sync, calls>>
      BY <1>1 DEF ChainHead, close
    <2>2. /\ Idle /\ ~Stopping /\ chan.quitCh \notin closed /\ flag.mining = flag.working /\ Held
      BY <1>1, <2>1, QuietInput
    <2>3. (chan.quitCh \in closed) = FALSE
      BY <2>2
    <2>4. panic' = FALSE
      BY <2>1, <2>3, Zenon
    <2>5. TypesOK' /\ ChannelsOK'
      <3>1. heads' \in 0 .. MaxHead
        BY <2>1, MinerAssumption DEF IInv, TypesOK
      <3>2. TypesOK'
        BY <2>1, <3>1 DEF IInv, TypesOK
      <3>3. ChannelsOK'
        BY <2>1, Zenon DEF IInv, ChannelsOK
      <3> QED
        BY <3>2, <3>3
    <2>6. ~Stopping' /\ Running' = Running /\ Room(0)'
      BY <2>1, <2>2, SameRoom, ZenonT(40) DEF IInv, ChannelsOK, Stopping, Running
    <2>7. LoopsOK'
      BY <2>1, <2>2, <2>6 DEF IInv, LoopsOK
    <2>8. CallersOK'
      BY <2>1, <2>2, Zenon DEF IInv, CallersOK, Idle, Phase, Held, Noted
    <2> QED
      BY <2>4, <2>5, <2>6, <2>7, <2>8, ZenonT(40) DEF IInv
  <1>2. CASE UpdateQuit
    <2>1. /\ update = "newQuit" /\ update' = "wait"
          /\ chan' = [chan EXCEPT !.quitCh = chan.last + 1, !.last = chan.last + 1]
          /\ UNCHANGED <<flag, closed, todo, loop, sync, calls, heads, panic>>
      BY <1>2, Zenon DEF UpdateQuit, Fresh
    <2>2. /\ Idle /\ ~Stopping
      BY <2>1 DEF IInv, CallersOK, LoopsOK
    <2>3. /\ chan'.stopper = chan.stopper /\ chan'.quitCh = chan.last + 1 /\ chan'.last = chan.last + 1
          /\ chan' \in [quitCh : Nat, stopper : Nat, last : Nat]
      <3>1. chan \in [quitCh : Nat, stopper : Nat, last : Nat] /\ chan.last + 1 \in Nat
        BY DEF IInv, ChannelsOK
      <3> QED
        BY <2>1, <3>1, ZenonT(40)
    <2>4. ChannelsOK' /\ chan'.quitCh \notin closed'
      BY <2>1, <2>3 DEF IInv, ChannelsOK
    <2>5. TypesOK' /\ panic' = FALSE
      BY <2>1 DEF IInv, TypesOK
    <2>6. ~Stopping' /\ Running' = Running /\ Room(0)'
      BY <2>1, <2>2, <2>3, SameRoom DEF IInv, Stopping, Running
    <2>7. LoopsOK'
      BY <2>1, <2>2, <2>3, <2>4, <2>6, ZenonT(40) DEF IInv, LoopsOK
    <2>8. CallersOK'
      BY <2>1, <2>2 DEF IInv, CallersOK, Idle, Phase, Held, Noted
    <2> QED
      BY <2>4, <2>5, <2>6, <2>7, <2>8 DEF IInv
  <1> QED
    BY <1>1, <1>2

-----------------------------------------------------------------------------
(* Steps of the mint loop. *)

\* What one step of the loop that runs leaves alone.
LEMMA LoopMoves ==
    ASSUME IInv, NEW l \in Loop, NEW where \in Places, NEW ch \in Nat,
           l \in Running, where # "none", Goto(l, where, ch),
           UNCHANGED <<flag, todo, sync, update, calls, heads>>
    PROVE  /\ loop' \in [Loop -> [at : Places, on : Nat]]
           /\ loop'[l].at = where /\ loop'[l].on = ch
           /\ \A k \in Loop : k # l => loop'[k] = loop[k] /\ loop[k].at \in {"none", "done"}
           /\ Running' = (IF where = "done" THEN {} ELSE {l})
           /\ TypesOK' /\ Room(0)' /\ (Room(1) => Room(1)')
           /\ ((~Stopping => ~Stopping') => CallersOK')
  <1>1. loop \in [Loop -> [at : Places, on : Nat]] /\ loop' = [loop EXCEPT ![l] = [at |-> where, on |-> ch]]
    BY DEF IInv, LoopsOK, Goto
  <1>2. /\ loop' \in [Loop -> [at : Places, on : Nat]]
        /\ loop'[l].at = where /\ loop'[l].on = ch
        /\ \A k \in Loop : k # l => loop'[k] = loop[k]
    BY <1>1
  <1>3. \A k \in Loop : k # l => loop[k].at \in {"none", "done"}
    BY DEF IInv, LoopsOK, Running
  <1>4. Running' = (IF where = "done" THEN {} ELSE {l})
    BY <1>2, <1>3 DEF Running
  <1>5. TypesOK'
    BY DEF IInv, TypesOK
  <1>6. \A k \in Loop : loop'[k].at = "none" <=> loop[k].at = "none"
    BY <1>2 DEF Running
  <1>7. Room(0)' /\ (Room(1) => Room(1)')
    BY <1>6, Zenon DEF IInv, Room
  <1>8. ASSUME ~Stopping => ~Stopping' PROVE CallersOK'
    <2>1. \A c \in Caller : Phase(todo[c])'
      <3> SUFFICES ASSUME NEW c \in Caller PROVE Phase(todo[c])'
        OBVIOUS
      <3>1. Phase(todo[c])
        BY DEF IInv, CallersOK
      <3>2. Off' = Off /\ On' = On /\ TurnedOn' = TurnedOn /\ Held' = Held /\ Noted' = Noted
        BY SMTT(40) DEF Off, On, TurnedOn, Held, Noted
      <3> QED
        BY <1>7, <1>8, <3>1, <3>2 DEF Phase
    <2> QED
      BY <2>1, ZenonT(40) DEF IInv, CallersOK, Idle, Held, Noted
  <1> QED
    BY <1>2, <1>3, <1>4, <1>5, <1>7, <1>8, ZenonT(40)

\* The steps that leave the channels alone.
LEMMA MintInv ==
    ASSUME IInv, NEW l \in Loop, Select(l) \/ Tick(l) \/ MintBlock(l) \/ Seal(l)
    PROVE  IInv'
  <1>1. PICK where \in {"top", "select", "mint", "seal"}, ch \in Nat :
           /\ Goto(l, where, ch) /\ (where = "select" => ch = chan.stopper)
           /\ loop[l].at \in {"top", "select", "mint", "seal"}
           /\ UNCHANGED <<flag, chan, closed, todo, sync, update, calls, heads, panic>>
    <2>1. chan.stopper \in Nat /\ chan.quitCh \in Nat
      BY Zenon DEF IInv, ChannelsOK
    <2> QED
      BY <2>1, Zenon DEF Select, Tick, MintBlock, Seal, At
  <1>2. l \in Running /\ where \in Places /\ where \notin {"none", "done"}
    BY <1>1, SMTT(40) DEF Running, Places
  <1>3. /\ loop' \in [Loop -> [at : Places, on : Nat]]
        /\ loop'[l].at = where /\ loop'[l].on = ch
        /\ \A k \in Loop : k # l => loop'[k] = loop[k] /\ loop[k].at \in {"none", "done"}
        /\ Running' = {l}
        /\ TypesOK' /\ Room(0)' /\ ((~Stopping => ~Stopping') => CallersOK')
    BY <1>1, <1>2, LoopMoves, ZenonT(40)
  <1>4. Stopping' = Stopping /\ ChannelsOK' /\ panic' = FALSE
    BY <1>1, Zenon DEF Stopping, IInv, ChannelsOK
  <1>5. LoopsOK'
    BY <1>1, <1>2, <1>3, <1>4 DEF IInv, LoopsOK
  <1> QED
    BY <1>3, <1>4, <1>5, Zenon DEF IInv

\* The loop that finds its stopper closed closes quitCh, replaces both and ends.
LEMMA EndInv ==
    ASSUME IInv, NEW l \in Loop, Stopped(l) \/ NewQuit(l) \/ NewStopper(l)
    PROVE  IInv'
  <1>1. CASE Stopped(l)
    <2>1. /\ loop[l].at = "select" /\ loop[l].on \in closed /\ Goto(l, "newQuit", 0)
          /\ closed' = closed \cup {chan.quitCh} /\ panic' = (chan.quitCh \in closed)
          /\ UNCHANGED <<flag, chan, todo, sync, update, calls, heads>>
      BY <1>1, Zenon DEF Stopped, At, close
    <2>2. l \in Running /\ Stopping /\ "newQuit" \in Places /\ 0 \in Nat
      BY <2>1, Zenon DEF Running, Stopping, IInv, LoopsOK, Places
    <2>3. /\ loop' \in [Loop -> [at : Places, on : Nat]]
          /\ loop'[l].at = "newQuit"
          /\ \A k \in Loop : k # l => loop'[k] = loop[k] /\ loop[k].at \in {"none", "done"}
          /\ Running' = {l}
          /\ TypesOK' /\ Room(0)' /\ ((~Stopping => ~Stopping') => CallersOK')
      BY <2>1, <2>2, LoopMoves, ZenonT(40)
    <2>4. (chan.quitCh \in closed) = FALSE /\ update = "wait"
      BY <2>1, <2>2, <2>3 DEF IInv, LoopsOK
    <2>5. panic' = FALSE
      BY <2>1, <2>4, ZenonT(40)
    <2>6. Stopping' /\ ChannelsOK'
      BY <2>1, <2>2, ZenonT(40) DEF Stopping, IInv, ChannelsOK
    <2>7. LoopsOK'
      BY <2>1, <2>2, <2>3, <2>4, <2>6 DEF IInv, LoopsOK
    <2> QED
      BY <2>2, <2>3, <2>5, <2>6, <2>7, ZenonT(40) DEF IInv
  <1>2. CASE NewQuit(l)
    <2>1. /\ loop[l].at = "newQuit" /\ Goto(l, "newStopper", 0)
          /\ chan' = [chan EXCEPT !.quitCh = chan.last + 1, !.last = chan.last + 1]
          /\ UNCHANGED <<flag, closed, todo, sync, update, calls, heads, panic>>
      BY <1>2, Zenon DEF NewQuit, At, Fresh
    <2>2. l \in Running /\ Stopping /\ "newStopper" \in Places /\ 0 \in Nat
      BY <2>1 DEF Running, IInv, LoopsOK, Places
    <2>3. /\ loop' \in [Loop -> [at : Places, on : Nat]]
          /\ loop'[l].at = "newStopper"
          /\ \A k \in Loop : k # l => loop'[k] = loop[k] /\ loop[k].at \in {"none", "done"}
          /\ Running' = {l}
          /\ TypesOK' /\ Room(0)' /\ ((~Stopping => ~Stopping') => CallersOK')
      BY <2>1, <2>2, LoopMoves
    <2>4. /\ chan'.stopper = chan.stopper /\ chan'.quitCh = chan.last + 1 /\ chan'.last = chan.last + 1
          /\ chan' \in [quitCh : Nat, stopper : Nat, last : Nat]
      <3>1. chan \in [quitCh : Nat, stopper : Nat, last : Nat] /\ chan.last + 1 \in Nat
        BY DEF IInv, ChannelsOK
      <3> QED
        BY <2>1, <3>1, Zenon
    <2>5. ChannelsOK' /\ chan'.quitCh \notin closed' /\ panic' = FALSE
      BY <2>1, <2>4 DEF IInv, ChannelsOK
    <2>6. Stopping'
      BY <2>1, <2>2, <2>4 DEF Stopping
    <2>7. LoopsOK'
      BY <2>1, <2>2, <2>3, <2>4, <2>5, <2>6, ZenonT(40) DEF IInv, LoopsOK
    <2> QED
      BY <2>2, <2>3, <2>5, <2>6, <2>7, Zenon DEF IInv
  <1>3. CASE NewStopper(l)
    <2>1. /\ loop[l].at = "newStopper" /\ Goto(l, "done", 0)
          /\ chan' = [chan EXCEPT !.stopper = chan.last + 1, !.last = chan.last + 1]
          /\ UNCHANGED <<flag, closed, todo, sync, update, calls, heads, panic>>
      BY <1>3, Zenon DEF NewStopper, At, Fresh
    <2>2. l \in Running /\ Stopping /\ "done" \in Places /\ 0 \in Nat
      BY <2>1 DEF Running, IInv, LoopsOK, Places
    <2>3. /\ loop' \in [Loop -> [at : Places, on : Nat]]
          /\ loop'[l].at = "done"
          /\ \A k \in Loop : k # l => loop'[k] = loop[k] /\ loop[k].at \in {"none", "done"}
          /\ Running' = {}
          /\ TypesOK' /\ Room(0)' /\ ((~Stopping => ~Stopping') => CallersOK')
      BY <2>1, <2>2, LoopMoves
    <2>4. /\ chan'.quitCh = chan.quitCh /\ chan'.stopper = chan.last + 1 /\ chan'.last = chan.last + 1
          /\ chan' \in [quitCh : Nat, stopper : Nat, last : Nat]
      <3>1. chan \in [quitCh : Nat, stopper : Nat, last : Nat] /\ chan.last + 1 \in Nat
        BY DEF IInv, ChannelsOK
      <3> QED
        BY <2>1, <3>1, Zenon
    <2>5. ChannelsOK' /\ ~Stopping' /\ panic' = FALSE
      BY <2>1, <2>4 DEF IInv, ChannelsOK, Stopping
    <2>6. chan'.quitCh \notin closed'
      BY <2>1, <2>2, <2>3, <2>4, Zenon DEF IInv, LoopsOK
    <2>7. LoopsOK'
      <3>1. flag'.working = FALSE
        BY <2>1, <2>2 DEF IInv, LoopsOK
      <3> QED
        BY <2>1, <2>3, <2>5, <2>6, <3>1, ZenonT(40) DEF LoopsOK
    <2> QED
      BY <2>3, <2>5, <2>7, Zenon DEF IInv
  <1> QED
    BY <1>1, <1>2, <1>3, Zenon

-----------------------------------------------------------------------------
(* The theorems. *)

LEMMA InitInv == Init => IInv
  <1> SUFFICES ASSUME Init PROVE IInv
    OBVIOUS
  <1>1. TypesOK
    <2>1. MaxCall \in Nat /\ MaxHead \in Nat
      BY MinerAssumption
    <2>2. flag \in [Flag -> BOOLEAN]
      BY DEF Init
    <2>3. DOMAIN todo = Caller /\ sync \in {"none", "running", "over"} /\ update \in {"wait", "newQuit"}
      BY DEF Init
    <2>4. calls \in 0 .. MaxCall /\ heads \in 0 .. MaxHead
      BY <2>1 DEF Init
    <2> QED
      BY <2>2, <2>3, <2>4 DEF TypesOK
  <1>2. ChannelsOK
    BY DEF Init, ChannelsOK
  <1>7. flag.mining = FALSE /\ flag.working = FALSE
    BY Zenon DEF Init
  <1>3. Running = {} /\ ~Stopping /\ Idle
    BY DEF Init, Running, Stopping, Idle
  <1>4. LoopsOK
    BY <1>3, <1>7, ZenonT(40) DEF Init, LoopsOK, Places
  <1>5. CallersOK
    BY <1>3, <1>7 DEF Init, CallersOK, Phase, Held, Noted, Idle
  <1>6. Room(0)
    <2>1. \A l \in Loop : loop[l].at = "none" <=> l > 0
      BY DEF Init, Loop
    <2>2. 0 + 0 <= calls + (IF sync = "over" THEN 1 ELSE 0)
      BY DEF Init
    <2> QED
      BY <2>1, <2>2, ZenonT(40) DEF Room
  <1> QED
    BY <1>1, <1>2, <1>4, <1>5, <1>6, ZenonT(40) DEF Init, IInv

LEMMA NextInv ==
    ASSUME Spaced, IInv, [Next]_vars
    PROVE  IInv'
  <1>1. CASE \E u \in User : CallStart(u) \/ CallStop(u)
    BY <1>1, CallInv
  <1>2. CASE \E c \in Caller : CallerStep(c)
    BY <1>2, StoreInv, TestInv, WorkerStartInv, WorkerStopInv DEF CallerStep
  <1>3. CASE SyncStarts \/ SyncEnds
    BY <1>3, SyncInv
  <1>4. CASE ChainHead \/ UpdateQuit
    BY <1>4, HeadInv
  <1>5. CASE \E l \in Loop : LoopStep(l) \/ Tick(l) \/ Stopped(l)
    BY <1>5, MintInv, EndInv DEF LoopStep
  <1>6. CASE UNCHANGED vars
    <2>1. /\ TypesOK' = TypesOK /\ ChannelsOK' = ChannelsOK /\ panic' = panic
      BY <1>6 DEF vars, TypesOK, ChannelsOK
    <2>2. Running' = Running /\ Stopping' = Stopping /\ Idle' = Idle
      BY <1>6, Zenon DEF vars, Running, Stopping, Idle
    <2>3. Room(0)' = Room(0) /\ LoopsOK' = LoopsOK
      BY <1>6, <2>2, SameRoom, ZenonT(40) DEF vars, LoopsOK
    <2>4. CallersOK'
      <3>1. Off' = Off /\ On' = On /\ TurnedOn' = TurnedOn /\ Held' = Held /\ Noted' = Noted /\ Room(1)' = Room(1)
        BY <1>6, SameRoom, Zenon DEF vars, Off, On, TurnedOn, Held, Noted
      <3>2. ASSUME NEW c \in Caller PROVE Phase(todo[c])'
        <4>1. Phase(todo[c])
          BY DEF IInv, CallersOK
        <4>2. todo' = todo /\ sync' = sync /\ flag' = flag
          BY <1>6 DEF vars
        <4> QED
          BY <4>1, <4>2, <2>2, <3>1, ZenonT(40) DEF Phase
      <3> QED
        BY <1>6, <2>2, <3>1, <3>2, ZenonT(40) DEF vars, IInv, CallersOK
    <2> QED
      BY <2>1, <2>3, <2>4, ZenonT(40) DEF IInv
  <1> QED
    BY <1>1, <1>2, <1>3, <1>4, <1>5, <1>6, ZenonT(40) DEF Next

\* The inductive invariant holds in every state: each caller is at a known place of
\* Start, Stop or Miner.update, only one is, and flags, loops and channels fit it.
THEOREM Invariance == ASSUME Spaced PROVE Spec => []IInv
  <1>1. IInv /\ [Next]_vars => IInv'
    BY NextInv
  <1> QED
    BY InitInv, <1>1, PTL DEF Spec

\* worker.stop, mintLoop and worker.update close quitCh and stopper without looking;
\* none of them ever closes a channel that is closed already.
THEOREM NoChannelClosedTwice == ASSUME Spaced PROVE Spec => []NoPanic
  <1>1. IInv => NoPanic
    BY DEF IInv, NoPanic
  <1> QED
    BY Invariance, <1>1, PTL

\* worker.start is never reached while the loop of an earlier start still runs.
THEOREM NeverTwoLoops == ASSUME Spaced PROVE Spec => []OneLoop
  <1>1. IInv => OneLoop
    <2> SUFFICES ASSUME IInv PROVE OneLoop
      OBVIOUS
    <2>1. CASE Running = {}
      BY <2>1, FS_EmptySet DEF OneLoop
    <2>2. CASE Running # {}
      <3>3. PICK l : l \in Running
        BY <2>2
      <3>1. Running = {l}
        BY <3>3 DEF IInv, LoopsOK
      <3>2. Cardinality({l}) = 1
        BY FS_Singleton
      <3> QED
        BY <3>1, <3>2 DEF OneLoop
    <2> QED
      BY <2>1, <2>2
  <1> QED
    BY Invariance, <1>1, PTL

\* The flags of Miner and of worker tell the truth when all calls have returned.
THEOREM FlagsTellTheTruth == ASSUME Spaced PROVE Spec => []LoopIffMining
  <1>1. IInv => LoopIffMining
    <2> SUFFICES ASSUME IInv, Settled PROVE flag.mining = flag.working /\ (flag.mining <=> Running # {})
      BY DEF LoopIffMining
    <2>1. Idle /\ ~Stopping
      BY DEF Settled, Idle, Stopping
    <2>2. flag.mining = flag.working
      BY <2>1 DEF IInv, CallersOK
    <2>3. flag.working = TRUE <=> Running # {}
      BY <2>1 DEF IInv, LoopsOK
    <2>4. flag.mining \in BOOLEAN
      BY ZenonT(40) DEF IInv, TypesOK
    <2> QED
      BY <2>2, <2>3, <2>4
  <1> QED
    BY Invariance, <1>1, PTL

\* Between the handling of the downloader's StartEvent and its end no loop mints,
\* whatever the users of the API call meanwhile.
THEOREM SyncMintsNothing == ASSUME Spaced PROVE Spec => []NoMintingDuringSync
  <1>1. IInv => NoMintingDuringSync
    <2> SUFFICES ASSUME IInv, Settled, sync = "running" PROVE Running = {}
      BY DEF NoMintingDuringSync
    <2>1. Idle /\ ~Stopping
      BY DEF Settled, Idle, Stopping
    <2>2. flag.mining = flag.working /\ flag.mining = FALSE
      BY <2>1 DEF IInv, CallersOK, Held
    <2> QED
      BY <2>1, <2>2 DEF IInv, LoopsOK
  <1> QED
    BY Invariance, <1>1, PTL

=============================================================================
