------------------------------ MODULE SyncCycle -------------------------------
(*****************************************************************************)
(* A cycle of the downloader: its start, cancellation and end, and the       *)
(* processing of the content a fast sync brings.                             *)
(*****************************************************************************)
EXTENDS Integers, Sequences, FiniteSets

-----------------------------------------------------------------------------
(***************************************************************************)
(* One synchronisation cycle after another in eth/downloader/downloader.go:*)
(* synchronise, syncWithPeer and spawnSync, cut at their locks and channel *)
(* operations, against UnregisterPeer, Cancel, Terminate and the deliver   *)
(* calls of the protocol handler.  The fetchers and the content processor  *)
(* are goroutines that return nil or an error when they please, and the    *)
(* cancellation error once cancelCh is closed.                             *)
(***************************************************************************)

CONSTANTS Caller,            \* goroutines calling Synchronise
          Deliverer,         \* peer goroutines with a packet to deliver
          Peer,              \* peer ids
          Fetchers,          \* of headers, bodies, receipts, process (the header processor)
          MaxCycles,         \* bound on the cancel channels made
          MaxPivotFails,     \* fsCriticalTrials
          Heights            \* possible random pivot numbers

VARIABLES synchronising,     \* the flag taken by compare-and-swap
          pc, id, mode,      \* of each caller: position, peer, sync mode
          cancelCh,          \* number of the current cancel channel (0: nil)
          closedCh,          \* the cancel channels already closed
          cancelPeer,        \* master peer
          peers,             \* registered peers
          running, errc,     \* goroutines of spawnSync; results they sent
          queueClosed,
          taken,             \* results read by spawnSync
          unreg,             \* UnregisterPeer in progress: <<>>, <<id, "check">> or <<id, "cancel">>
          dlv,               \* of each deliverer: idle, done or the cancel channel it holds
          room,              \* the delivery channel has room
          pivotLock, pivotFails

vars == <<synchronising, pc, id, mode, cancelCh, closedCh, cancelPeer, peers, running, errc, queueClosed, taken,
          unreg, dlv, room, pivotLock, pivotFails>>
cycle == <<running, errc, queueClosed, taken>>
pivots == <<pivotLock, pivotFails>>

none == "none"
idle == 0
done == -1

Init == /\ synchronising = FALSE
        /\ pc = [c \in Caller |-> "idle"] /\ id \in [Caller -> Peer] /\ mode = [c \in Caller |-> "full"]
        /\ cancelCh = 0 /\ closedCh = {} /\ cancelPeer = none /\ peers = Peer
        /\ running = {} /\ errc = <<>> /\ queueClosed = FALSE /\ taken = 0
        /\ unreg = <<>> /\ dlv = [d \in Deliverer |-> idle] /\ room = FALSE
        /\ pivotLock = 0 /\ pivotFails = 0

Cancelled == cancelCh \in closedCh
Goto(c, l) == pc' = [pc EXCEPT ![c] = l]

----------------------------------------------------------------------------
\* synchronise: only one caller gets past the flag; the others return errBusy.
Enter(c) ==
    /\ pc[c] = "idle" /\ cancelCh < MaxCycles
    /\ IF synchronising THEN UNCHANGED <<pc, synchronising, queueClosed, room>>
       ELSE /\ synchronising' = TRUE /\ Goto(c, "reset")
            /\ queueClosed' = FALSE      \* queue.Reset
            /\ room' = TRUE              \* the channels are drained
    /\ UNCHANGED <<id, mode, cancelCh, closedCh, cancelPeer, peers, running, errc, taken, unreg, dlv, pivots>>

\* A fresh cancel channel and the master peer, under cancelLock.
MakeCancel(c) ==
    /\ pc[c] = "reset"
    /\ cancelCh' = cancelCh + 1 /\ cancelPeer' = id[c]
    /\ mode' \in {[mode EXCEPT ![c] = m] : m \in IF pivotFails >= MaxPivotFails THEN {"full"} ELSE {"full", "fast"}}
    /\ Goto(c, "lookup")
    /\ UNCHANGED <<synchronising, id, closedCh, peers, cycle, unreg, dlv, room, pivots>>

\* peers.Peer(id); then fetchHeight and findAncestor, which may fail.
Lookup(c) ==
    /\ pc[c] = "lookup"
    /\ \/ id[c] \in peers /\ Goto(c, "spawn")
       \/ Goto(c, "leave")
    /\ UNCHANGED <<synchronising, id, mode, cancelCh, closedCh, cancelPeer, peers, cycle, unreg, dlv, room, pivots>>

\* The pivot of a fast sync: the locked one, or a random one below the height.
PivotOf == IF pivotLock # 0 THEN {pivotLock} ELSE Heights

spawnSync(c) ==
    /\ pc[c] = "spawn"
    /\ running' = Fetchers \cup {"content"} /\ errc' = <<>> /\ taken' = 0
    /\ Goto(c, "wait")
    /\ UNCHANGED <<synchronising, id, mode, cancelCh, closedCh, cancelPeer, peers, queueClosed, unreg, dlv, room, pivots>>

\* A goroutine ends.  The content processor returns nil only when the queue closes;
\* a failed header processor of a fast sync may lock the pivot in.
Return(c, g, err) ==
    /\ pc[c] \in {"wait", "drain"} /\ g \in running
    /\ ~err => g # "content" \/ queueClosed
    /\ running' = running \ {g} /\ errc' = Append(errc, err)
    /\ \/ UNCHANGED pivotLock
       \/ /\ g = "process" /\ err /\ mode[c] = "fast" /\ pivotFails = 0
          /\ pivotLock' \in PivotOf
    /\ UNCHANGED <<synchronising, pc, id, mode, cancelCh, closedCh, cancelPeer, peers, queueClosed, taken, unreg, dlv, room, pivotFails>>

\* The loop of spawnSync: read results until one is an error or all are in; the
\* queue is closed when only one is missing.
Collect(c) ==
    /\ pc[c] = "wait"
    /\ \/ /\ taken = Cardinality(Fetchers) /\ ~queueClosed
          /\ queueClosed' = TRUE /\ UNCHANGED <<taken, pc, closedCh>>
       \/ /\ taken < Len(errc) /\ (taken = Cardinality(Fetchers) => queueClosed)
          /\ taken' = taken + 1
          /\ IF errc[taken + 1] \/ taken = Cardinality(Fetchers)
             THEN /\ queueClosed' = TRUE /\ closedCh' = closedCh \cup {cancelCh} /\ Goto(c, "drain")
             ELSE UNCHANGED <<queueClosed, closedCh, pc>>
    /\ UNCHANGED <<synchronising, id, mode, cancelCh, cancelPeer, peers, running, errc, unreg, dlv, room, pivots>>

\* Mutant of Leave: a cycle that fails early leaves its cancel channel open.
LeaveOpen(c) ==
    /\ \/ pc[c] = "leave" /\ UNCHANGED <<pivotFails, closedCh>>
       \/ /\ pc[c] = "drain" /\ running = {}
          /\ pivotFails' = IF \E i \in DOMAIN errc : errc[i] /\ mode[c] = "fast" /\ pivotLock # 0
                           THEN pivotFails + 1 ELSE pivotFails
          /\ closedCh' = closedCh \cup {cancelCh}
    /\ synchronising' = FALSE /\ Goto(c, "idle")
    /\ UNCHANGED <<id, mode, cancelCh, cancelPeer, peers, cycle, unreg, dlv, room, pivotLock>>

\* wg.Wait, the pivot failure count, the deferred Cancel and the flag.
Leave(c) ==
    /\ \/ pc[c] = "leave" /\ UNCHANGED pivotFails
       \/ /\ pc[c] = "drain" /\ running = {}
          /\ pivotFails' = IF \E i \in DOMAIN errc : errc[i] /\ mode[c] = "fast" /\ pivotLock # 0
                           THEN pivotFails + 1 ELSE pivotFails
    /\ closedCh' = closedCh \cup {cancelCh}
    /\ synchronising' = FALSE /\ Goto(c, "idle")
    /\ UNCHANGED <<id, mode, cancelCh, cancelPeer, peers, cycle, unreg, dlv, room, pivotLock>>

----------------------------------------------------------------------------
\* UnregisterPeer: leave the set, compare with the master, perhaps Cancel: three steps.
Unregister(p) ==
    /\ unreg = <<>> /\ p \in peers
    /\ peers' = peers \ {p} /\ unreg' = <<p, "check">>
    /\ UNCHANGED <<synchronising, pc, id, mode, cancelCh, closedCh, cancelPeer, cycle, dlv, room, pivots>>

\* Mutant of CheckMaster: the loss of the master is not noticed.
CheckMasterNever ==
    /\ unreg # <<>> /\ unreg[2] = "check" /\ unreg' = <<>>
    /\ UNCHANGED <<synchronising, pc, id, mode, cancelCh, closedCh, cancelPeer, peers, cycle, dlv, room, pivots>>

CheckMaster ==
    /\ unreg # <<>> /\ unreg[2] = "check"
    /\ unreg' = IF unreg[1] = cancelPeer THEN <<unreg[1], "cancel">> ELSE <<>>
    /\ UNCHANGED <<synchronising, pc, id, mode, cancelCh, closedCh, cancelPeer, peers, cycle, dlv, room, pivots>>

Cancel ==
    /\ unreg # <<>> /\ unreg[2] = "cancel"
    /\ unreg' = <<>>
    /\ closedCh' = IF cancelCh = 0 THEN closedCh ELSE closedCh \cup {cancelCh}
    /\ UNCHANGED <<synchronising, pc, id, mode, cancelCh, cancelPeer, peers, cycle, dlv, room, pivots>>

\* deliver: read the cancel channel, then send the packet or see the channel closed.
ReadCancel(d) ==
    /\ dlv[d] = idle
    /\ dlv' = [dlv EXCEPT ![d] = IF cancelCh = 0 THEN done ELSE cancelCh]
    /\ UNCHANGED <<synchronising, pc, id, mode, cancelCh, closedCh, cancelPeer, peers, cycle, unreg, room, pivots>>

Send(d) ==
    /\ dlv[d] > 0
    /\ \/ room /\ room' = FALSE
       \/ dlv[d] \in closedCh /\ UNCHANGED room
    /\ dlv' = [dlv EXCEPT ![d] = done]
    /\ UNCHANGED <<synchronising, pc, id, mode, cancelCh, closedCh, cancelPeer, peers, cycle, unreg, pivots>>

\* A fetcher takes a packet off the channel.
Receive ==
    /\ \E c \in Caller : pc[c] \in {"lookup", "wait"}
    /\ ~room /\ room' = TRUE
    /\ UNCHANGED <<synchronising, pc, id, mode, cancelCh, closedCh, cancelPeer, peers, cycle, unreg, dlv, pivots>>

Step(c) == \/ MakeCancel(c) \/ Lookup(c) \/ spawnSync(c) \/ Collect(c) \/ Leave(c)
           \/ Cancelled /\ \E g \in running : Return(c, g, TRUE)

Next == \/ \E c \in Caller : \/ Enter(c) \/ Step(c)
                             \/ \E g \in running, err \in BOOLEAN : Return(c, g, err)
        \/ \E p \in Peer : Unregister(p)
        \/ CheckMaster \/ Cancel \/ Receive
        \/ \E d \in Deliverer : ReadCancel(d) \/ Send(d)

Spec == Init /\ [][Next]_vars

\* Every goroutine past its blocking point goes on; the fetchers notice a closed
\* cancel channel.  Nothing makes a fetcher finish otherwise.
Fair == /\ \A c \in Caller : WF_vars(Step(c))
        /\ WF_vars(CheckMaster \/ Cancel)
        /\ \A d \in Deliverer : WF_vars(Send(d))

TypeOK == /\ synchronising \in BOOLEAN /\ queueClosed \in BOOLEAN /\ room \in BOOLEAN
          /\ cancelCh \in 0..MaxCycles /\ closedCh \subseteq 1..MaxCycles
          /\ running \subseteq Fetchers \cup {"content"} /\ taken \in 0..(Cardinality(Fetchers) + 1) /\ peers \subseteq Peer

\* One cycle at a time, with its own open-then-closed cancel channel: while no cycle
\* is past the flag every cancel channel ever made is closed, so no deliver call can
\* stay blocked on a finished cycle; and nothing of a cycle outlives it.
CycleExclusive ==
    /\ Cardinality({c \in Caller : pc[c] # "idle"}) <= 1
    /\ synchronising <=> \E c \in Caller : pc[c] # "idle"
    /\ (1..cancelCh) \ closedCh \subseteq {cancelCh}
    /\ ~synchronising => running = {} /\ 1..cancelCh = closedCh

\* A cycle whose master peer is unregistered is cancelled: the master cannot slip
\* away between the look-up and the comparison in UnregisterPeer.
MasterLossEndsCycle ==
    \A c \in Caller : (pc[c] = "wait" /\ id[c] \notin peers) ~> (pc[c] = "idle")

\* Every deliver call returns once its cycle is cancelled or over.
DeliverReturns ==
    \A d \in Deliverer : (dlv[d] > 0 /\ cancelCh \in closedCh) ~> dlv[d] = done

-----------------------------------------------------------------------------
(***************************************************************************)
(* The content side of a fast synchronisation                               *)
(* (src/pkg/eth/downloader/downloader.go): results leave the queue in       *)
(* order, those before the pivot are stored with their receipts, the pivot  *)
(* becomes the head once its state and the tries of its PoC context are     *)
(* there, and those behind it are executed.  The state of the reported head *)
(* is fetched meanwhile; its goroutine closes the queue when that fails.    *)
(***************************************************************************)

CONSTANTS Height,             \* block number of the reported head
          Pivots,             \* possible numbers of the pivot block; 0: full import only
          fsHeaderForceVerify,
          maxResultsProcess,
          PocRoots,           \* number of tries of a PoC context
          MayFail             \* whether fetching, execution and shutdown may end things early

Block == 1 .. Height

VARIABLES pivot, slot, fastTaken, closed,   \* queue: state of each result, how many left it, Close
          headState,                    \* sync of the latest root
          waiter,                       \* the goroutine behind it
          fastPc, before, after, atPivot,   \* processFastSyncContent and its results
          roots,                        \* tries of the pivot fetched so far
          stored, executed, head, quit, ret
fastVars == <<pivot, slot, fastTaken, closed, headState, waiter, fastPc, before, after, atPivot, roots,
              stored, executed, head, quit, ret>>
queue == <<slot, fastTaken, closed>>
batch == <<before, after, atPivot>>
chain == <<stored, executed, head>>

FastInit ==
  /\ pivot \in Pivots
  /\ slot = [n \in Block |-> "none"] /\ fastTaken = 0 /\ closed = FALSE
  /\ headState = "running" /\ waiter = "waiting"
  /\ fastPc = "wait" /\ before = {} /\ after = {} /\ atPivot = FALSE /\ roots = 0
  /\ stored = {} /\ executed = {} /\ head = 0 /\ quit = FALSE /\ ret = "none"

\* The fetchers reserve results in order and complete them in any order;
\* spawnSync closes the queue when they have all ended.
Reserve(n) == /\ slot[n] = "none" /\ (n > 1 => slot[n - 1] # "none")
              /\ slot' = [slot EXCEPT ![n] = "pending"]
              /\ UNCHANGED <<pivot, fastTaken, closed, headState, waiter, fastPc, batch, roots, chain, quit, ret>>
Complete(n) == /\ slot[n] = "pending" /\ slot' = [slot EXCEPT ![n] = "done"]
               /\ UNCHANGED <<pivot, fastTaken, closed, headState, waiter, fastPc, batch, roots, chain, quit, ret>>
FetchersEnd == /\ ~closed /\ \A n \in Block : slot[n] = "done"
               /\ closed' = TRUE
               /\ UNCHANGED <<pivot, slot, fastTaken, headState, waiter, fastPc, batch, roots, chain, quit, ret>>

\* The sync of the latest root ends, and the goroutine that waits for it.
StateEnds(how) ==
  /\ headState = "running" /\ (how = "failed" => MayFail)
  /\ headState' = how
  /\ UNCHANGED <<pivot, queue, waiter, fastPc, batch, roots, chain, quit, ret>>
WaiterEnds ==
  /\ waiter = "waiting" /\ headState # "running"
  /\ waiter' = "ended"
  /\ closed' = (closed \/ headState # "done")
  /\ UNCHANGED <<pivot, slot, fastTaken, headState, fastPc, batch, roots, chain, quit, ret>>

Terminate == /\ MayFail /\ ~quit /\ quit' = TRUE
             /\ UNCHANGED <<pivot, queue, headState, waiter, fastPc, batch, roots, chain, ret>>

-----------------------------------------------------------------------------
\* countProcessableItems: the pivot waits for the slots behind it.
Ready(n) == /\ slot[n] = "done"
            /\ n = pivot => \A j \in 1 .. fsHeaderForceVerify : n + j \in Block /\ slot[n + j] # "none"
Processable(k) == /\ \A n \in fastTaken + 1 .. k : Ready(n)
                  /\ k < Height => ~Ready(k + 1)

FastReturn(how) == fastPc' = "returned" /\ ret' = how

\* Cancel waits for the loop to end and returns what the sync ended with.
FastCancelled == IF headState = "running" THEN "cancelled" ELSE headState
Outcome(state) == IF state = "done" THEN "ok" ELSE state

\* Results are consecutive blocks; a list of them is the set of their numbers.
splitAroundPivot(ns) ==
  /\ before' = {n \in ns : n < pivot}
  /\ atPivot' = (pivot \in ns)
  /\ after' = {n \in ns : n > pivot}

\* WaitResults with something to process, and with nothing: the queue is closed.
WaitResults ==
  /\ fastPc = "wait"
  /\ \E k \in fastTaken + 1 .. Height : Processable(k) /\ fastTaken' = k /\ splitAroundPivot(fastTaken + 1 .. k)
  /\ fastPc' = "before"
  /\ UNCHANGED <<pivot, slot, closed, headState, waiter, roots, chain, quit, ret>>
NoMoreResults ==
  /\ fastPc = "wait" /\ Processable(fastTaken) /\ closed
  /\ headState' = FastCancelled
  /\ FastReturn(Outcome(FastCancelled))
  /\ UNCHANGED <<pivot, queue, waiter, batch, roots, chain, quit>>

\* The first of some results, and the batch of at most maxResultsProcess they begin with.
First(ns) == CHOOSE n \in ns : \A k \in ns : n <= k
Items(ns) == {n \in ns : n < First(ns) + maxResultsProcess}
Last(ns) == CHOOSE n \in ns : \A k \in ns : k <= n

\* commitFastSyncData, one batch: InsertReceiptChain stores bodies and receipts.
commitFastSyncData ==
  /\ fastPc = "before"
  /\ \/ /\ before = {} /\ fastPc' = "pivot" /\ UNCHANGED <<ret, before, stored>>
     \/ /\ before # {}
        /\ \/ quit /\ FastReturn("content cancelled") /\ UNCHANGED <<before, stored>>
           \/ ~quit /\ headState \in {"failed", "cancelled"} /\ FastReturn(headState) /\ UNCHANGED <<before, stored>>
           \/ /\ ~quit /\ headState \in {"running", "done"}
              /\ stored' = stored \cup Items(before)
              /\ before' = before \ Items(before)
              /\ UNCHANGED <<fastPc, ret>>
  /\ UNCHANGED <<pivot, queue, headState, waiter, after, atPivot, roots, executed, head, quit>>

\* The pivot among the results: the sync of the latest root is given up.
StartPivot ==
  /\ fastPc = "pivot"
  /\ IF atPivot THEN fastPc' = "roots" /\ headState' = FastCancelled /\ roots' = 0
     ELSE fastPc' = "after" /\ UNCHANGED <<headState, roots>>
  /\ UNCHANGED <<pivot, queue, waiter, batch, chain, quit, ret>>

\* commitPivotBlock, syncPocContextState: the state trie, then the tries of the
\* context, one after the other.
SyncRoot ==
  /\ fastPc = "roots" /\ roots < 1 + PocRoots
  /\ \/ roots' = roots + 1 /\ UNCHANGED <<fastPc, ret>>
     \/ MayFail /\ FastReturn("failed") /\ UNCHANGED roots
  /\ UNCHANGED <<pivot, queue, headState, waiter, batch, chain, quit>>

\* The pivot is stored and set as the head.
FastSyncCommitHead ==
  /\ fastPc = "roots" /\ roots = 1 + PocRoots
  /\ stored' = stored \cup {pivot} /\ head' = pivot /\ fastPc' = "after"
  /\ UNCHANGED <<pivot, queue, headState, waiter, batch, roots, executed, quit, ret>>

\* importBlockResults, one batch: InsertChain executes on the parent's state.
importBlockResults ==
  /\ fastPc = "after"
  /\ \/ /\ after = {} /\ fastPc' = "wait" /\ UNCHANGED <<ret, after, stored, executed, head>>
     \/ /\ after # {}
        /\ \/ quit /\ FastReturn("content cancelled") /\ UNCHANGED <<after, stored, executed, head>>
           \/ /\ ~quit /\ (MayFail \/ head # First(after) - 1)
              /\ FastReturn("invalid chain") /\ UNCHANGED <<after, stored, executed, head>>
           \/ /\ ~quit /\ head = First(after) - 1
              /\ stored' = stored \cup Items(after)
              /\ executed' = executed \cup Items(after)
              /\ head' = Last(Items(after))
              /\ after' = after \ Items(after)
              /\ UNCHANGED <<fastPc, ret>>
  /\ UNCHANGED <<pivot, queue, headState, waiter, before, atPivot, roots, quit>>

FastNext ==
  \/ \E n \in Block : Reserve(n) \/ Complete(n)
  \/ \E how \in {"done", "failed"} : StateEnds(how)
  \/ FetchersEnd \/ WaiterEnds \/ Terminate \/ WaitResults \/ NoMoreResults \/ commitFastSyncData
  \/ StartPivot \/ SyncRoot \/ FastSyncCommitHead \/ importBlockResults

FastSpec == FastInit /\ [][FastNext]_fastVars

-----------------------------------------------------------------------------
FastTypeOK == /\ fastTaken \in 0 .. Height /\ roots \in 0 .. 1 + PocRoots /\ head \in 0 .. Height
              /\ stored \subseteq Block /\ executed \subseteq stored

\* The head always has all blocks below it stored, and its own state: it was
\* executed on the block before it, or it is the pivot with every trie of its
\* state and its PoC context; nothing up to the pivot is executed; and content
\* processing that ends without an error has left no result behind.
ContentExact ==
  /\ 1 .. head \subseteq stored
  /\ head > 0 => head \in executed \/ (head = pivot /\ roots = 1 + PocRoots)
  /\ \A n \in executed : n > pivot
  /\ ret = "ok" => head = Height

=============================================================================
