--------------------------- MODULE SyncCycleProofs ---------------------------
(***************************************************************************)
(* Proofs about SyncCycle, for any number of callers, peers and fetchers,  *)
(* any chain and any pivot.                                                *)
(***************************************************************************)
EXTENDS SyncCycle, FiniteSetTheorems, TLAPS

-----------------------------------------------------------------------------
(* One cycle at a time. *)

Place == {"idle", "reset", "lookup", "spawn", "wait", "drain", "leave"}

\* The flag admits one caller; it is the only one that makes a cancel channel,
\* and it does so when all earlier ones are closed; goroutines run while it
\* waits for them only.
IInv ==
    /\ synchronising \in BOOLEAN /\ pc \in [Caller -> Place] /\ cancelCh \in Nat
    /\ \A c, d \in Caller : pc[c] # "idle" /\ pc[d] # "idle" => c = d
    /\ synchronising = TRUE <=> \E c \in Caller : pc[c] # "idle"
    /\ closedCh \subseteq 1 .. cancelCh /\ 1 .. cancelCh \subseteq closedCh \cup {cancelCh}
    /\ (\A c \in Caller : pc[c] \in {"idle", "reset"}) => 1 .. cancelCh \subseteq closedCh
    /\ (\A c \in Caller : pc[c] \notin {"wait", "drain"}) => running = {}
    /\ \A c \in Caller : pc[c] \notin {"idle", "reset"} => cancelCh > 0

LEMMA CycleInit == Init => IInv
<1>. SUFFICES ASSUME Init PROVE IInv
  OBVIOUS
<1>1. \A c \in Caller : pc[c] = "idle"
  BY DEF Init
<1>2. 1 .. 0 = {} /\ synchronising = FALSE
  BY DEF Init
<1>. QED  BY <1>1, <1>2, Zenon DEF Init, IInv, Place

LEMMA EnterInv == ASSUME IInv, NEW c \in Caller, Enter(c) PROVE IInv'
<1>1. CASE synchronising
  BY <1>1 DEF IInv, Enter, Place
<1>2. CASE ~synchronising
  <2>1. \A d \in Caller : pc[d] = "idle"
    BY <1>2, Zenon DEF IInv
  <2>2. pc' = [pc EXCEPT ![c] = "reset"] /\ synchronising' = TRUE /\ UNCHANGED <<cancelCh, closedCh, running>>
    BY <1>2 DEF Enter, Goto
  <2>. QED  BY <2>1, <2>2 DEF IInv, Place
<1>. QED  BY <1>1, <1>2

\* The other callers are idle while one is not.
LEMMA Others ==
    ASSUME IInv, NEW c \in Caller, pc[c] # "idle"
    PROVE  synchronising = TRUE /\ \A d \in Caller : d # c => pc[d] = "idle"
BY DEF IInv

LEMMA MakeCancelInv == ASSUME IInv, NEW c \in Caller, MakeCancel(c) PROVE IInv'
<1>1. /\ synchronising = TRUE /\ \A d \in Caller : d # c => pc[d] = "idle"
  BY Others, Zenon DEF MakeCancel
<1>2. pc[c] = "reset" /\ pc' = [pc EXCEPT ![c] = "lookup"] /\ cancelCh' = cancelCh + 1
      /\ UNCHANGED <<synchronising, closedCh, running>>
  BY DEF MakeCancel, Goto, cycle
<1>3. 1 .. cancelCh \subseteq closedCh /\ closedCh \subseteq 1 .. cancelCh /\ running = {} /\ cancelCh \in Nat
  BY <1>1, <1>2 DEF IInv
<1>4. closedCh' \subseteq 1 .. cancelCh' /\ 1 .. cancelCh' \subseteq closedCh' \cup {cancelCh'} /\ cancelCh' > 0
  BY <1>2, <1>3
<1>. QED  BY <1>1, <1>2, <1>3, <1>4 DEF IInv, Place

LEMMA LookupInv == ASSUME IInv, NEW c \in Caller, Lookup(c) PROVE IInv'
<1>1. \A d \in Caller : d # c => pc[d] = "idle"
  BY Others, Zenon DEF Lookup
<1>2. /\ pc[c] = "lookup" /\ pc' \in {[pc EXCEPT ![c] = "spawn"], [pc EXCEPT ![c] = "leave"]}
      /\ UNCHANGED <<synchronising, cancelCh, closedCh, running>>
  BY DEF Lookup, Goto, cycle
<1>. QED  BY <1>1, <1>2 DEF IInv, Place

LEMMA SpawnInv == ASSUME IInv, NEW c \in Caller, spawnSync(c) PROVE IInv'
<1>1. \A d \in Caller : d # c => pc[d] = "idle"
  BY Others, Zenon DEF spawnSync
<1>2. pc[c] = "spawn" /\ pc' = [pc EXCEPT ![c] = "wait"] /\ UNCHANGED <<synchronising, cancelCh, closedCh>>
  BY DEF spawnSync, Goto
<1>. QED  BY <1>1, <1>2 DEF IInv, Place

LEMMA ReturnInv ==
    ASSUME IInv, NEW c \in Caller, NEW g \in running, NEW err, Return(c, g, err)
    PROVE  IInv'
<1>1. pc[c] \in {"wait", "drain"} /\ UNCHANGED <<synchronising, pc, cancelCh, closedCh>>
  BY DEF Return
<1>. QED  BY <1>1 DEF IInv, Place

LEMMA CollectInv == ASSUME IInv, NEW c \in Caller, Collect(c) PROVE IInv'
<1>1. \A d \in Caller : d # c => pc[d] = "idle"
  BY Others, Zenon DEF Collect
<1>2. /\ pc[c] = "wait" /\ UNCHANGED <<synchronising, cancelCh, running>>
      /\ \/ UNCHANGED <<pc, closedCh>>
         \/ pc' = [pc EXCEPT ![c] = "drain"] /\ closedCh' = closedCh \cup {cancelCh}
  BY DEF Collect, Goto
<1>3. cancelCh \in 1 .. cancelCh
  BY <1>2 DEF IInv
<1>. QED  BY <1>1, <1>2, <1>3, Zenon DEF IInv, Place

LEMMA LeaveInv == ASSUME IInv, NEW c \in Caller, Leave(c) PROVE IInv'
<1>1. \A d \in Caller : d # c => pc[d] = "idle"
  BY Others, Zenon DEF Leave
<1>2. /\ pc[c] = "leave" \/ (pc[c] = "drain" /\ running = {})
      /\ pc' = [pc EXCEPT ![c] = "idle"] /\ synchronising' = FALSE
      /\ closedCh' = closedCh \cup {cancelCh} /\ UNCHANGED <<cancelCh, running>>
  BY DEF Leave, Goto, cycle
<1>3. cancelCh \in 1 .. cancelCh /\ running = {}
  BY <1>1, <1>2 DEF IInv
<1>. QED  BY <1>1, <1>2, <1>3, Zenon DEF IInv, Place

LEMMA CancelInv == ASSUME IInv, Cancel PROVE IInv'
<1>1. /\ UNCHANGED <<synchronising, pc, cancelCh, running>>
      /\ closedCh' = IF cancelCh = 0 THEN closedCh ELSE closedCh \cup {cancelCh}
  BY DEF Cancel, cycle
<1>2. cancelCh # 0 => cancelCh \in 1 .. cancelCh
  BY DEF IInv
<1>. QED  BY <1>1, <1>2 DEF IInv, Place

LEMMA CycleNext == IInv /\ [Next]_vars => IInv'
<1>. SUFFICES ASSUME IInv, [Next]_vars PROVE IInv'
  OBVIOUS
<1>1. ASSUME UNCHANGED <<synchronising, pc, cancelCh, closedCh, running>> PROVE IInv'
  BY <1>1 DEF IInv, Place
<1>2. CASE UNCHANGED vars
  BY <1>1, <1>2 DEF vars
<1>3. CASE \E p \in Peer : Unregister(p)
  BY <1>1, <1>3 DEF Unregister, cycle
<1>4. CASE CheckMaster
  BY <1>1, <1>4 DEF CheckMaster, cycle
<1>5. CASE Receive
  BY <1>1, <1>5 DEF Receive, cycle
<1>6. CASE \E d \in Deliverer : ReadCancel(d) \/ Send(d)
  BY <1>1, <1>6 DEF ReadCancel, Send, cycle
<1>7. ASSUME NEW c \in Caller, Step(c) PROVE IInv'
  BY <1>7, MakeCancelInv, LookupInv, SpawnInv, CollectInv, LeaveInv, ReturnInv, Zenon DEF Step
<1>8. ASSUME NEW c \in Caller, \E g \in running, err \in BOOLEAN : Return(c, g, err) PROVE IInv'
  BY <1>8, ReturnInv
<1>. QED  BY <1>2, <1>3, <1>4, <1>5, <1>6, <1>7, <1>8, EnterInv, CancelInv DEF Next

LEMMA CycleInvariance == Spec => []IInv
BY CycleInit, CycleNext, PTL DEF Spec

\* The flag of synchronise lets one cycle run at a time, and a cycle that is over
\* has closed its cancel channel and left no goroutine (synchronise, spawnSync,
\* Cancel), however many callers and however peers are unregistered.
THEOREM OneCycleAtATime == Spec => []CycleExclusive
<1>1. IInv => CycleExclusive
  <2>. SUFFICES ASSUME IInv PROVE CycleExclusive
    OBVIOUS
  <2>. DEFINE A == {c \in Caller : pc[c] # "idle"}
  <2>1. Cardinality(A) <= 1
    <3>1. CASE A = {}
      BY <3>1, FS_EmptySet
    <3>2. CASE A # {}
      <4>1. PICK c \in A : A = {c}
        BY <3>2 DEF IInv
      <4>2. Cardinality({c}) = 1
        BY FS_Singleton
      <4>. HIDE DEF A
      <4>. QED  BY <4>1, <4>2
    <3>. QED  BY <3>1, <3>2
  <2>2. synchronising <=> \E c \in Caller : pc[c] # "idle"
    BY Zenon DEF IInv
  <2>3. (1 .. cancelCh) \ closedCh \subseteq {cancelCh}
    BY DEF IInv
  <2>4. ~synchronising => running = {} /\ 1 .. cancelCh = closedCh
    <3>. SUFFICES ASSUME ~synchronising PROVE running = {} /\ 1 .. cancelCh = closedCh
      OBVIOUS
    <3>1. \A c \in Caller : pc[c] = "idle"
      BY <2>2
    <3>. QED  BY <3>1, Zenon DEF IInv
  <2>. QED  BY <2>1, <2>2, <2>3, <2>4 DEF CycleExclusive
<1>. QED  BY <1>1, CycleInvariance, PTL

-----------------------------------------------------------------------------
(* The content of a fast synchronisation. *)

\* A pivot has room for the headers that verify it (fsMinFullBlocks is larger than
\* fsHeaderForceVerify), and a batch is never empty.
FastSound ==
    /\ Height \in Nat /\ fsHeaderForceVerify \in Nat /\ PocRoots \in Nat
    /\ maxResultsProcess \in Nat \ {0}
    /\ \A p \in Pivots : p \in Nat /\ (p > 0 => p + fsHeaderForceVerify <= Height)

\* What is left of the results taken from the queue when the blocks up to m are done.
Left(m) == {n \in m + 1 .. fastTaken : n > pivot}

\* Everything up to m has been processed: it is stored, what lies behind the pivot
\* executed, and the head is m if the pivot is among it.
Processed(m) ==
    /\ stored = 1 .. m /\ executed = pivot + 1 .. m
    /\ head = (IF m >= pivot THEN m ELSE 0)
    /\ m >= pivot /\ pivot > 0 => roots = 1 + PocRoots

Position(m) ==
    /\ fastPc = "wait" => m = fastTaken
    /\ fastPc = "before" => before = {n \in m + 1 .. fastTaken : n < pivot}
    /\ fastPc = "pivot" => m = fastTaken \/ m + 1 >= pivot
    /\ fastPc \in {"before", "pivot"} =>
          after = Left(m) /\ (atPivot = TRUE <=> m < pivot /\ pivot <= fastTaken)
    /\ fastPc = "roots" => m + 1 = pivot /\ pivot <= fastTaken /\ after = Left(pivot)
    /\ fastPc = "after" => after = m + 1 .. fastTaken /\ (m < fastTaken => m >= pivot)

FastTypes ==
    /\ pivot \in Pivots /\ fastTaken \in 0 .. Height /\ roots \in Nat
    /\ slot \in [Block -> {"none", "pending", "done"}]
    /\ headState \in {"running", "done", "failed", "cancelled"}
    /\ fastPc \in {"wait", "before", "pivot", "roots", "after", "returned"}
    /\ closed \in BOOLEAN /\ atPivot \in BOOLEAN

\* The queue is closed when everything has arrived, or for a failure.
ClosedForCause ==
    closed = TRUE => headState \in {"failed", "cancelled"} \/ \A n \in Block : slot[n] = "done"

FastInv ==
    /\ FastTypes /\ ClosedForCause
    /\ \E m \in 0 .. fastTaken : Processed(m) /\ Position(m)
    /\ ret = "ok" => fastPc = "returned" /\ head = Height

LEMMA FastInitInv == ASSUME FastSound, FastInit PROVE FastInv
<1>1. FastTypes
  <2>1. 0 \in 0 .. Height
    BY DEF FastSound
  <2>2. closed \in BOOLEAN /\ atPivot \in BOOLEAN
    BY Zenon DEF FastInit
  <2>. QED  BY <2>1, <2>2 DEF FastInit, FastTypes
<1>2. pivot \in Nat /\ 1 .. 0 = {} /\ pivot + 1 .. 0 = {} /\ 0 \in 0 .. 0
  BY DEF FastInit, FastSound
<1>3. Processed(0) /\ Position(0)
  BY <1>2 DEF FastInit, Processed, Position
<1>4. ClosedForCause /\ ret # "ok" /\ fastTaken = 0
  BY DEF FastInit, ClosedForCause
<1>. QED  BY <1>1, <1>2, <1>3, <1>4 DEF FastInv

\* Steps that leave content processing where it is.
LEMMA QueueSteps ==
    ASSUME FastInv, FastTypes', ClosedForCause',
           UNCHANGED <<pivot, fastTaken, fastPc, before, after, atPivot, roots, stored, executed, head, ret>>
    PROVE  FastInv'
BY DEF FastInv, Processed, Position, Left

\* The frontier, with its numbers.
LEMMA Frontier ==
    ASSUME FastSound, FastInv
    PROVE  \E m \in 0 .. fastTaken : /\ Processed(m) /\ Position(m)
                                     /\ m \in Nat /\ pivot \in Nat /\ fastTaken \in Nat /\ m <= fastTaken
BY DEF FastSound, FastInv, FastTypes

\* A return with an error leaves everything as it is.
LEMMA FailedReturn ==
    ASSUME FastInv, FastTypes', ClosedForCause', fastPc' = "returned", ret' # "ok",
           UNCHANGED <<pivot, fastTaken, roots, stored, executed, head>>
    PROVE  FastInv'
BY DEF FastInv, Processed, Position

LEMMA WaitResultsInv == ASSUME FastSound, FastInv, WaitResults PROVE FastInv'
<1>1. PICK m \in 0 .. fastTaken : /\ Processed(m) /\ Position(m)
                                  /\ m \in Nat /\ pivot \in Nat /\ fastTaken \in Nat /\ m <= fastTaken
  BY Frontier
<1>2. /\ fastPc = "wait" /\ fastPc' = "before"
      /\ UNCHANGED <<pivot, slot, closed, headState, roots, stored, executed, head, ret>>
  BY DEF WaitResults, chain
<1>3. PICK k \in fastTaken + 1 .. Height : fastTaken' = k /\ splitAroundPivot(fastTaken + 1 .. k)
  BY DEF WaitResults
<1>4. /\ before' = {n \in fastTaken + 1 .. k : n < pivot} /\ after' = {n \in fastTaken + 1 .. k : n > pivot}
      /\ atPivot' = (pivot \in fastTaken + 1 .. k)
  BY <1>3 DEF splitAroundPivot
<1>5. m = fastTaken
  BY <1>1, <1>2 DEF Position
<1>6. atPivot' \in BOOLEAN /\ (atPivot' = TRUE <=> pivot \in fastTaken + 1 .. k)
  <2>. DEFINE S == fastTaken + 1 .. k
  <2>. HIDE DEF S
  <2>0. atPivot' = (pivot \in S)
    BY <1>4 DEF S
  <2>1. CASE pivot \in S
    <3>1. (pivot \in S) = TRUE
      BY <2>1
    <3>2. atPivot' = TRUE
      BY <2>0, <3>1, Zenon
    <3>. QED  BY <2>1, <3>2 DEF S
  <2>2. CASE pivot \notin S
    <3>1. (pivot \in S) = FALSE
      BY <2>2
    <3>2. atPivot' = FALSE
      BY <2>0, <3>1, Zenon
    <3>. QED  BY <2>2, <3>2, Zenon DEF S
  <2>. QED  BY <2>1, <2>2, Zenon
<1>7. Height \in Nat /\ k \in Nat /\ k > fastTaken /\ k <= Height
  BY <1>1, <1>3 DEF FastSound
<1>8. FastTypes'
  <2>1. fastTaken' \in 0 .. Height
    BY <1>3, <1>7
  <2>. QED  BY <1>2, <1>6, <2>1 DEF FastInv, FastTypes
<1>9. Processed(m)' /\ Position(m)'
  BY <1>1, <1>2, <1>3, <1>4, <1>5, <1>6, <1>7 DEF Processed, Position, Left
<1>10. ClosedForCause' /\ (ret' = "ok" => fastPc' = "returned" /\ head' = Height)
  BY <1>2 DEF FastInv, ClosedForCause
<1>11. m \in 0 .. fastTaken'
  BY <1>1, <1>3, <1>7
<1>. QED  BY <1>8, <1>9, <1>10, <1>11 DEF FastInv

LEMMA NoMoreInv == ASSUME FastSound, FastInv, NoMoreResults PROVE FastInv'
<1>1. PICK m \in 0 .. fastTaken : /\ Processed(m) /\ Position(m)
                                  /\ m \in Nat /\ pivot \in Nat /\ fastTaken \in Nat /\ m <= fastTaken
  BY Frontier
<1>2. /\ fastPc = "wait" /\ fastPc' = "returned" /\ closed = TRUE /\ Processable(fastTaken)
      /\ headState' = FastCancelled /\ ret' = Outcome(FastCancelled)
      /\ UNCHANGED <<pivot, slot, fastTaken, closed, before, after, atPivot, roots, stored, executed, head>>
  BY DEF NoMoreResults, FastReturn, chain, queue, batch, FastInv, FastTypes
<1>3. FastTypes' /\ ClosedForCause'
  BY <1>2 DEF FastInv, FastTypes, ClosedForCause, FastCancelled
<1>4. m = fastTaken
  BY <1>1, <1>2 DEF Position
<1>5. CASE ret' # "ok"
  BY <1>2, <1>3, <1>5, FailedReturn, Zenon
<1>6. CASE ret' = "ok"
  <2>1. headState = "done"
    BY <1>2, <1>6 DEF Outcome, FastCancelled, FastInv, FastTypes
  <2>2. \A n \in Block : slot[n] = "done"
    BY <1>2, <2>1 DEF FastInv, ClosedForCause
  <2>3. fastTaken = Height /\ pivot <= Height
    <3>1. Height \in Nat /\ fastTaken <= Height /\ pivot <= Height
      BY <1>1 DEF FastInv, FastTypes, FastSound
    <3>2. ASSUME fastTaken < Height PROVE FALSE
      <4>. DEFINE n == fastTaken + 1
      <4>1. n \in Block /\ ~Ready(n)
        BY <1>1, <1>2, <3>1, <3>2 DEF Processable, Block
      <4>2. slot[n] = "done"
        BY <2>2, <4>1
      <4>3. ASSUME n = pivot, NEW j \in 1 .. fsHeaderForceVerify PROVE n + j \in Block /\ slot[n + j] # "none"
        <5>1. n + j \in Block
          BY <1>1, <4>3, <3>1 DEF FastInv, FastTypes, FastSound, Block
        <5>. QED  BY <2>2, <5>1
      <4>. QED  BY <4>1, <4>2, <4>3, Zenon DEF Ready
    <3>. QED  BY <1>1, <3>1, <3>2
  <2>4. head' = Height
    BY <1>1, <1>2, <1>4, <2>3, ZenonT(40) DEF Processed
  <2>5. Processed(m)' /\ Position(m)' /\ m \in 0 .. fastTaken'
    BY <1>1, <1>2 DEF Processed, Position
  <2>. QED  BY <1>2, <1>3, <2>4, <2>5, Zenon DEF FastInv
<1>. QED  BY <1>5, <1>6

\* A batch of consecutive blocks: the first of them.
LEMMA BatchOf ==
    ASSUME NEW a \in Nat, NEW b \in Nat, a < b, maxResultsProcess \in Nat \ {0}
    PROVE  /\ First(a + 1 .. b) = a + 1
           /\ \E k \in a + 1 .. b : /\ Items(a + 1 .. b) = a + 1 .. k /\ Last(Items(a + 1 .. b)) = k
                                    /\ (a + 1 .. b) \ Items(a + 1 .. b) = k + 1 .. b
<1>. DEFINE S == a + 1 .. b
            k == IF a + maxResultsProcess <= b THEN a + maxResultsProcess ELSE b
<1>1. First(S) = a + 1
  <2>1. a + 1 \in S /\ \A j \in S : a + 1 <= j
    OBVIOUS
  <2>2. \A n \in S : (\A j \in S : n <= j) => n = a + 1
    BY <2>1
  <2>. HIDE DEF S
  <2>. QED  BY <2>1, <2>2, Zenon DEF First
<1>2. Items(S) = a + 1 .. k /\ k \in a + 1 .. b /\ S \ Items(S) = k + 1 .. b
  BY <1>1 DEF Items
<1>. HIDE DEF k
<1>3. Last(a + 1 .. k) = k
  <2>. DEFINE T == a + 1 .. k
  <2>1. k \in T /\ \A j \in T : j <= k
    BY <1>2
  <2>2. \A n \in T : (\A j \in T : j <= n) => n = k
    BY <2>1
  <2>. HIDE DEF T
  <2>3. Last(T) = k
    BY <2>1, <2>2, Zenon DEF Last
  <2>. QED  BY <2>3 DEF T
<1>. QED  BY <1>1, <1>2, <1>3

LEMMA CommitInv == ASSUME FastSound, FastInv, commitFastSyncData PROVE FastInv'
<1>1. PICK m \in 0 .. fastTaken : /\ Processed(m) /\ Position(m)
                                  /\ m \in Nat /\ pivot \in Nat /\ fastTaken \in Nat /\ m <= fastTaken
  BY Frontier
<1>2. /\ fastPc = "before"
      /\ UNCHANGED <<pivot, slot, fastTaken, closed, headState, after, atPivot, roots, executed, head>>
  BY Zenon DEF commitFastSyncData, queue
<1>3. before = {n \in m + 1 .. fastTaken : n < pivot}
  BY <1>1, <1>2 DEF Position
<1>4. ASSUME fastPc' \in {"before", "pivot", "returned"} PROVE FastTypes' /\ ClosedForCause'
  BY <1>2, <1>4 DEF FastInv, FastTypes, ClosedForCause
<1>5. CASE before = {} /\ fastPc' = "pivot" /\ UNCHANGED <<ret, before, stored>>
  <2>1. m = fastTaken \/ m + 1 >= pivot
    BY <1>1, <1>3, <1>5, SMTT(40)
  <2>2. Processed(m)' /\ Position(m)' /\ m \in 0 .. fastTaken'
    BY <1>1, <1>2, <1>5, <2>1 DEF Processed, Position, Left
  <2>. QED  BY <1>2, <1>4, <1>5, <2>2 DEF FastInv
<1>6. CASE quit /\ FastReturn("content cancelled") /\ UNCHANGED <<before, stored>>
  BY <1>2, <1>4, <1>6, FailedReturn, Zenon DEF FastReturn
<1>7. CASE ~quit /\ headState \in {"failed", "cancelled"} /\ FastReturn(headState) /\ UNCHANGED <<before, stored>>
  BY <1>2, <1>4, <1>7, FailedReturn, Zenon DEF FastReturn
<1>8. CASE /\ before # {}
           /\ stored' = stored \cup Items(before) /\ before' = before \ Items(before)
           /\ UNCHANGED <<fastPc, ret>>
  <2>. DEFINE b == IF fastTaken < pivot THEN fastTaken ELSE pivot - 1
  <2>1. before = m + 1 .. b /\ m < b /\ b \in Nat /\ b <= fastTaken /\ b < pivot
    BY <1>1, <1>3, <1>8
  <2>. HIDE DEF b
  <2>2. PICK k \in m + 1 .. b : Items(before) = m + 1 .. k /\ before \ Items(before) = k + 1 .. b
    BY <1>1, <2>1, BatchOf DEF FastSound
  <2>3. k \in Nat /\ m < k /\ k <= b /\ k < pivot /\ k <= fastTaken
    BY <1>1, <2>1, <2>2
  <2>4. stored' = 1 .. k
    <3>1. stored = 1 .. m
      BY <1>1 DEF Processed
    <3>. QED  BY <1>1, <1>8, <2>2, <2>3, <3>1
  <2>5. Processed(k)'
    <3>1. executed = pivot + 1 .. m /\ head = (IF m >= pivot THEN m ELSE 0)
      BY <1>1 DEF Processed
    <3>2. executed = pivot + 1 .. k /\ head = 0
      BY <1>1, <2>3, <3>1, SMTT(40)
    <3>. QED  BY <1>1, <1>2, <2>3, <2>4, <3>2 DEF Processed
  <2>6. Position(k)'
    <3>1. before' = {n \in k + 1 .. fastTaken : n < pivot}
      <4>1. {n \in k + 1 .. fastTaken : n < pivot} = k + 1 .. b
        BY <1>1, <2>1, <2>3 DEF b
      <4>. QED  BY <1>8, <2>2, <4>1, Zenon
    <3>2. after = Left(m) /\ (atPivot = TRUE <=> m < pivot /\ pivot <= fastTaken)
      BY <1>1, <1>2 DEF Position
    <3>3. Left(m) = Left(k)
      BY <1>1, <2>3 DEF Left
    <3>4. Left(k)' = Left(k)
      BY <1>2 DEF Left
    <3>5. atPivot = TRUE <=> k < pivot /\ pivot <= fastTaken
      BY <1>1, <2>3, <3>2
    <3>. QED  BY <1>2, <1>8, <3>1, <3>2, <3>3, <3>4, <3>5, Zenon DEF Position
  <2>7. k \in 0 .. fastTaken'
    BY <1>2, <2>3
  <2>. QED  BY <1>2, <1>4, <1>8, <2>5, <2>6, <2>7, Zenon DEF FastInv
<1>. QED  BY <1>2, <1>5, <1>6, <1>7, <1>8, Zenon DEF commitFastSyncData

LEMMA StartPivotInv == ASSUME FastSound, FastInv, StartPivot PROVE FastInv'
<1>1. PICK m \in 0 .. fastTaken : /\ Processed(m) /\ Position(m)
                                  /\ m \in Nat /\ pivot \in Nat /\ fastTaken \in Nat /\ m <= fastTaken
  BY Frontier
<1>2. /\ fastPc = "pivot" /\ UNCHANGED <<pivot, slot, fastTaken, closed, before, after, atPivot, stored, executed, head, ret>>
  BY DEF StartPivot, queue, batch, chain
<1>3. /\ m = fastTaken \/ m + 1 >= pivot
      /\ after = Left(m) /\ (atPivot = TRUE <=> m < pivot /\ pivot <= fastTaken)
  BY <1>1, <1>2, Zenon DEF Position
<1>4. CASE atPivot = TRUE
  <2>1. fastPc' = "roots" /\ headState' = FastCancelled /\ roots' = 0
    BY <1>4 DEF StartPivot
  <2>2. m + 1 = pivot /\ pivot <= fastTaken
    BY <1>1, <1>3, <1>4
  <2>3. Left(m) = Left(pivot)
    BY <1>1, <2>2, SMTT(40) DEF Left
  <2>4. Processed(m)' /\ Position(m)'
    BY <1>1, <1>2, <1>3, <2>1, <2>2, <2>3, SMTT(40) DEF Processed, Position, Left
  <2>5. FastTypes' /\ ClosedForCause'
    BY <1>2, <2>1, Zenon DEF FastInv, FastTypes, ClosedForCause, FastCancelled
  <2>. QED  BY <1>2, <2>1, <2>4, <2>5, Zenon DEF FastInv
<1>5. CASE atPivot = FALSE
  <2>1. fastPc' = "after" /\ UNCHANGED <<headState, roots>>
    BY <1>5 DEF StartPivot
  <2>2. m < fastTaken => m >= pivot
    BY <1>1, <1>3, <1>5
  <2>3. after = m + 1 .. fastTaken
    BY <1>1, <1>3, <2>2, SMTT(40) DEF Left
  <2>4. Processed(m)' /\ Position(m)'
    BY <1>1, <1>2, <2>1, <2>2, <2>3, ZenonT(40) DEF Processed, Position
  <2>5. FastTypes' /\ ClosedForCause'
    BY <1>2, <2>1 DEF FastInv, FastTypes, ClosedForCause
  <2>. QED  BY <1>2, <2>1, <2>4, <2>5, Zenon DEF FastInv
<1>. QED  BY <1>4, <1>5, Zenon DEF FastInv, FastTypes

LEMMA SyncRootInv == ASSUME FastSound, FastInv, SyncRoot PROVE FastInv'
<1>1. PICK m \in 0 .. fastTaken : /\ Processed(m) /\ Position(m)
                                  /\ m \in Nat /\ pivot \in Nat /\ fastTaken \in Nat /\ m <= fastTaken
  BY Frontier
<1>2. /\ fastPc = "roots"
      /\ UNCHANGED <<pivot, slot, fastTaken, closed, headState, before, after, atPivot, stored, executed, head>>
  BY DEF SyncRoot, queue, batch, chain
<1>3. CASE roots' = roots + 1 /\ UNCHANGED <<fastPc, ret>>
  <2>1. m + 1 = pivot
    BY <1>1, <1>2, Zenon DEF Position
  <2>2. Processed(m)' /\ Position(m)'
    BY <1>1, <1>2, <1>3, <2>1 DEF Processed, Position, Left
  <2>3. FastTypes' /\ ClosedForCause'
    BY <1>2, <1>3 DEF FastInv, FastTypes, ClosedForCause
  <2>. QED  BY <1>2, <1>3, <2>2, <2>3, Zenon DEF FastInv
<1>4. CASE FastReturn("failed") /\ UNCHANGED roots
  <2>1. FastTypes' /\ ClosedForCause'
    BY <1>2, <1>4, Zenon DEF FastInv, FastTypes, ClosedForCause, FastReturn
  <2>. QED  BY <1>2, <1>4, <2>1, FailedReturn, Zenon DEF FastReturn
<1>. QED  BY <1>3, <1>4, Zenon DEF SyncRoot

LEMMA CommitHeadInv == ASSUME FastSound, FastInv, FastSyncCommitHead PROVE FastInv'
<1>1. PICK m \in 0 .. fastTaken : /\ Processed(m) /\ Position(m)
                                  /\ m \in Nat /\ pivot \in Nat /\ fastTaken \in Nat /\ m <= fastTaken
  BY Frontier
<1>2. /\ fastPc = "roots" /\ roots = 1 + PocRoots /\ fastPc' = "after"
      /\ stored' = stored \cup {pivot} /\ head' = pivot
      /\ UNCHANGED <<pivot, slot, fastTaken, closed, headState, before, after, atPivot, roots, executed, ret>>
  BY DEF FastSyncCommitHead, queue, batch
<1>3. m + 1 = pivot /\ pivot <= fastTaken /\ after = Left(pivot)
  BY <1>1, <1>2, Zenon DEF Position
<1>4. stored' = 1 .. pivot /\ executed = pivot + 1 .. pivot
  BY <1>1, <1>2, <1>3 DEF Processed
<1>5. Processed(pivot)'
  BY <1>1, <1>2, <1>4 DEF Processed
<1>6. after = pivot + 1 .. fastTaken
  BY <1>1, <1>3, SMTT(40) DEF Left
<1>7. Position(pivot)'
  BY <1>1, <1>2, <1>6, SMTT(40) DEF Position
<1>8. FastTypes' /\ ClosedForCause' /\ pivot' \in 0 .. fastTaken'
  BY <1>1, <1>2, <1>3, SMTT(40) DEF FastInv, FastTypes, ClosedForCause
<1>. QED  BY <1>2, <1>5, <1>7, <1>8, Zenon DEF FastInv

LEMMA ImportInv == ASSUME FastSound, FastInv, importBlockResults PROVE FastInv'
<1>1. PICK m \in 0 .. fastTaken : /\ Processed(m) /\ Position(m)
                                  /\ m \in Nat /\ pivot \in Nat /\ fastTaken \in Nat /\ m <= fastTaken
  BY Frontier
<1>2. /\ fastPc = "after"
      /\ UNCHANGED <<pivot, slot, fastTaken, closed, headState, before, atPivot, roots>>
  BY Zenon DEF importBlockResults, queue
<1>3. after = m + 1 .. fastTaken /\ (m < fastTaken => m >= pivot)
  BY <1>1, <1>2, Zenon DEF Position
<1>4. ASSUME fastPc' \in {"wait", "after", "returned"} PROVE FastTypes' /\ ClosedForCause'
  BY <1>2, <1>4, Zenon DEF FastInv, FastTypes, ClosedForCause
<1>5. CASE after = {} /\ fastPc' = "wait" /\ UNCHANGED <<ret, after, stored, executed, head>>
  <2>1. m = fastTaken
    BY <1>1, <1>3, <1>5, SMTT(40)
  <2>2. Processed(m)' /\ Position(m)' /\ m \in 0 .. fastTaken'
    BY <1>1, <1>2, <1>5, <2>1 DEF Processed, Position
  <2>. QED  BY <1>2, <1>4, <1>5, <2>2 DEF FastInv
<1>6. CASE FastReturn("content cancelled") /\ UNCHANGED <<after, stored, executed, head>>
  BY <1>2, <1>4, <1>6, FailedReturn, Zenon DEF FastReturn
<1>7. CASE FastReturn("invalid chain") /\ UNCHANGED <<after, stored, executed, head>>
  BY <1>2, <1>4, <1>7, FailedReturn, ZenonT(40) DEF FastReturn
<1>8. CASE /\ after # {}
           /\ stored' = stored \cup Items(after) /\ executed' = executed \cup Items(after)
           /\ head' = Last(Items(after)) /\ after' = after \ Items(after)
           /\ UNCHANGED <<fastPc, ret>>
  <2>1. m < fastTaken /\ m >= pivot
    BY <1>1, <1>3, <1>8, SMTT(40)
  <2>2. PICK k \in m + 1 .. fastTaken :
            Items(after) = m + 1 .. k /\ Last(Items(after)) = k /\ after \ Items(after) = k + 1 .. fastTaken
    BY <1>1, <1>3, <2>1, BatchOf DEF FastSound
  <2>3. k \in Nat /\ m < k /\ k <= fastTaken /\ k >= pivot
    BY <1>1, <2>1, <2>2
  <2>4. stored = 1 .. m /\ executed = pivot + 1 .. m /\ (pivot > 0 => roots = 1 + PocRoots)
    BY <1>1, <2>1, Zenon DEF Processed
  <2>5. stored' = 1 .. k /\ executed' = pivot + 1 .. k /\ head' = k
    BY <1>1, <1>8, <2>1, <2>2, <2>3, <2>4, SMTT(40)
  <2>6. Processed(k)'
    BY <1>2, <2>3, <2>4, <2>5, Zenon DEF Processed
  <2>7. Position(k)'
    BY <1>2, <1>8, <2>2, <2>3, Zenon DEF Position
  <2>8. k \in 0 .. fastTaken'
    BY <1>2, <2>3, SMTT(40)
  <2>9. ret' # "ok"
    BY <1>2, <1>8 DEF FastInv
  <2>. QED  BY <1>2, <1>4, <1>8, <2>6, <2>7, <2>8, <2>9, Zenon DEF FastInv
<1>. QED  BY <1>5, <1>6, <1>7, <1>8, Zenon DEF importBlockResults

LEMMA FastNextInv == ASSUME FastSound PROVE FastInv /\ [FastNext]_fastVars => FastInv'
<1>. SUFFICES ASSUME FastInv, [FastNext]_fastVars PROVE FastInv'
  OBVIOUS
<1>1. ASSUME FastTypes', ClosedForCause',
             UNCHANGED <<pivot, fastTaken, fastPc, before, after, atPivot, roots, stored, executed, head, ret>>
      PROVE  FastInv'
  BY <1>1, QueueSteps
<1>2. CASE UNCHANGED fastVars
  <2>1. FastTypes' /\ ClosedForCause'
    BY <1>2 DEF fastVars, FastInv, FastTypes, ClosedForCause
  <2>. QED  BY <1>1, <1>2, <2>1, Zenon DEF fastVars
<1>3. ASSUME NEW n \in Block, Reserve(n) PROVE FastInv'
  <2>1. FastTypes' /\ ClosedForCause'
    BY <1>3 DEF Reserve, FastInv, FastTypes, ClosedForCause, batch, chain
  <2>. QED  BY <1>1, <1>3, <2>1, ZenonT(40) DEF Reserve, batch, chain
<1>4. ASSUME NEW n \in Block, Complete(n) PROVE FastInv'
  <2>1. FastTypes' /\ ClosedForCause'
    BY <1>4, Zenon DEF Complete, FastInv, FastTypes, ClosedForCause, batch, chain
  <2>. QED  BY <1>1, <1>4, <2>1, Zenon DEF Complete, batch, chain
<1>5. CASE FetchersEnd
  <2>1. closed' = TRUE
    BY <1>5, Zenon DEF FetchersEnd
  <2>2. FastTypes' /\ ClosedForCause'
    BY <1>5, <2>1 DEF FetchersEnd, FastInv, FastTypes, ClosedForCause, batch, chain
  <2>. QED  BY <1>1, <1>5, <2>2 DEF FetchersEnd, batch, chain
<1>6. ASSUME NEW how \in {"done", "failed"}, StateEnds(how) PROVE FastInv'
  <2>1. FastTypes' /\ ClosedForCause'
    BY <1>6 DEF StateEnds, FastInv, FastTypes, ClosedForCause, batch, chain, queue
  <2>. QED  BY <1>1, <1>6, <2>1, ZenonT(40) DEF StateEnds, batch, chain, queue
<1>7. CASE WaiterEnds
  <2>1. closed' \in BOOLEAN /\ (closed' = TRUE => closed = TRUE \/ headState # "done")
    <3>1. CASE closed \/ headState # "done"
      <4>1. closed' = TRUE
        BY <1>7, <3>1, Zenon DEF WaiterEnds
      <4>2. closed = TRUE \/ headState # "done"
        BY <3>1, Zenon DEF FastInv, FastTypes
      <4>. QED  BY <4>1, <4>2
    <3>2. CASE ~(closed \/ headState # "done")
      <4>1. closed' = FALSE
        BY <1>7, <3>2, Zenon DEF WaiterEnds
      <4>. QED  BY <4>1, Zenon
    <3>. QED  BY <3>1, <3>2, Zenon
  <2>2. headState # "running" /\ UNCHANGED <<pivot, slot, fastTaken, headState, fastPc, before, after, atPivot, roots, stored, executed, head, ret>>
    BY <1>7, Zenon DEF WaiterEnds, batch, chain
  <2>3. FastTypes'
    BY <2>1, <2>2, ZenonT(40) DEF FastInv, FastTypes
  <2>4. ClosedForCause'
    BY <2>1, <2>2 DEF FastInv, FastTypes, ClosedForCause
  <2>. QED  BY <1>1, <2>2, <2>3, <2>4
<1>8. CASE Terminate
  <2>1. FastTypes' /\ ClosedForCause'
    BY <1>8 DEF Terminate, FastInv, FastTypes, ClosedForCause, batch, chain, queue
  <2>. QED  BY <1>1, <1>8, <2>1, ZenonT(40) DEF Terminate, batch, chain, queue
<1>. QED  BY <1>2, <1>3, <1>4, <1>5, <1>6, <1>7, <1>8, WaitResultsInv, NoMoreInv, CommitInv,
             StartPivotInv, SyncRootInv, CommitHeadInv, ImportInv, Zenon, Zenon DEF FastNext

\* Content processing (processFastSyncContent, commitFastSyncData, commitPivotBlock,
\* importBlockResults) never leaves a head without its ancestors and its state, and
\* returns without an error only when everything up to the reported head has been
\* processed, for every height, pivot, batch size and order of arrival.
THEOREM ContentIsExact ==
    ASSUME FastSound
    PROVE  FastSpec => []ContentExact
<1>1. FastInit => FastInv
  BY FastInitInv
<1>2. FastInv /\ [FastNext]_fastVars => FastInv'
  BY FastNextInv
<1>3. FastInv => ContentExact
  <2>. SUFFICES ASSUME FastInv PROVE ContentExact
    OBVIOUS
  <2>1. PICK m \in 0 .. fastTaken : /\ Processed(m) /\ Position(m)
                                    /\ m \in Nat /\ pivot \in Nat /\ fastTaken \in Nat /\ m <= fastTaken
    BY Frontier
  <2>2. /\ stored = 1 .. m /\ executed = pivot + 1 .. m /\ head = (IF m >= pivot THEN m ELSE 0)
        /\ m >= pivot /\ pivot > 0 => roots = 1 + PocRoots
    BY <2>1 DEF Processed
  <2>3. 1 .. head \subseteq stored
    BY <2>1, <2>2
  <2>4. head > 0 => head \in executed \/ (head = pivot /\ roots = 1 + PocRoots)
    BY <2>1, <2>2
  <2>5. \A n \in executed : n > pivot
    BY <2>1, <2>2
  <2>. QED  BY <2>3, <2>4, <2>5 DEF FastInv, ContentExact
<1>. QED  BY <1>1, <1>2, <1>3, PTL DEF FastSpec
====
