------------------------------ MODULE HeaderSync ------------------------------
(*****************************************************************************)
(* The headers of a synchronisation: finding the common ancestor with a      *)
(* peer, then fetching and processing headers.                               *)
(*****************************************************************************)
EXTENDS Integers, Sequences, FiniteSets, FiniteSetsExt

-----------------------------------------------------------------------------
(***************************************************************************)
(* Header retrieval of eth/downloader: fetchHeaders and fillHeaderSkeleton *)
(* of downloader.go with the skeleton half of queue.go, and processHeaders *)
(* as the consumer of headerProcCh.  The master peer supplies every        *)
(* MaxHeaderFetch-th header; any peer may fill a gap of the skeleton.  A   *)
(* header is its number, a message on headerProcCh a set of numbers ({} is *)
(* the nil that ends the stream).                                          *)
(***************************************************************************)

CONSTANTS Peer, Master, Height, MaxHeaderFetch, MaxSkeletonSize, SafetyNet

VARIABLES from, phase,            \* fetchHeaders: next number; what it does
          skeleton,               \* number of skeleton headers being filled (0: none)
          pool, queue,            \* headerTaskPool, headerTaskQueue
          pend, miss,             \* headerPendPool, headerPeerMiss
          filled, proced,         \* batches of headerResults; headerProced
          contCh,                 \* headerContCh holds its message
          procCh,                 \* headerProcCh
          peers, cancelled,
          origin, rollback,       \* processHeaders: next number; uncertain headers
          chain, processor        \* header chain inserted; state of processHeaders

vars == <<from, phase, skeleton, pool, queue, pend, miss, filled, proced, contCh, procCh, peers, cancelled,
          origin, rollback, chain, processor>>
fill == <<pool, queue, pend, miss, filled, proced, contCh>>
proc == <<origin, rollback, chain, processor>>

Batch(i) == (from + i * MaxHeaderFetch)..(from + (i + 1) * MaxHeaderFetch - 1)

Init == /\ from = 1 /\ phase = "skeleton" /\ skeleton = 0
        /\ pool = {} /\ queue = {} /\ pend = [p \in Peer |-> {}] /\ miss = [p \in Peer |-> {}]
        /\ filled = {} /\ proced = 0 /\ contCh = FALSE
        /\ procCh = <<>> /\ peers = Peer /\ cancelled = FALSE
        /\ origin = 1 /\ rollback = {} /\ chain = {} /\ processor = "run"

Return(err) == phase' = err /\ cancelled' = TRUE

----------------------------------------------------------------------------
\* The master answers getHeaders(from) of the skeleton phase.
Available == Min({MaxSkeletonSize, (Height - from + 1) \div MaxHeaderFetch})

ScheduleSkeleton ==
    /\ phase = "skeleton" /\ ~cancelled /\ Master \in peers /\ Available > 0
    /\ skeleton' = Available
    /\ pool' = 0..(Available - 1) /\ queue' = pool'
    /\ miss' = [p \in Peer |-> {}]
    /\ filled' = {} /\ proced' = 0 /\ contCh' = FALSE
    /\ phase' = "fill"
    /\ UNCHANGED <<from, pend, procCh, peers, cancelled, proc>>

SkeletonEnds ==
    /\ phase = "skeleton" /\ ~cancelled /\ Master \in peers /\ Available = 0
    /\ phase' = "tail"
    /\ UNCHANGED <<from, skeleton, fill, procCh, peers, cancelled, proc>>

\* ... and of the tail phase: the remaining headers directly, then nothing.
HeadHeaders ==
    /\ phase = "tail" /\ ~cancelled /\ Master \in peers /\ procCh = <<>>
    /\ LET last == Min({Height, from + MaxHeaderFetch - 1}) IN
       /\ procCh' = <<from..last>>
       /\ from' = last + 1
       /\ phase' = IF from > Height THEN "done" ELSE "tail"
    /\ UNCHANGED <<skeleton, fill, peers, cancelled, proc>>

\* The master does not answer in time: it is dropped, which cancels the sync; the
\* nil message may still find room, the select being free to pick either case.
MasterTimeout ==
    /\ phase \in {"skeleton", "tail"} /\ ~cancelled
    /\ peers' = peers \ {Master}
    /\ procCh' \in IF procCh = <<>> THEN {<<>>, <<{}>>} ELSE {procCh}
    /\ Return("errBadPeer")
    /\ UNCHANGED <<from, skeleton, fill, proc>>

----------------------------------------------------------------------------
\* fetchParts for headers: ReserveHeaders takes the first batch the peer is not
\* known to miss.
Reserve(p) ==
    /\ phase = "fill" /\ ~cancelled /\ p \in peers /\ pend[p] = {}
    /\ queue \ miss[p] # {}
    /\ LET i == Min(queue \ miss[p])
       IN  pend' = [pend EXCEPT ![p] = {i}] /\ queue' = queue \ {i}
    /\ UNCHANGED <<from, phase, skeleton, pool, miss, filled, proced, contCh, procCh, peers, cancelled, proc>>

\* An expired header request counts no headers, so its peer is always dropped.
Expire(p) ==
    /\ phase = "fill" /\ ~cancelled /\ p \in peers /\ pend[p] # {}
    /\ queue' = queue \cup pend[p]
    /\ pend' = [pend EXCEPT ![p] = {}]
    /\ peers' = peers \ {p}
    /\ cancelled' = (p = Master)
    /\ UNCHANGED <<from, phase, skeleton, pool, miss, filled, proced, contCh, procCh, proc>>

\* The batches that can be forwarded, from the first not yet forwarded on.
ready(done) == Cardinality({i \in proced..(skeleton - 1) : \A j \in proced..i : j \in done})

\* DeliverHeaders: accepted when the batch maps onto the skeleton; whatever is then
\* ready goes to the processor if its channel has room.
DeliverHeaders(p, fits) ==
    /\ phase = "fill" /\ ~cancelled /\ p \in peers /\ pend[p] # {}
    /\ pend' = [pend EXCEPT ![p] = {}]
    /\ IF fits
       THEN LET n == ready(filled \cup pend[p])
            IN  /\ filled' = filled \cup pend[p]
                /\ pool' = pool \ pend[p]
                /\ contCh' = (pool' = {})
                /\ IF n > 0 /\ procCh = <<>>
                   THEN /\ procCh' = <<UNION {Batch(i) : i \in proced..(proced + n - 1)}>>
                        /\ proced' = proced + n
                   ELSE UNCHANGED <<procCh, proced>>
                /\ UNCHANGED <<miss, queue>>
       ELSE /\ miss' = [miss EXCEPT ![p] = @ \cup pend[p]]
            /\ queue' = queue \cup pend[p]
            /\ UNCHANGED <<filled, pool, contCh, procCh, proced>>
    /\ UNCHANGED <<from, phase, skeleton, peers, cancelled, proc>>

\* Every peer has failed every remaining batch (or all peers are gone).
FillFails ==
    /\ phase = "fill" /\ ~cancelled
    /\ \A p \in Peer : pend[p] = {}
    /\ \/ peers = {}
       \/ queue # {} /\ \A p \in peers : queue \subseteq miss[p]
    /\ Return("errInvalidChain")
    /\ UNCHANGED <<from, skeleton, fill, procCh, peers, proc>>

\* The filling ends; RetrieveHeaders, and what was not forwarded yet is sent on.
FillEnds ==
    /\ phase = "fill" /\ ~cancelled /\ contCh /\ queue = {}
    /\ proced < skeleton => procCh = <<>>
    /\ procCh' = IF proced < skeleton THEN <<UNION {Batch(i) : i \in proced..(skeleton - 1)}>> ELSE procCh
    /\ from' = from + skeleton * MaxHeaderFetch
    /\ skeleton' = 0 /\ filled' = {} /\ proced' = 0 /\ contCh' = FALSE
    /\ phase' = "skeleton"
    /\ UNCHANGED <<pool, queue, pend, miss, peers, cancelled, proc>>

----------------------------------------------------------------------------
\* The last SafetyNet headers of a set.
Newest(S) == {n \in S : Cardinality({m \in S : m >= n}) <= SafetyNet}

\* processHeaders inserts a chunk of headers; bad = 0 or the first invalid number.
\* On an error the deferred function rolls the uncertain headers back.
Process(bad) ==
    /\ processor = "run" /\ procCh # <<>> /\ Head(procCh) # {} /\ ~cancelled
    /\ procCh' = <<>>
    /\ LET chunk == Head(procCh)
       IN  /\ bad = 0 \/ bad \in chunk
           /\ IF bad = 0 /\ Min(chunk) = origin
              THEN /\ chain' = chain \cup chunk
                   /\ rollback' = Newest(rollback \cup chunk)
                   /\ origin' = origin + Cardinality(chunk)
                   /\ UNCHANGED <<processor, cancelled>>
              ELSE /\ chain' = chain \ rollback
                   /\ rollback' = {}
                   /\ processor' = IF bad = 0 THEN "errBadPeer" ELSE "errInvalidChain"
                   /\ cancelled' = TRUE
                   /\ UNCHANGED origin
    /\ UNCHANGED <<from, phase, skeleton, fill, peers>>

\* The nil message: the stream is complete.  Unless the promised headers are all
\* there (the total difficulty test of fast and light sync), the peer is stalling.
ProcessEnd ==
    /\ processor = "run" /\ procCh = <<{}>>
    /\ procCh' = <<>>
    /\ rollback' = {}
    /\ IF chain = 1..Height THEN processor' = "done" /\ UNCHANGED <<chain, cancelled>>
       ELSE processor' = "errStallingPeer" /\ chain' = chain \ rollback /\ cancelled' = TRUE
    /\ UNCHANGED <<from, phase, skeleton, fill, peers, origin>>

\* cancelCh is closed: both goroutines return, the processor rolling back.
Cancelled ==
    /\ cancelled
    /\ \/ /\ phase \in {"skeleton", "fill", "tail"} /\ phase' = "errCancel" /\ UNCHANGED proc
       \/ /\ processor = "run" /\ processor' = "errCancel"
          /\ chain' = chain \ rollback /\ rollback' = {} /\ UNCHANGED <<phase, origin>>
    /\ UNCHANGED <<from, skeleton, fill, procCh, peers, cancelled>>

Next == \/ ScheduleSkeleton \/ SkeletonEnds \/ HeadHeaders \/ MasterTimeout \/ FillFails \/ FillEnds
        \/ \E p \in Peer : Reserve(p) \/ Expire(p) \/ \E fits \in BOOLEAN : DeliverHeaders(p, fits)
        \/ \E bad \in 0..Height : Process(bad)
        \/ ProcessEnd \/ Cancelled

\* Timeouts and the loops' tickers make every wait of the two goroutines end.
Progress == \/ ScheduleSkeleton \/ SkeletonEnds \/ HeadHeaders \/ FillFails \/ FillEnds \/ ProcessEnd \/ Cancelled
            \/ Process(0) \/ \E p \in Peer : Reserve(p) \/ Expire(p)
Fair == WF_vars(Progress)
Spec == Init /\ [][Next]_vars

TypeOK == /\ from \in 1..(Height + 1) /\ skeleton \in 0..MaxSkeletonSize /\ proced \in 0..MaxSkeletonSize
          /\ filled \cup pool \cup queue \subseteq 0..(MaxSkeletonSize - 1)
          /\ peers \subseteq Peer /\ cancelled \in BOOLEAN /\ contCh \in BOOLEAN
          /\ Len(procCh) <= 1 /\ origin \in 1..(Height + 1)

\* The processor receives every header exactly once and in order, although batches
\* are filled out of order and forwarded early: errBadPeer, which it returns for a
\* gap or a repetition, never happens, and the chain is contiguous until it fails.
HeadersInOrder ==
    /\ processor # "errBadPeer"
    /\ processor = "errStallingPeer" => phase # "done"
    /\ chain = 1..Cardinality(chain)
    /\ processor = "done" => chain = 1..Height

\* Every batch of the skeleton is filled, queued, or asked of exactly one peer, and
\* the end of the filling is announced exactly when none is left.
BatchesConserved ==
    phase = "fill" /\ ~cancelled =>
        /\ pool = queue \cup UNION {pend[p] : p \in Peer}
        /\ pool \cap filled = {} /\ pool \cup filled = 0..(skeleton - 1)
        /\ \A p \in Peer : pend[p] \cap queue = {} /\ \A q \in Peer \ {p} : pend[p] \cap pend[q] = {}
        /\ contCh <=> pool = {}

\* Both goroutines always return.
HeadersEnd == <>(phase \in {"done", "errBadPeer", "errInvalidChain", "errCancel"} /\ processor # "run")

-----------------------------------------------------------------------------
(***************************************************************************)
(* fetchHeight and findAncestor of eth/downloader/downloader.go: where the *)
(* chain of the peer synchronised with leaves the local one.  The two      *)
(* chains agree up to block Fork; a header is given by its number and the  *)
(* side it is on.  The answers of the peer are honest, empty, or broken;   *)
(* answers of other peers are discarded and leave no trace.                *)
(***************************************************************************)

CONSTANTS MaxLen,           \* largest chain height explored
          AnMaxHeaderFetch,   \* headers per request
          Gap,              \* spacing of the sampled headers (16)
          MaxForkAncestry   \* how far back a fork may start

VARIABLES local, remote, fork,  \* heights of both chains, last common block
          lied,                 \* the peer reports a head below its real one
          step,                 \* "height", "sample", "search" or the result
          height,               \* the height the peer reported
          start, end            \* the interval of the binary search

anVars == <<local, remote, fork, lied, step, height, start, end>>

Errors == {"errCancel", "errBadPeer", "errTimeout", "errEmptyHeaderSet", "errInvalidChain",
           "errStallingPeer", "errInvalidAncestor"}

AnInit == /\ local \in 0..MaxLen /\ remote \in 0..MaxLen
          /\ fork \in 0..Min({local, remote})
          /\ lied \in BOOLEAN
          /\ step = "height" /\ height = 0 /\ start = 0 /\ end = 0

ceil == local
floor == IF ceil >= MaxForkAncestry THEN ceil - MaxForkAncestry ELSE -1
head == Min({ceil, height})
anFrom == Max({0, head - AnMaxHeaderFetch})
limit == (2 * AnMaxHeaderFetch) \div Gap
count == Min({limit, 1 + (ceil - anFrom) \div Gap})

\* HasHeader, HasBlockAndState: block n of the remote chain is known locally.
Known(n) == n <= fork

Fail(err) == step' = err /\ UNCHANGED <<local, remote, fork, lied, height, start, end>>

\* Any wait for the peer can be cancelled, time out, or meet a malformed answer.
Failure == \/ step \in {"height", "search"} /\ \E e \in {"errCancel", "errTimeout", "errBadPeer"} : Fail(e)
           \/ step = "sample" /\ \E e \in {"errCancel", "errTimeout", "errEmptyHeaderSet", "errInvalidChain"} : Fail(e)

fetchHeight ==
    /\ step = "height"
    /\ height' \in IF lied THEN 0..remote ELSE {remote}
    /\ step' = "sample"
    /\ UNCHANGED <<local, remote, fork, lied, start, end>>

\* The sampled headers the peer returned: as many as it has.
Samples == {i \in 0..(count - 1) : anFrom + i * Gap <= remote}
Found == {i \in Samples : anFrom + i * Gap <= ceil /\ Known(anFrom + i * Gap)}

Finish(number) == IF number <= floor THEN "errInvalidAncestor" ELSE "found"

Sample ==
    /\ step = "sample" /\ Samples # {}
    /\ IF Found # {}
       THEN LET i == Max(Found)
                number == anFrom + i * Gap
            IN  /\ step' = IF number > height /\ i = limit - 1 THEN "errStallingPeer" ELSE Finish(number)
                /\ start' = number
                /\ UNCHANGED end
       ELSE /\ step' = "search"
            /\ start' = IF floor > 0 THEN floor ELSE 0
            /\ end' = head
    /\ UNCHANGED <<local, remote, fork, lied, height>>

Search ==
    /\ step = "search"
    /\ IF start + 1 < end
       THEN LET check == (start + end) \div 2
            IN  /\ check <= remote
                /\ IF Known(check) THEN start' = check /\ UNCHANGED end
                                   ELSE end' = check /\ UNCHANGED start
                /\ UNCHANGED step
       ELSE step' = Finish(start) /\ UNCHANGED <<start, end>>
    /\ UNCHANGED <<local, remote, fork, lied, height>>

AnNext == fetchHeight \/ Sample \/ Search \/ Failure
AnSpec == AnInit /\ [][AnNext]_anVars

AnTypeOK == /\ {local, remote, fork, height, start, end} \subseteq 0..MaxLen
            /\ step \in {"height", "sample", "search", "found"} \cup Errors

\* The ancestor found is common to both chains, inside the allowed window, and less
\* than one sampling gap below the last common block up to the height the peer
\* reported, so at most Gap - 1 known blocks are downloaded again.
AncestorCommon ==
    step = "found" => start <= fork /\ start > floor /\ Min({fork, height}) < start + Gap

\* The binary search always brackets the fork: its lower end is common (or is the
\* floor, which the final test refuses) and its upper end, unless it is still the
\* head the sampling already refused, is not.
SearchBrackets ==
    step = "search" => /\ start <= fork \/ start = floor
                       /\ end = head \/ end > fork
                       /\ ~Known(head)
=============================================================================
