---------------------------- MODULE DownloadQueue -----------------------------
(*****************************************************************************)
(* The queue of the downloader with the loops that fill and empty it, and    *)
(* what the downloader knows of the quality of its peers.                    *)
(*****************************************************************************)
EXTENDS Integers, Sequences, FiniteSetsExt, SequencesExt, FiniteSets

-----------------------------------------------------------------------------
(***************************************************************************)
(* The content scheduler of a chain download: eth/downloader/queue.go with *)
(* the fetchParts loops of downloader.go that drive it (one for bodies,    *)
(* one for receipts) and the activity flags of peer.go.  A header stands   *)
(* for its number: Schedule only accepts a contiguous chain.  Every queue  *)
(* method runs under the queue's lock.  Requests time out at any moment,   *)
(* and an answer may still arrive after its request has expired.           *)
(***************************************************************************)

CONSTANTS Peer, Master,     \* the ids of the download peers; the one synchronised with
          Height,           \* the number of the last header
          Noop,             \* kind -> the headers whose body or receipts are empty
          blockCacheLimit,  \* length of resultCache
          forceVerify,      \* fsHeaderForceVerify
          maxFetch,         \* the largest capacity of a peer
          Pivot,            \* the fast sync pivot
          chunk,            \* headers per batch of the header processor
          Modes             \* the sync modes explored, a subset of {"full", "fast"}

VARIABLES mode, scheduled,  \* sync mode; the number of the last header given to Schedule
          task,             \* kind -> its task pool, task queue, pending and done pools
          cache,            \* number -> nil or the result under assembly
          offset, closed,   \* resultOffset and closed
          peers,            \* the registered peers
          busy,             \* kind -> the peers whose activity flag is set
          lacking,          \* peer -> the hashes it is known not to have
          net,              \* the requests a peer may still answer
          finished, status  \* of each fetchParts loop: no more headers; running or its result

vars == <<mode, scheduled, task, cache, offset, closed, peers, busy, lacking, net, finished, status>>

Kind == {"body", "receipt"}
Num == 1..Height
nil == [pending |-> -1, parts |-> {}]

\* The parts a result needs before it can be imported.
components(n) == IF mode = "fast" /\ n <= Pivot THEN Kind ELSE {"body"}

Init == /\ mode \in Modes
        /\ scheduled = 0
        /\ task = [k \in Kind |-> [pool |-> {}, queue |-> {}, pend |-> [p \in Peer |-> {}], done |-> {}]]
        /\ cache = [n \in Num |-> nil]
        /\ offset = 1 /\ closed = FALSE
        /\ peers = Peer
        /\ busy = [k \in Kind |-> {}]
        /\ lacking = [p \in Peer |-> {}]
        /\ net = {}
        /\ finished = [k \in Kind |-> FALSE]
        /\ status = [k \in Kind |-> "run"]

Cached == offset .. offset + blockCacheLimit - 1

----------------------------------------------------------------------------
\* Schedule: queue the next headers for their body and, below the pivot, receipts.
\* A header that breaks the chain ends the sync (errBadPeer), which closes the queue.
Schedule ==
    /\ ~closed
    /\ \E last \in {scheduled, Min({scheduled + chunk, Height})}, broken \in BOOLEAN :
          /\ last > scheduled \/ broken
          /\ scheduled' = last
          /\ closed' = broken
          /\ task' = [k \in Kind |->
                LET new == {n \in (scheduled + 1)..last : k \in components(n)}
                IN  [task[k] EXCEPT !.pool = @ \cup new, !.queue = @ \cup new]]
    /\ UNCHANGED <<mode, cache, offset, peers, busy, lacking, net, finished, status>>

\* processHeaders sends false on the wake channel once the headers have run out.
NoMoreHeaders(k) ==
    /\ scheduled = Height /\ ~finished[k]
    /\ finished' = [finished EXCEPT ![k] = TRUE]
    /\ UNCHANGED <<mode, scheduled, task, cache, offset, closed, peers, busy, lacking, net, status>>

\* countProcessableItems: the leading complete results, stopping before the pivot
\* while the headers that verify it are not cached.
processable(n) ==
    /\ n \in Cached \cap Num
    /\ cache[n].pending = 0
    /\ mode = "fast" /\ n = Pivot =>
          \A j \in 1..forceVerify : n + j \in Cached /\ n + j \in Num /\ cache[n + j] # nil

countProcessableItems == Cardinality({n \in Cached : \A m \in offset..n : processable(m)})

WaitResults ==
    LET n == countProcessableItems
        results == offset .. offset + n - 1
    IN  /\ n > 0
        /\ task' = [k \in Kind |-> [task[k] EXCEPT !.done = @ \ results]]
        /\ cache' = [m \in Num |-> IF m \in results THEN nil ELSE cache[m]]
        /\ offset' = offset + n
        /\ UNCHANGED <<mode, scheduled, closed, peers, busy, lacking, net, finished, status>>

----------------------------------------------------------------------------
\* reserveHeaders for peer p: the headers popped from the task queue.  Every pop
\* uses a free slot of the cache, and popping stops when count requests are found.
space(t) == blockCacheLimit - Cardinality(t.done) - MapThenSumSet(LAMBDA p : Cardinality(t.pend[p]), Peer)
sendable(s, k, p) == s.task[k].queue \ (Noop[k] \cup lacking[p])
popped(s, k, p, count) ==
    {n \in s.task[k].queue : /\ Cardinality({m \in s.task[k].queue : m <= n}) <= space(s.task[k])
                             /\ Cardinality({m \in sendable(s, k, p) : m < n}) < count}

\* A header without content is done at once; the rest is requested, or pushed back
\* when the peer lacks it.
Reserve(s, k, p, pop) ==
    LET noop == pop \cap Noop[k]
        send == (pop \ noop) \ lacking[p]
        fresh(n) == IF s.cache[n] = nil THEN [pending |-> Cardinality(components(n)), parts |-> {}]
                                        ELSE s.cache[n]
    IN  [s EXCEPT !.task[k].queue = @ \ (noop \cup send),
                  !.task[k].pool = @ \ noop,
                  !.task[k].done = @ \cup noop,
                  !.task[k].pend[p] = send,
                  !.cache = [n \in Num |-> IF n \notin pop THEN @[n]
                                           ELSE IF n \notin noop THEN fresh(n)
                                           ELSE [pending |-> fresh(n).pending - 1, parts |-> fresh(n).parts \cup {k}]],
                  !.busy[k] = IF send = {} THEN @ ELSE @ \cup {p},
                  !.net = IF send = {} THEN @ ELSE @ \cup {[kind |-> k, peer |-> p, want |-> send]},
                  !.progressed = @ \/ noop # {},
                  !.running = @ \/ send # {}]

\* ShouldThrottleBlocks, ShouldThrottleReceipts.
throttle(s, k) == space(s.task[k]) <= 0

\* One idle peer of the update loop.
Assign(s, k, p, count) ==
    IF s.throttled \/ s.error # "" \/ s.task[k].queue = {} THEN s
    ELSE IF throttle(s, k) THEN [s EXCEPT !.throttled = TRUE]
    ELSE IF s.task[k].pend[p] # {} THEN s
    ELSE IF popped(s, k, p, count) \subseteq Cached THEN Reserve(s, k, p, popped(s, k, p, count))
    ELSE [s EXCEPT !.error = "errInvalidChain"]

\* Expiry returns the headers to the queue; a peer that failed a small request is
\* dropped (UnregisterPeer, Revoke), one that failed a large request is set idle.
Dropped(k, late) == {p \in late : Cardinality(task[k].pend[p]) <= 2}
Expire(k, late) ==
    LET gone == Dropped(k, late)
        back(j) == UNION {task[j].pend[p] : p \in IF j = k THEN late ELSE gone}
    IN  [task |-> [j \in Kind |-> [task[j] EXCEPT
                     !.queue = @ \cup back(j),
                     !.pend = [p \in Peer |-> IF p \in gone \/ (j = k /\ p \in late) THEN {} ELSE @[p]]]],
         busy |-> [busy EXCEPT ![k] = @ \ late],
         net |-> net, cache |-> cache,
         progressed |-> FALSE, throttled |-> FALSE, running |-> FALSE, error |-> ""]

InFlight(s, k) == \E p \in Peer : s.task[k].pend[p] # {}

\* The update step ends the loop when a reservation failed, or when every peer was
\* idle and none could be given one of the remaining tasks.
Outcome(s, k, idle, present) ==
    IF s.error # "" THEN s.error
    ELSE IF ~s.progressed /\ ~s.throttled /\ ~s.running /\ idle = present /\ s.task[k].queue # {}
         THEN "errPeersUnavailable" ELSE "run"

Apply(k, s, gone, result) ==
    /\ task' = s.task /\ busy' = s.busy /\ net' = s.net /\ cache' = s.cache
    /\ peers' = peers \ gone
    /\ status' = [status EXCEPT ![k] = result]
    /\ closed' = (result \notin {"run", "done"} \/ Master \in gone)

Distribute(k, s, gone, idle, order, count) ==
    LET a == FoldLeft(LAMBDA acc, p : Assign(acc, k, p, count), [s EXCEPT !.running = InFlight(s, k)], order)
    IN  Apply(k, a, gone, Outcome(a, k, idle, peers \ gone))

Rest(k, s, gone) ==
    \/ /\ s.task[k].queue = {}
       /\ Apply(k, s, gone, IF ~InFlight(s, k) /\ finished[k] THEN "done" ELSE "run")
    \/ /\ s.task[k].queue # {}
       /\ LET idle == (peers \ gone) \ s.busy[k]
          IN  \E order \in SetToSeqs(idle), count \in 2..maxFetch : Distribute(k, s, gone, idle, order, count)

\* The update step of fetchParts: expire, then hand out requests to the idle peers
\* in the order of their measured throughput, which may be any order.
Update(k) ==
    /\ status[k] = "run" /\ ~closed
    /\ IF peers = {} THEN /\ status' = [status EXCEPT ![k] = "errNoPeers"] /\ closed' = TRUE
                          /\ UNCHANGED <<task, busy, net, cache, peers>>
       ELSE \E late \in SUBSET {p \in peers : task[k].pend[p] # {}} :
               Rest(k, Expire(k, late), Dropped(k, late))
    /\ UNCHANGED <<mode, scheduled, offset, lacking, finished>>

----------------------------------------------------------------------------
\* deliver: the leading requested headers that the answer has content for.  The
\* answer carries a prefix of what was asked for, and perhaps junk after it.
accepted(want, got) == {n \in want : {m \in want : m <= n} = {m \in got : m <= n}}

\* Mutant of deliver: what the answer lacks is not queued again.
deliverForgetsRest(k, p, got, junk, acc) ==
    /\ task' = [task EXCEPT ![k] = [@ EXCEPT !.pend[p] = {}, !.pool = @ \ acc, !.done = @ \cup acc]]
    /\ cache' = [n \in Num |-> IF n \in acc THEN [pending |-> cache[n].pending - 1, parts |-> cache[n].parts \cup {k}]
                               ELSE cache[n]]
    /\ lacking' = [lacking EXCEPT ![p] = IF got = {} /\ ~junk THEN @ \cup task[k].pend[p] ELSE @]

deliver(k, p, got, junk, acc) ==
    LET want == task[k].pend[p]
    IN  /\ task' = [task EXCEPT ![k] = [@ EXCEPT !.pend[p] = {}, !.pool = @ \ acc, !.done = @ \cup acc,
                                                 !.queue = @ \cup (want \ acc)]]
        /\ cache' = [n \in Num |-> IF n \in acc THEN [pending |-> cache[n].pending - 1, parts |-> cache[n].parts \cup {k}]
                                   ELSE cache[n]]
        /\ lacking' = [lacking EXCEPT ![p] = IF got = {} /\ ~junk THEN @ \cup want ELSE @]

\* A delivery is stale when nothing of it fits; its peer is then not set idle.
stale(want, got, junk, acc) == want # {} /\ acc = {} /\ (got # {} \/ junk)
invalid(acc) == \E n \in acc : n \notin Cached \/ cache[n] = nil

Answer(m, got, junk) ==
    LET k == m.kind  p == m.peer  want == task[k].pend[p]  acc == accepted(want, got)
    IN  /\ net' = net \ {m}
        /\ IF p \notin peers THEN UNCHANGED <<task, cache, lacking, busy, status, closed>>
           ELSE /\ deliver(k, p, got, junk, acc)
                /\ status' = IF invalid(acc) THEN [status EXCEPT ![k] = "errInvalidChain"] ELSE status
                /\ closed' = invalid(acc)
                /\ busy' = IF stale(want, got, junk, acc) THEN busy ELSE [busy EXCEPT ![k] = @ \ {p}]

Heads(S) == {{n \in S : n < m} : m \in S} \cup {S}

Deliver == /\ ~closed
           /\ \E m \in net, junk \in BOOLEAN :
                 /\ status[m.kind] = "run"
                 /\ \E got \in Heads(m.want) : Answer(m, got, junk)
           /\ UNCHANGED <<mode, scheduled, offset, peers, finished>>

Next == \/ Schedule \/ WaitResults \/ Deliver
        \/ \E k \in Kind : NoMoreHeaders(k) \/ Update(k)

Spec == Init /\ [][Next]_vars

----------------------------------------------------------------------------
TypeOK == /\ mode \in Modes /\ scheduled \in 0..Height /\ offset \in 1..(Height + 1) /\ closed \in BOOLEAN
          /\ task \in [Kind -> [pool : SUBSET Num, queue : SUBSET Num, pend : [Peer -> SUBSET Num], done : SUBSET Num]]
          /\ \A n \in Num : cache[n].pending \in -1..2 /\ cache[n].parts \subseteq Kind
          /\ peers \subseteq Peer /\ busy \in [Kind -> SUBSET Peer] /\ lacking \in [Peer -> SUBSET Num]
          /\ \A m \in net : m.kind \in Kind /\ m.peer \in Peer /\ m.want \subseteq Num
          /\ finished \in [Kind -> BOOLEAN]

\* No download task is ever lost or handed out twice: while the sync runs, every
\* header of a task pool is in the task queue or in exactly one peer's request,
\* whatever timed out, was dropped, or was answered late.
TasksConserved ==
    ~closed => \A k \in Kind :
        LET t == task[k] IN
        /\ t.pool = t.queue \cup UNION {t.pend[p] : p \in Peer}
        /\ \A p \in Peer : t.pend[p] \cap t.queue = {}
        /\ \A p, r \in Peer : p # r => t.pend[p] \cap t.pend[r] = {}

\* A cached result counts exactly the parts it misses, so what WaitResults hands to
\* the import is complete; the done pools, on which throttling is based, agree.
CacheExact ==
    ~closed => \A n \in Num :
        /\ cache[n] # nil => /\ n \in Cached /\ cache[n].pending = Cardinality(components(n) \ cache[n].parts)
                             /\ \A k \in Kind : k \in cache[n].parts <=> n \in task[k].done
        /\ n < offset => \A k \in Kind : n \notin task[k].pool

\* The throttling keeps every reservation within the result cache: neither loop
\* ever fails with errInvalidChain, in reserveHeaders or in deliver.
NeverInvalidChain == \A k \in Kind : status[k] # "errInvalidChain"

-----------------------------------------------------------------------------
(***************************************************************************)
(* What the downloader knows of the quality of its peers                    *)
(* (src/pkg/eth/downloader/peer.go, downloader.go): throughput and round    *)
(* trip time of each peer, the estimate the tuner keeps of them, and the    *)
(* confidence in it that every new peer lowers.  The tuner and the          *)
(* registrations load and store the shared values without a common lock.    *)
(* Times are in tenths of a second, the confidence in thousandths.          *)
(***************************************************************************)

CONSTANTS QosPeer, version,           \* peers and their protocol versions
          QosKind, minProtocol,       \* kinds of requests and who can serve them
          Elapsed, Delivered,      \* what a request may turn out to take and to bring
          MaxFetch,                \* limit of one request
          qosTuningPeers, qosConfidenceCap,
          MaxMeasured, MaxTuned, MaxJoined    \* bounds

rttMinEstimate == 20
rttMaxEstimate == 200
rttMinConfidence == 100
ttlScaling == 3
ttlLimit == 600

VARIABLES qosPeers,                   \* peer -> round trip time, throughput and busy flag per kind
          rttEstimate, rttConfidence,
          tuner,                   \* confidence the tuner has loaded, or -1
          joining,                 \* peer -> confidence its registration has loaded, -1, or -2: not yet
          measured, tuned, joined
qosVars == <<qosPeers, rttEstimate, rttConfidence, tuner, joining, measured, tuned, joined>>

Known == DOMAIN qosPeers

QosInit == /\ qosPeers = [p \in {} |-> 0]
           /\ rttEstimate = rttMaxEstimate /\ rttConfidence = 1000
           /\ tuner = -1 /\ joining = [p \in QosPeer |-> -1]
           /\ measured = 0 /\ tuned = 0 /\ joined = 0

Clamp(median) == IF median < rttMinEstimate THEN rttMinEstimate
                 ELSE IF median > rttMaxEstimate THEN rttMaxEstimate ELSE median

Rtts == SortSeq(SetToSeq({<<qosPeers[p].rtt, p>> : p \in Known}), LAMBDA a, b : a[1] < b[1])
medianRTT ==
  IF Known = {} THEN rttMaxEstimate
  ELSE Clamp(Rtts[1 + (IF qosTuningPeers <= Cardinality(Known) THEN qosTuningPeers ELSE Cardinality(Known)) \div 2][1])

Average(k) == IF Known = {} THEN 0
              ELSE MapThenSumSet(LAMBDA p : qosPeers[p].throughput[k], Known) \div Cardinality(Known)

\* peerSet.Register: the newcomer starts at the median and the average of the
\* others.  RegisterPeer lowers the confidence afterwards.
Register(p) ==
  /\ p \notin Known /\ joining[p] = -1 /\ joined < MaxJoined
  /\ qosPeers' = [o \in Known \cup {p} |->
          IF o = p THEN [rtt |-> medianRTT, throughput |-> [k \in QosKind |-> Average(k)], busy |-> {}]
          ELSE qosPeers[o]]
  /\ joining' = [joining EXCEPT ![p] = -2] /\ joined' = joined + 1
  /\ UNCHANGED <<rttEstimate, rttConfidence, tuner, measured, tuned>>

Unregister(p) ==
  /\ p \in Known
  /\ qosPeers' = [o \in Known \ {p} |-> qosPeers[o]]
  /\ UNCHANGED <<rttEstimate, rttConfidence, tuner, joining, measured, tuned, joined>>

\* What the confidence becomes with n peers; 0 and many peers leave it alone.
Reduced(conf, n) == IF (conf * (n - 1)) \div n < rttMinConfidence THEN rttMinConfidence ELSE (conf * (n - 1)) \div n

ReduceLoad(p) ==
  /\ joining[p] = -2
  /\ \/ /\ Cardinality(Known) = 0 \/ Cardinality(Known) >= qosConfidenceCap
        /\ joining' = [joining EXCEPT ![p] = -1]
     \/ /\ Cardinality(Known) = 1 /\ joining' = [joining EXCEPT ![p] = 1000]
     \/ /\ Cardinality(Known) \in 2 .. qosConfidenceCap - 1
        /\ joining' = [joining EXCEPT ![p] = Reduced(rttConfidence, Cardinality(Known))]
  /\ UNCHANGED <<qosPeers, rttEstimate, rttConfidence, tuner, measured, tuned, joined>>

ReduceStore(p) ==
  /\ joining[p] >= 0
  /\ rttConfidence' = joining[p] /\ joining' = [joining EXCEPT ![p] = -1]
  /\ UNCHANGED <<qosPeers, rttEstimate, tuner, measured, tuned, joined>>

\* One round of qosTuner: the estimate, then the confidence.
TunerRtt ==
  /\ tuner = -1 /\ tuned < MaxTuned
  /\ rttEstimate' = (3 * rttEstimate + medianRTT) \div 4
  /\ tuner' = rttConfidence /\ tuned' = tuned + 1
  /\ UNCHANGED <<qosPeers, rttConfidence, joining, measured, joined>>
TunerConfidence ==
  /\ tuner >= 0
  /\ rttConfidence' = tuner + (1000 - tuner) \div 2
  /\ tuner' = -1
  /\ UNCHANGED <<qosPeers, rttEstimate, joining, measured, tuned, joined>>

\* FetchHeaders .. FetchNodeData: one request of a kind at a time.
Fetch(p, k) ==
  /\ p \in Known /\ version[p] >= minProtocol[k] /\ k \notin qosPeers[p].busy
  /\ qosPeers' = [qosPeers EXCEPT ![p].busy = @ \cup {k}]
  /\ UNCHANGED <<rttEstimate, rttConfidence, tuner, joining, measured, tuned, joined>>

\* setIdle: nothing delivered costs the peer its throughput, not its time.
setIdle(p, k, delivered, elapsed) ==
  /\ p \in Known /\ k \in qosPeers[p].busy /\ measured < MaxMeasured
  /\ measured' = measured + 1
  /\ qosPeers' = [qosPeers EXCEPT ![p] =
          [rtt |-> IF delivered = 0 THEN @.rtt ELSE (9 * @.rtt + elapsed) \div 10,
           throughput |-> [@.throughput EXCEPT ![k] =
             IF delivered = 0 THEN 0 ELSE (9 * @ + (10 * delivered) \div elapsed) \div 10],
           busy |-> @.busy \ {k}]]
  /\ UNCHANGED <<rttEstimate, rttConfidence, tuner, joining, tuned, joined>>

QosNext ==
  \/ \E p \in QosPeer : Register(p) \/ Unregister(p) \/ ReduceLoad(p) \/ ReduceStore(p)
  \/ \E p \in QosPeer, k \in QosKind : \/ Fetch(p, k)
                                       \/ \E d \in Delivered, e \in Elapsed : setIdle(p, k, d, e)
  \/ TunerRtt \/ TunerConfidence

QosSpec == QosInit /\ [][QosNext]_qosVars

-----------------------------------------------------------------------------
requestRTT == (rttEstimate * 9) \div 10
requestTTL == IF ttlScaling * ((rttEstimate * 1000) \div rttConfidence) > ttlLimit THEN ttlLimit
              ELSE ttlScaling * ((rttEstimate * 1000) \div rttConfidence)
Capacity(p, k, target) ==
  Min({1 + Max({1, (qosPeers[p].throughput[k] * target) \div 10}), MaxFetch})

\* idlePeers: the peers that can serve the kind and are not busy, in the order
\* the exchanges of the two loops leave a list of them in.
Exchange(list, pair) ==
  IF list[pair[1]].throughput < list[pair[2]].throughput
  THEN [list EXCEPT ![pair[1]] = list[pair[2]], ![pair[2]] = list[pair[1]]] ELSE list
Exchanges(n) == FlattenSeq([i \in 1 .. n |-> [d \in 1 .. n - i |-> <<i, i + d>>]])
Idle(k) == {p \in Known : version[p] >= minProtocol[k] /\ k \notin qosPeers[p].busy}
idlePeers(k, order) ==
  FoldLeft(Exchange, [i \in DOMAIN order |-> [id |-> order[i], throughput |-> qosPeers[order[i]].throughput[k]]],
           Exchanges(Len(order)))

QosTypeOK == /\ Known \subseteq QosPeer /\ \A p \in Known : qosPeers[p].busy \subseteq QosKind
             /\ rttEstimate \in Nat /\ rttConfidence \in Nat

\* Whatever measurements, peers and races of stores there were, a request is
\* given at least ttlScaling times the estimated round trip time, which stays
\* within its limits, as the confidence does; every request asks for at least
\* two items and no more than the limit; and the idle peers come best first,
\* from whatever order the map yields them in.
QosExact ==
  /\ rttEstimate \in rttMinEstimate .. rttMaxEstimate
  /\ rttConfidence \in rttMinConfidence .. 1000
  /\ requestTTL >= ttlScaling * rttEstimate /\ requestTTL > requestRTT
  /\ \A p \in Known, k \in QosKind : Capacity(p, k, requestRTT) \in 2 .. MaxFetch
  /\ \A k \in QosKind : \A order \in {s \in [1 .. Cardinality(Idle(k)) -> Idle(k)] : IsInjective(s)} :
       \A i \in 1 .. Len(order) - 1 :
         idlePeers(k, order)[i].throughput >= idlePeers(k, order)[i + 1].throughput
=============================================================================
