------------------------------- MODULE MCSync -------------------------------
(***************************************************************************)
(* Model checking of the downloading side of package eth: the block        *)
(* fetcher, the queue and the quality of service of the downloader, its    *)
(* header sync and ancestor search, its cycles and the processing of a     *)
(* fast sync, the state sync and its trie scheduler.  A behaviour exercises *)
(* one part, chosen by the initial state; the others stay where they are.  *)
(***************************************************************************)
EXTENDS SyncCycle

VARIABLES part,
          fetch, blocks, dropped, notified,
          dqMode, scheduled, task, cache, offset, dqClosed, dqPeers, dqBusy, lacking, dqNet, dqFinished, status,
          qosPeers, rttEstimate, rttConfidence, tuner, joining, measured, tuned, joined,
          local, remote, fork, lied, step, height, start, end,
          from, hsPhase, skeleton, pool, hsQueue, pend, miss, filled, proced, contCh, procCh, hsPeers, cancelled,
          origin, rollback, hsChain, processor,
          ssPhase, ssQueue, processed, tasks, active, ssFinished, ssNet, ssPeers, conn, ssBusy, drops,
          root, requests, trieQueue, inflight, order, disk, crashes

\* Block b says that it is as high as its parent a.
Fe == INSTANCE Fetcher WITH
    Peer <- {"p", "q"}, Hash <- {"a", "b"}, Genesis <- "g", Invalid <- {"b"}, EmptyBody <- "",
    Number <- [a |-> 1, b |-> 1], Parent <- [a |-> "g", b |-> "a"], Body <- [a |-> "x", b |-> ""],
    hashLimit <- 2, blockLimit <- 1, maxUncleDist <- 0, maxQueueDist <- 2, MaxNotify <- 2

Queue == INSTANCE DownloadQueue WITH
    Peer <- {"p", "q"}, Master <- "p", Height <- 3, Noop <- [body |-> {2}, receipt |-> {1}],
    blockCacheLimit <- 2, forceVerify <- 1, maxFetch <- 2, Pivot <- 2, chunk <- 2, Modes <- {"full", "fast"},
    QosPeer <- {1, 2}, version <- <<62, 63>>, QosKind <- {"bodies", "state"},
    minProtocol <- [bodies |-> 62, state |-> 63], Elapsed <- {5, 900}, Delivered <- {0, 40}, MaxFetch <- 64,
    qosTuningPeers <- 1, qosConfidenceCap <- 3, MaxMeasured <- 1, MaxTuned <- 2, MaxJoined <- 2,
    mode <- dqMode, peers <- dqPeers, busy <- dqBusy, net <- dqNet, finished <- dqFinished, closed <- dqClosed

Headers == INSTANCE HeaderSync WITH
    Peer <- {"p", "q"}, Master <- "p", Height <- 9, MaxHeaderFetch <- 2, MaxSkeletonSize <- 3, SafetyNet <- 2,
    MaxLen <- 9, AnMaxHeaderFetch <- 4, Gap <- 2, MaxForkAncestry <- 7,
    phase <- hsPhase, queue <- hsQueue, peers <- hsPeers, chain <- hsChain

\* Two state roots that share subtrees, storage and code.
Link(h, via) == [h |-> h, via |-> via]
Account == <<Link("d", "sub"), Link("c", "raw")>>
DAG == [r |-> <<Link("a", "child"), Link("b", "child"), Link("a", "child")>>,
        s |-> <<Link("b", "child")>> \o Account,
        a |-> Account, b |-> Account, d |-> <<Link("e", "child")>>, c |-> <<>>, e |-> <<>>]

States == INSTANCE StateSync WITH
    Peer <- {"p", "q"}, Node <- {"r", "a", "b"}, Root <- "r",
    Parent <- [r |-> "r", a |-> "r", b |-> "r"], Capacity <- {2}, MaxReconnects <- 1,
    TrieNode <- DOMAIN DAG, Links <- DAG, Roots <- {"r", "s"}, MaxCrashes <- 2,
    phase <- ssPhase, queue <- ssQueue, finished <- ssFinished, net <- ssNet, peers <- ssPeers, busy <- ssBusy

fe == <<fetch, blocks, dropped, notified>>
qu == <<dqMode, scheduled, task, cache, offset, dqClosed, dqPeers, dqBusy, lacking, dqNet, dqFinished, status>>
qs == <<qosPeers, rttEstimate, rttConfidence, tuner, joining, measured, tuned, joined>>
an == <<local, remote, fork, lied, step, height, start, end>>
hs == <<from, hsPhase, skeleton, pool, hsQueue, pend, miss, filled, proced, contCh, procCh, hsPeers, cancelled,
        origin, rollback, hsChain, processor>>
ss == <<ssPhase, ssQueue, processed, tasks, active, ssFinished, ssNet, ssPeers, conn, ssBusy, drops>>
ts == <<root, requests, trieQueue, inflight, order, disk, crashes>>
allVars == <<part, fe, qu, qs, an, hs, vars, fastVars, ss, ts>>

AllInit == /\ part \in {"fetcher", "queue", "qos", "ancestor", "headers", "cycle", "fast", "states", "trie"}
           /\ Fe!Init /\ Queue!Init /\ Queue!QosInit /\ Headers!Init /\ Headers!AnInit
           /\ Init /\ FastInit /\ States!Init /\ States!TrieInit
           /\ part # "queue" => dqMode = "full"
           /\ part # "ancestor" => local = 0 /\ remote = 0 /\ ~lied
           /\ part # "fast" => pivot = 0
           /\ part # "trie" => root = "r"

AllNext ==
    \/ part = "fetcher" /\ Fe!Next /\ UNCHANGED <<part, qu, qs, an, hs, vars, fastVars, ss, ts>>
    \/ part = "queue" /\ Queue!Next /\ UNCHANGED <<part, fe, qs, an, hs, vars, fastVars, ss, ts>>
    \/ part = "qos" /\ Queue!QosNext /\ UNCHANGED <<part, fe, qu, an, hs, vars, fastVars, ss, ts>>
    \/ part = "ancestor" /\ Headers!AnNext /\ UNCHANGED <<part, fe, qu, qs, hs, vars, fastVars, ss, ts>>
    \/ part = "headers" /\ Headers!Next /\ UNCHANGED <<part, fe, qu, qs, an, vars, fastVars, ss, ts>>
    \/ part = "cycle" /\ Next /\ UNCHANGED <<part, fe, qu, qs, an, hs, fastVars, ss, ts>>
    \/ part = "fast" /\ FastNext /\ UNCHANGED <<part, fe, qu, qs, an, hs, vars, ss, ts>>
    \/ part = "states" /\ States!Next /\ UNCHANGED <<part, fe, qu, qs, an, hs, vars, fastVars, ts>>
    \/ part = "trie" /\ States!TrieNext /\ UNCHANGED <<part, fe, qu, qs, an, hs, vars, fastVars, ss>>

\* The fairness of HeaderSync and SyncCycle, for the behaviours that exercise them.
AllFair == /\ WF_hs(part = "headers" /\ Headers!Progress)
           /\ \A c \in Caller : WF_vars(part = "cycle" /\ Step(c))
           /\ WF_vars(part = "cycle" /\ (CheckMaster \/ Cancel))
           /\ WF_vars(part = "cycle" /\ Send("d"))

AllSpec == AllInit /\ [][AllNext]_allVars /\ AllFair

-----------------------------------------------------------------------------
Types == /\ Queue!TypeOK /\ Queue!QosTypeOK /\ Headers!AnTypeOK /\ Headers!TypeOK
         /\ TypeOK /\ FastTypeOK /\ States!TypeOK

\* Work of a download is never lost, doubled or reordered, whatever times out, is
\* dropped or answers late: blocks queued by the fetcher (fetcher.go), content tasks
\* and their result cache (queue.go), the batches of the header skeleton and the order
\* in which headers reach the processor (fetchHeaders, processHeaders), and trie nodes
\* (statesync.go).  What a sync leaves behind is right: findAncestor returns a block
\* common to both chains; a fast sync stores a block's state before it makes the block
\* the head (processFastSyncContent); the trie scheduler commits a node after all below
\* it, so a crash leaves no hole (sync.go); the estimates stay in their limits (peer.go).
DownloadExact == /\ Types
                 /\ Fe!QueueExact /\ Fe!RequestsExclusive
                 /\ Queue!TasksConserved /\ Queue!CacheExact /\ Queue!NeverInvalidChain /\ Queue!QosExact
                 /\ Headers!BatchesConserved /\ Headers!HeadersInOrder
                 /\ Headers!AncestorCommon /\ Headers!SearchBrackets
                 /\ ContentExact
                 /\ States!NodesConserved /\ States!DiskClosed /\ States!DepsExact /\ States!DoneIsComplete

\* The header goroutines always return; a cycle whose master peer is lost ends; a
\* deliver call returns once its cycle is cancelled or over.
SyncEnds == /\ part = "headers" => Headers!HeadersEnd
            /\ MasterLossEndsCycle /\ DeliverReturns
=============================================================================
