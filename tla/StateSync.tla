------------------------------ MODULE StateSync -------------------------------
(*****************************************************************************)
(* The download of a state: the loop that assigns trie nodes to peers and    *)
(* the scheduler of package trie that names the missing ones.                *)
(*****************************************************************************)
EXTENDS Integers, Sequences, FiniteSetsExt, SequencesExt, FiniteSets

-----------------------------------------------------------------------------
(***************************************************************************)
(* eth/downloader/statesync.go: runStateSync, which tracks the requests in *)
(* flight, and the loop of stateSync, which assigns trie nodes to peers    *)
(* and processes the answers.  The scheduler (trie.TrieSync) is a tree:    *)
(* a node becomes known when its parent has been processed.  A peer that   *)
(* reconnects keeps its id but is a new connection.                        *)
(***************************************************************************)

CONSTANTS Peer, Node, Root,
          Parent,             \* node -> its parent (the root's is itself)
          Capacity,           \* values NodeDataCapacity may return
          MaxReconnects       \* bound on reconnections of a peer

VARIABLES phase,              \* the loop: "assign", "wait", or its result
          queue,              \* nodes known to the scheduler, not yet popped by Missing
          processed,          \* nodes whose data was injected
          tasks,              \* retry set: node -> set of peers tried, or Absent
          active,             \* peer -> its request in flight, or NoReq
          finished,           \* requests completed, timed out or dropped
          net,                \* requests a peer may still answer
          peers, conn,        \* registered peers; number of the current connection
          busy,               \* peers whose current connection is fetching
          drops               \* peer drop events not yet seen by runStateSync

vars == <<phase, queue, processed, tasks, active, finished, net, peers, conn, busy, drops>>

Absent == {"absent"}
NoReq == [items |-> {}]

Init == /\ phase = "assign" /\ queue = {Root} /\ processed = {}
        /\ tasks = [n \in Node |-> Absent]
        /\ active = [p \in Peer |-> NoReq] /\ finished = <<>> /\ net = {}
        /\ peers = Peer /\ conn = [p \in Peer |-> 0] /\ busy = {} /\ drops = <<>>

----------------------------------------------------------------------------
\* A request carries its nodes with the attempts made for each, this peer included.
Request(p, items, t) == [peer |-> p, conn |-> conn[p], items |-> items,
                         tried |-> [n \in items |-> t[n] \cup {p}], response |-> "none", got |-> {}]

\* runStateSync tracks the request; one already active for the same id is dropped.
Track(s, p, items) ==
    [s EXCEPT !.tasks = [n \in Node |-> IF n \in items THEN Absent ELSE @[n]],
              !.finished = IF s.active[p] = NoReq THEN @
                           ELSE Append(@, [s.active[p] EXCEPT !.response = "dropped"]),
              !.active[p] = Request(p, items, s.tasks),
              !.busy = @ \cup {p},
              !.net = @ \cup {[peer |-> p, conn |-> conn[p], items |-> items]}]

\* fillTasks: top up from the scheduler, then pick up to n nodes not tried with p.
UpTo(S, n) == kSubset(Max({0, Min({n, Cardinality(S)})}), S)
Queued(s) == {m \in Node : s.tasks[m] # Absent}
Refill(s, new) == [s EXCEPT !.tasks = [m \in Node |-> IF m \in new THEN {} ELSE @[m]], !.queue = @ \ new]
Pick(s, p, n) == {IF items = {} THEN s ELSE Track(s, p, items) :
                    items \in UpTo({m \in Queued(s) : p \notin s.tasks[m]}, n)}
fillTasks(s, p, n) == UNION {Pick(Refill(s, new), p, n) : new \in UpTo(s.queue, n - Cardinality(Queued(s)))}

\* assignTasks: every idle peer in turn.
AssignPeer(s, p) == UNION {fillTasks(s, p, n) : n \in Capacity}

Assign ==
    /\ phase = "assign"
    /\ IF processed = Node
       THEN phase' = "done" /\ UNCHANGED <<queue, tasks, active, finished, net, busy>>
       ELSE \E s \in FoldLeft(LAMBDA S, p : UNION {AssignPeer(t, p) : t \in S},
                              {[queue |-> queue, tasks |-> tasks, active |-> active,
                                finished |-> finished, net |-> net, busy |-> busy]},
                              SetToSeq(peers \ busy)) :
               /\ queue' = s.queue /\ tasks' = s.tasks /\ active' = s.active
               /\ finished' = s.finished /\ net' = s.net /\ busy' = s.busy
               /\ phase' = "wait"
    /\ UNCHANGED <<processed, peers, conn, drops>>

----------------------------------------------------------------------------
\* runStateSync: an answer, a peer drop or a timeout ends the active request.
Finish(p, how, got) ==
    /\ finished' = Append(finished, [active[p] EXCEPT !.response = how, !.got = got])
    /\ active' = [active EXCEPT ![p] = NoReq]

Answer(m) ==
    /\ phase = "wait" /\ m \in net /\ m.peer \in peers /\ m.conn = conn[m.peer]
    /\ net' = net \ {m}
    /\ IF active[m.peer] = NoReq THEN UNCHANGED <<finished, active>>
       ELSE \E got \in SUBSET m.items : Finish(m.peer, "data", got)
    /\ UNCHANGED <<phase, queue, processed, tasks, peers, conn, busy, drops>>

Timeout(p) ==
    /\ phase = "wait" /\ active[p] # NoReq
    /\ Finish(p, "timeout", {})
    /\ UNCHANGED <<phase, queue, processed, tasks, net, peers, conn, busy, drops>>

PeerDrop ==
    /\ phase = "wait" /\ drops # <<>>
    /\ drops' = Tail(drops)
    /\ IF active[Head(drops)] = NoReq THEN UNCHANGED <<finished, active>>
       ELSE Finish(Head(drops), "dropped", {})
    /\ UNCHANGED <<phase, queue, processed, tasks, net, peers, conn, busy>>

\* The peer set: a connection is lost, or a peer comes back under the same id.
Disconnect(p) ==
    /\ p \in peers /\ conn[p] < MaxReconnects
    /\ peers' = peers \ {p} /\ busy' = busy \ {p} /\ drops' = Append(drops, p)
    /\ UNCHANGED <<phase, queue, processed, tasks, active, finished, net, conn>>

Reconnect(p) ==
    /\ p \in Peer \ peers /\ conn[p] < MaxReconnects
    /\ peers' = peers \cup {p} /\ conn' = [conn EXCEPT ![p] = @ + 1]
    /\ phase' = IF phase = "wait" THEN "assign" ELSE phase
    /\ UNCHANGED <<queue, processed, tasks, active, finished, net, busy, drops>>

----------------------------------------------------------------------------
\* process: inject the data, put the rest back; an item every peer has failed to
\* supply ends the sync.
Injected(req) == req.got \ processed
Missing(req) == req.items \ req.got
Tried(req, n) == IF req.got # {} \/ req.response # "data" THEN req.tried[n] \ {req.peer} ELSE req.tried[n]
Children(S) == {n \in Node \ (S \cup processed) : Parent[n] \in S}
StaleDelivery(req) == req.got # {} /\ req.got \cap req.items = {}

\* The loop receives a finished request: a peer that stalls on a minimal request is
\* dropped, the answer is processed, and unless it is stale the peer is idle again.
Receive ==
    /\ phase = "wait" /\ finished # <<>>
    /\ LET req == Head(finished)
           stall == Cardinality(req.items) <= 2 /\ req.response = "timeout" /\ req.peer \in peers
           left == IF stall THEN peers \ {req.peer} ELSE peers
           failed == \E n \in Missing(req) : Cardinality(Tried(req, n)) >= Cardinality(left)
       IN  /\ peers' = left
           /\ drops' = IF stall THEN Append(drops, req.peer) ELSE drops
           /\ processed' = processed \cup Injected(req)
           /\ queue' = queue \cup Children(Injected(req))
           /\ tasks' = [n \in Node |-> IF n \in Missing(req) THEN Tried(req, n) ELSE tasks[n]]
           /\ busy' = IF stall \/ (~StaleDelivery(req) /\ req.conn = conn[req.peer]) THEN busy \ {req.peer} ELSE busy
           /\ phase' = IF failed THEN "failed" ELSE "assign"
    /\ finished' = Tail(finished)
    /\ UNCHANGED <<active, net, conn>>

Cancel == /\ phase \in {"assign", "wait"} /\ phase' = "cancelled"
          /\ UNCHANGED <<queue, processed, tasks, active, finished, net, peers, conn, busy, drops>>

Next == \/ Assign \/ PeerDrop \/ Receive \/ Cancel
        \/ \E m \in net : Answer(m)
        \/ \E p \in Peer : Timeout(p) \/ Disconnect(p) \/ Reconnect(p)

Spec == Init /\ [][Next]_vars

\* The two loops run and peers answer.
Fair == WF_vars(Assign) /\ WF_vars(PeerDrop) /\ WF_vars(Receive) /\ WF_vars(\E m \in net : Answer(m))

TypeOK == /\ queue \cup processed \subseteq Node /\ peers \subseteq Peer /\ busy \subseteq Peer
          /\ \A n \in Node : tasks[n] = Absent \/ tasks[n] \subseteq Peer
          /\ phase \in {"assign", "wait", "done", "failed", "cancelled"}

InRequests(n) == {p \in Peer : n \in active[p].items}
InFinished(n) == {i \in DOMAIN finished : n \in finished[i].items}
One(b) == IF b THEN 1 ELSE 0

\* No trie node is lost or fetched twice at a time: every node the scheduler has
\* announced and that is not processed is in its queue, in the retry set, or in
\* exactly one request, whatever times out, disconnects or answers late; so the
\* sync cannot end, or stop for want of tasks, with a node missing.
NodesConserved ==
    /\ phase \in {"assign", "wait"} =>
         \A n \in Node :
            LET places == One(n \in queue) + One(tasks[n] # Absent)
                            + Cardinality(InRequests(n)) + Cardinality(InFinished(n))
            IN  /\ places <= 1
                /\ places = 0 => n \in processed \/ Parent[n] \notin processed
    /\ phase = "done" => processed = Node

-----------------------------------------------------------------------------
(***************************************************************************)
(* The state download scheduler (trie.TrieSync, with the leaf callback of  *)
(* state.NewStateSync): requests for missing nodes, their dependencies,    *)
(* the memory batch of completed nodes and its commit to the database,     *)
(* with crashes and restarts towards another root.  The order in which the *)
(* queue hands out requests (deepest first) is left open.                  *)
(***************************************************************************)

CONSTANTS TrieNode,      \* hashes of trie nodes and raw entries
          Links,     \* node -> sequence of [h, via]: "child", or "sub" and "raw" from an account leaf
          Roots,     \* the state roots synced to
          MaxCrashes

VARIABLES root, requests, trieQueue, inflight, order, disk, crashes
trieVars == <<root, requests, trieQueue, inflight, order, disk, crashes>>

NoParent == "none"
TrieRequest(raw, parents) == [raw |-> raw, data |-> FALSE, parents |-> parents, deps |-> 0]

Batch == ToSet(order)

-----------------------------------------------------------------------------
(* ts = [requests, queue, order]; known is what the database holds.        *)

schedule(ts, h, req) ==
    IF h \in DOMAIN ts.requests
    THEN [ts EXCEPT !.requests[h].parents = @ \o req.parents]
    ELSE [ts EXCEPT !.queue = @ \union {h}, !.requests = [x \in DOMAIN @ \union {h} |-> IF x = h THEN req ELSE @[x]]]

isKnown(ts, known, h) == h \in known \/ h \in ToSet(ts.order)

AddEntry(ts, known, h, raw, parent) ==
    IF isKnown(ts, known, h) THEN ts
    ELSE IF parent = NoParent THEN schedule(ts, h, TrieRequest(raw, <<>>))
    ELSE schedule([ts EXCEPT !.requests[parent].deps = @ + 1], h, TrieRequest(raw, <<parent>>))

AddSubTrie(ts, known, h, parent) == AddEntry(ts, known, h, FALSE, parent)
AddRawEntry(ts, known, h, parent) == AddEntry(ts, known, h, TRUE, parent)

\* The callback of a leaf schedules the storage trie and the code at once ...
callback(ts, known, parent, l) ==
    IF l.via = "sub" THEN AddSubTrie(ts, known, l.h, parent)
    ELSE IF l.via = "raw" THEN AddRawEntry(ts, known, l.h, parent) ELSE ts

RECURSIVE callbacks(_, _, _, _)
callbacks(ts, known, parent, ls) ==
    IF ls = <<>> THEN ts ELSE callbacks(callback(ts, known, parent, Head(ls)), known, parent, Tail(ls))

\* ... the children that are not known are scheduled after it.
children(ts, known, h) == SelectSeq(Links[h], LAMBDA l : l.via = "child" /\ ~isKnown(ts, known, l.h))

RECURSIVE scheduleAll(_, _, _)
scheduleAll(ts, parent, ls) ==
    IF ls = <<>> THEN ts ELSE scheduleAll(schedule(ts, Head(ls).h, TrieRequest(FALSE, <<parent>>)), parent, Tail(ls))

RECURSIVE commit(_, _)
RECURSIVE notify(_, _)
delete(ts, h) == [ts EXCEPT !.order = Append(@, h), !.requests = [x \in DOMAIN @ \ {h} |-> @[x]]]
commit(ts, h) == notify(delete(ts, h), ts.requests[h].parents)

lowered(ts, p) == [ts EXCEPT !.requests[p].deps = @ - 1]
notified(ts, p) == IF ts.requests[p].deps = 0 THEN commit(ts, p) ELSE ts
notify(ts, ps) == IF ps = <<>> THEN ts ELSE notify(notified(lowered(ts, Head(ps)), Head(ps)), Tail(ps))

addChildren(ts, h, ls) ==
    IF ls = <<>> /\ ts.requests[h].deps = 0 THEN commit(ts, h)
    ELSE scheduleAll([ts EXCEPT !.requests[h].deps = @ + Len(ls)], h, ls)

expand(ts, known, h) == addChildren(ts, h, children(ts, known, h))

process(ts, known, h) ==
    IF ts.requests[h].raw THEN commit(ts, h)
    ELSE expand(callbacks([ts EXCEPT !.requests[h].data = TRUE], known, h, Links[h]), known, h)

NewTrieSync(r, known) ==
    AddSubTrie([requests |-> [x \in {} |-> TrieRequest(FALSE, <<>>)], queue |-> {}, order |-> <<>>], known, r, NoParent)

-----------------------------------------------------------------------------
Become(ts) == requests' = ts.requests /\ trieQueue' = ts.queue /\ order' = ts.order
This == [requests |-> requests, queue |-> trieQueue, order |-> order]

TrieInit ==
    /\ root \in Roots /\ disk = {} /\ inflight = {} /\ crashes = 0
    /\ requests = NewTrieSync(root, disk).requests
    /\ trieQueue = NewTrieSync(root, disk).queue
    /\ order = <<>>

TrieMissing(h) ==
    /\ h \in trieQueue
    /\ trieQueue' = trieQueue \ {h}
    /\ inflight' = inflight \union {h}
    /\ UNCHANGED <<root, requests, order, disk, crashes>>

\* A delivery of a node that was asked for; a second one of the same node is refused
\* (ErrNotRequested, ErrAlreadyProcessed) and changes nothing.
Process(h) ==
    /\ h \in inflight
    /\ IF h \notin DOMAIN requests \/ requests[h].data THEN UNCHANGED <<requests, trieQueue, order>>
       ELSE Become(process(This, disk, h))
    /\ UNCHANGED <<root, inflight, disk, crashes>>

\* The batch is written in the order of completion, up to an error after n entries.
Commit(n) ==
    /\ order # <<>>
    /\ disk' = disk \union ToSet(SubSeq(order, 1, n))
    /\ order' = IF n = Len(order) THEN <<>> ELSE order
    /\ UNCHANGED <<root, requests, trieQueue, inflight, crashes>>

\* What is in memory is lost; the sync starts again, to the same or a newer root.
Restart(r) ==
    /\ crashes < MaxCrashes
    /\ crashes' = crashes + 1
    /\ root' = r
    /\ Become(NewTrieSync(r, disk))
    /\ inflight' = {}
    /\ UNCHANGED disk

TrieNext == \/ \E h \in TrieNode : TrieMissing(h) \/ Process(h)
            \/ \E n \in 0 .. Len(order) : Commit(n)
            \/ \E r \in Roots : Restart(r)

TrieSpec == TrieInit /\ [][TrieNext]_trieVars

-----------------------------------------------------------------------------

\* A node is written only after everything below it, so that a database that holds a
\* node holds its whole subtree at any crash, also when the write of the batch stopped
\* half way (sync.go: membatch.order, children and AddSubTrie stop at a known node).
DiskClosed == \A h \in disk : \A l \in ToSet(Links[h]) : l.h \in disk

\* A processed node waits for exactly the requests that name it as a parent, counted
\* with repetition, and is committed when the last of them is (deps, parents).
occurrences(h, c) == Cardinality({i \in DOMAIN requests[c].parents : requests[c].parents[i] = h})
RECURSIVE waits(_, _)
waits(h, S) == IF S = {} THEN 0 ELSE LET c == CHOOSE x \in S : TRUE IN occurrences(h, c) + waits(h, S \ {c})
DepsExact ==
    \A h \in DOMAIN requests :
        /\ requests[h].deps = waits(h, DOMAIN requests)
        /\ requests[h].data <=> requests[h].deps > 0
        /\ requests[h].data \/ h \in trieQueue \/ h \in inflight

\* When no request is left, the state is complete in the database and the batch
\* (Pending; the downloader's state sync ends then).
RECURSIVE reach(_)
reach(S) == LET T == S \union UNION {{l.h : l \in ToSet(Links[h])} : h \in S} IN IF T = S THEN S ELSE reach(T)
DoneIsComplete == DOMAIN requests = {} => reach({root}) \subseteq disk \union Batch
=============================================================================
