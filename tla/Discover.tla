------------------------------- MODULE Discover -------------------------------
(*****************************************************************************)
(* Node discovery: the table, the lookup and the packet loop.                *)
(*****************************************************************************)
EXTENDS Integers, Sequences, FiniteSets, SequencesExt, Bitwise

-----------------------------------------------------------------------------
(***************************************************************************)
(* The node table of the discovery protocol (p2p/discover/table.go) with   *)
(* the part of the node database it uses (database.go): bonding with a     *)
(* limited number of ping/pong exchanges and one exchange per node, the    *)
(* buckets ordered by activity, the replacement of silent nodes while the  *)
(* table is unlocked, and the removal of nodes that fail queries.          *)
(*                                                                         *)
(* A thread is a call of bond (from a received ping, from bondall) or the  *)
(* query goroutine of a lookup.  A bucket entry carries the thread that    *)
(* contests it: a bump or replacement installs a fresh object, as in the   *)
(* code.                                                                   *)
(***************************************************************************)

CONSTANTS Id, self,             \* node identities, the own one included
          logdist,              \* [Id -> index of the bucket]
          bucketSize, maxBondingPingPongs, maxFindnodeFailures,
          Seeds,                \* sequence of nodes the database knows from an earlier run
          Thread, Calls         \* concurrent calls; calls in all

VARIABLES buckets,    \* [index -> sequence of entries, most recently active first]
          db,         \* [Id -> what the node database stores]
          bonding,    \* [Id -> thread whose exchange is registered, or none]
          bondslots,  \* free slots
          th,         \* [Thread -> local state of the call]
          calls       \* calls left
vars == <<buckets, db, bonding, bondslots, th, calls>>

None == "none"
Index == {logdist[n] : n \in Id}
Unknown == [node |-> FALSE, fails |-> 0, pong |-> "never"]
Done == [pc |-> "done", id |-> self, pinged |-> FALSE, err |-> FALSE, node |-> FALSE,
         on |-> None, oldest |-> self, fails |-> 0]
Entry(n) == [id |-> n, by |-> None]

ids(b) == {b[i].id : i \in DOMAIN b}

\* stuff: a node goes to the end of its bucket, unless it is the own one, is
\* there already or the bucket is full.
append(b, n) == IF n = self \/ n \in ids(b) \/ Len(b) >= bucketSize THEN b ELSE Append(b, Entry(n))
stuffed(bs, nodes) == FoldLeft(LAMBDA acc, n : [acc EXCEPT ![logdist[n]] = append(@, n)], bs, nodes)

\* The table after its first refresh: the seeds of the database are in it.
Init ==
    /\ buckets = stuffed([i \in Index |-> <<>>], Seeds)
    /\ db = [n \in Id |-> IF n \in ToSet(Seeds) THEN [Unknown EXCEPT !.node = TRUE, !.pong = "recent"] ELSE Unknown]
    /\ bonding = [n \in Id |-> None]
    /\ bondslots = maxBondingPingPongs
    /\ th = [t \in Thread |-> Done] /\ calls = Calls

bucketOf(n) == buckets[logdist[n]]
pos(b, n) == CHOOSE i \in DOMAIN b : b[i].id = n
Members == UNION {ids(buckets[i]) : i \in Index}

\* bucket.bump: a known node moves to the front, as a fresh object.
bump(b, n) == <<Entry(n)>> \o SelectSeq(b, LAMBDA e : e.id # n)

\* bucket.replace: nothing if n is there already, or if the bucket is full
\* and last is no longer its last entry.
replace(b, n, last) ==
    IF n \in ids(b) \/ (Len(b) = bucketSize /\ b[bucketSize].id # last) THEN b
    ELSE <<Entry(n)>> \o (IF Len(b) = bucketSize THEN SubSeq(b, 1, bucketSize - 1) ELSE b)

\* oldest.contested = false, on the object thread t has contested.
released(b, t) == [i \in DOMAIN b |-> IF b[i].by = t THEN Entry(b[i].id) ELSE b[i]]

Goto(t, pc) == th' = [th EXCEPT ![t].pc = pc]

-----------------------------------------------------------------------------
(* bond.                                                                   *)

\* The call and its first look into the database.
Bond(t) ==
    /\ th[t].pc = "done" /\ calls > 0 /\ calls' = calls - 1
    /\ \E n \in Id \ {self}, pinged \in BOOLEAN :
          th' = [th EXCEPT ![t] = [Done EXCEPT !.pc = "lookup", !.id = n, !.pinged = pinged]]
    /\ UNCHANGED <<buckets, db, bonding, bondslots>>

\* The node is bonded with already, or an exchange is needed.
Fresh(n) == db[n].node /\ db[n].fails = 0 /\ db[n].pong = "recent"
Known(t) ==
    /\ th[t].pc = "lookup"
    /\ th' = [th EXCEPT ![t].pc = IF Fresh(th[t].id) THEN "add" ELSE "bondmu",
                        ![t].node = db[th[t].id].node]
    /\ UNCHANGED <<buckets, db, bonding, bondslots, calls>>

\* Under bondmu: wait for a registered exchange (which may be over, and about
\* to be unregistered), or register a new one.
Over(w) == th[w].pc \in {"unslot", "unregister"}
Register(t) ==
    /\ th[t].pc = "bondmu"
    /\ LET w == bonding[th[t].id] IN
       IF w # None THEN /\ th' = [th EXCEPT ![t].pc = IF Over(w) THEN "result" ELSE "wait",
                                           ![t].on = w, ![t].err = Over(w) /\ th[w].err]
                        /\ UNCHANGED bonding
       ELSE Goto(t, "slot") /\ bonding' = [bonding EXCEPT ![th[t].id] = t]
    /\ UNCHANGED <<buckets, db, bondslots, calls>>

\* pingpong: a slot, the ping, the wait for a ping back, the stored node.
TakeSlot(t) ==
    /\ th[t].pc = "slot" /\ bondslots > 0
    /\ bondslots' = bondslots - 1 /\ Goto(t, "ping")
    /\ UNCHANGED <<buckets, db, bonding, calls>>
\* w.done is closed: the result reaches the calls that wait for it.
Woken(t, err, next) ==
    [u \in Thread |-> IF u = t THEN [th[t] EXCEPT !.pc = next, !.err = err]
                      ELSE IF th[u].pc = "wait" /\ th[u].on = t
                           THEN [th[u] EXCEPT !.pc = "result", !.err = err] ELSE th[u]]
Ping(t) ==
    /\ th[t].pc = "ping"
    /\ \/ /\ db' = [db EXCEPT ![th[t].id].pong = "recent"]
          /\ th' = [th EXCEPT ![t].pc = IF th[t].pinged THEN "store" ELSE "waitping"]
       \/ th' = Woken(t, TRUE, "unslot") /\ UNCHANGED db
    /\ UNCHANGED <<buckets, bonding, bondslots, calls>>
\* waitping ends with a ping or with a timeout; both are the same to bond.
Waitping(t) ==
    /\ th[t].pc = "waitping" /\ Goto(t, "store")
    /\ UNCHANGED <<buckets, db, bonding, bondslots, calls>>
Store(t) ==
    /\ th[t].pc = "store"
    /\ db' = [db EXCEPT ![th[t].id].node = TRUE] /\ th' = Woken(t, FALSE, "unslot")
    /\ UNCHANGED <<buckets, bonding, bondslots, calls>>
ReturnSlot(t) ==
    /\ th[t].pc = "unslot" /\ bondslots' = bondslots + 1 /\ Goto(t, "unregister")
    /\ UNCHANGED <<buckets, db, bonding, calls>>
Unregister(t) ==
    /\ th[t].pc = "unregister" /\ bonding' = [bonding EXCEPT ![th[t].id] = None] /\ Goto(t, "result")
    /\ UNCHANGED <<buckets, db, bondslots, calls>>
\* A node known before is added even if the exchange failed.
Result(t) ==
    /\ th[t].pc = "result"
    /\ Goto(t, IF ~th[t].err \/ th[t].node THEN "add" ELSE "done")
    /\ UNCHANGED <<buckets, db, bonding, bondslots, calls>>

-----------------------------------------------------------------------------
(* add, in two critical sections around the ping of the oldest entry, and  *)
(* the reset of the failure counter after it.                              *)
Put(n, b) == buckets' = [buckets EXCEPT ![logdist[n]] = b]
Add(t) ==
    LET n == th[t].id
        b == bucketOf(n)
    IN /\ th[t].pc = "add"
       /\ CASE n \in ids(b) -> Put(n, bump(b, n)) /\ Goto(t, "reset")
            [] n \notin ids(b) /\ Len(b) < bucketSize -> Put(n, replace(b, n, None)) /\ Goto(t, "reset")
            [] n \notin ids(b) /\ Len(b) = bucketSize /\ b[bucketSize].by # None ->
                  Goto(t, "reset") /\ UNCHANGED buckets
            [] OTHER -> /\ Put(n, [b EXCEPT ![bucketSize].by = t])
                        /\ th' = [th EXCEPT ![t].pc = "contest", ![t].oldest = b[bucketSize].id]
       /\ UNCHANGED <<db, bonding, bondslots, calls>>
Contest(t) ==
    /\ th[t].pc = "contest"
    /\ \/ db' = [db EXCEPT ![th[t].oldest].pong = "recent"] /\ Goto(t, "answered")
       \/ UNCHANGED db /\ Goto(t, "silent")
    /\ UNCHANGED <<buckets, bonding, bondslots, calls>>
Contested(t) ==
    LET n == th[t].id
        b == released(bucketOf(n), t)
    IN /\ th[t].pc \in {"answered", "silent"}
       /\ Put(n, IF th[t].pc = "answered" THEN b ELSE replace(b, n, th[t].oldest))
       /\ Goto(t, "reset")
       /\ UNCHANGED <<db, bonding, bondslots, calls>>
ResetFails(t) ==
    /\ th[t].pc = "reset"
    /\ db' = [db EXCEPT ![th[t].id].fails = 0] /\ Goto(t, "done")
    /\ UNCHANGED <<buckets, bonding, bondslots, calls>>

-----------------------------------------------------------------------------
(* The query goroutine of lookup: findnode to a node of the table fails,   *)
(* its counter is read, raised and stored, and at the limit it is deleted. *)
Query(t) ==
    /\ th[t].pc = "done" /\ calls > 0 /\ calls' = calls - 1
    /\ \E n \in Members : th' = [th EXCEPT ![t] = [Done EXCEPT !.pc = "failed", !.id = n, !.fails = db[n].fails + 1]]
    /\ UNCHANGED <<buckets, db, bonding, bondslots>>
BumpFails(t) ==
    /\ th[t].pc = "failed"
    /\ db' = [db EXCEPT ![th[t].id].fails = th[t].fails]
    /\ Goto(t, IF th[t].fails >= maxFindnodeFailures THEN "delete" ELSE "done")
    /\ UNCHANGED <<buckets, bonding, bondslots, calls>>
delete(t) ==
    /\ th[t].pc = "delete"
    /\ Put(th[t].id, SelectSeq(bucketOf(th[t].id), LAMBDA e : e.id # th[t].id)) /\ Goto(t, "done")
    /\ UNCHANGED <<db, bonding, bondslots, calls>>

\* doRefresh on an empty table ends with the seeds it has bonded with at the
\* end of their buckets, if there is room by then.
stuff ==
    /\ calls > 0 /\ calls' = calls - 1
    /\ \E seeds \in UNION {SetToSeqs(S) : S \in SUBSET {n \in Id : db[n].node}} : buckets' = stuffed(buckets, seeds)
    /\ UNCHANGED <<db, bonding, bondslots, th>>

\* Time passes; the expirer forgets nodes without a recent pong, with all
\* their fields, and the own node in any case.
Age(n) ==
    /\ db[n].pong = "recent" /\ calls > 0 /\ calls' = calls - 1
    /\ db' = [db EXCEPT ![n].pong = "old"]
    /\ UNCHANGED <<buckets, bonding, bondslots, th>>
expireNodes ==
    /\ calls > 0 /\ calls' = calls - 1
    /\ db' = [n \in Id |-> IF db[n].node /\ (n = self \/ db[n].pong # "recent") THEN Unknown ELSE db[n]]
    /\ UNCHANGED <<buckets, bonding, bondslots, th>>

Step(t) == \/ Known(t) \/ Register(t) \/ TakeSlot(t) \/ Ping(t) \/ Waitping(t) \/ Store(t)
           \/ ReturnSlot(t) \/ Unregister(t) \/ Result(t) \/ Add(t) \/ Contest(t) \/ Contested(t)
           \/ ResetFails(t) \/ BumpFails(t) \/ delete(t)
Next == \/ \E t \in Thread : Step(t) \/ Bond(t) \/ Query(t)
        \/ stuff \/ expireNodes \/ \E n \in Id : Age(n)
Spec == Init /\ [][Next]_vars

-----------------------------------------------------------------------------
TypeOK == /\ bondslots \in 0..maxBondingPingPongs
          /\ \A n \in Id : bonding[n] \in Thread \union {None} /\ db[n].fails \in Nat
          /\ \A i \in Index : ids(buckets[i]) \subseteq Id

\* The own node is in no bucket; a bucket is within its size, holds a node
\* once, and only nodes of its distance -- though add lets go of the table
\* between its two looks at the bucket.
BucketsSound ==
    \A i \in Index : LET b == buckets[i] IN
        /\ Len(b) <= bucketSize /\ Cardinality(ids(b)) = Len(b)
        /\ \A n \in ids(b) : n # self /\ logdist[n] = i

\* One ping/pong exchange per node, and as many as there are slots.
Exchanging == {t \in Thread : th[t].pc \in {"ping", "waitping", "store", "unslot"}}
ExchangesLimited ==
    /\ bondslots + Cardinality(Exchanging) = maxBondingPingPongs
    /\ \A t, u \in Thread : th[t].pc \in {"slot", "ping", "waitping", "store"}
                            /\ th[u].pc \in {"slot", "ping", "waitping", "store"}
                            /\ th[t].id = th[u].id => t = u

\* A call that waits for another one's exchange waits for one that runs.
WaitsForLiving == \A t \in Thread : th[t].pc = "wait" =>
    /\ th[th[t].on].id = th[t].id
    /\ th[th[t].on].pc \in {"slot", "ping", "waitping", "store"}

\* A node leaves the table only because it failed too many queries, or
\* because it left a ping unanswered while it was the oldest of a full bucket.
LeavesForCause ==
    \A n \in Members : n \notin Members' =>
        \E t \in Thread : \/ th[t].pc = "delete" /\ th[t].id = n /\ th[t].fails >= maxFindnodeFailures
                          \/ th[t].pc = "silent" /\ th[t].oldest = n

-----------------------------------------------------------------------------
(***************************************************************************)
(* The iterative lookup of the discovery protocol and the distance metric  *)
(* under it (p2p/discover/table.go, node.go), and the answer to a findnode *)
(* packet (udp.go).                                                        *)
(*                                                                         *)
(* A hash is a sequence of bytes; a byte has `width' bits.  Queries run in *)
(* goroutines of their own and answer in any order.                        *)
(***************************************************************************)

CONSTANTS Hash,        \* the hashes of the nodes: sequences of bytes
          width,       \* bits in a byte
          lookupSelf,        \* the own hash
          alpha, lookupBucketSize, maxNeighbors

VARIABLES target,      \* what is looked for
          table,       \* the nodes in the table when the lookup starts
          entries,     \* result.entries
          asked, seen, \* nodes asked, nodes seen in replies
          pending,     \* queries under way
          told,        \* nodes the network has told us about
          over         \* the lookup has returned
lookupVars == <<target, table, entries, asked, seen, pending, told, over>>

-----------------------------------------------------------------------------
(* The metric.                                                             *)

\* distcmp: -1 if a is closer to t, 1 if b is, byte by byte.
distcmp(t, a, b) ==
    LET differ == {i \in DOMAIN t : a[i] ^^ t[i] # b[i] ^^ t[i]} IN
    IF differ = {} THEN 0
    ELSE IF a[Min(differ)] ^^ t[Min(differ)] > b[Min(differ)] ^^ t[Min(differ)] THEN 1 ELSE -1

\* The table of leading zero counts.
lzcount(x) == CHOOSE n \in 0..width : 2^(width - n) > x /\ (n = width \/ 2^(width - n - 1) <= x)

\* logdist: the leading equal bytes, and the leading zeros of the next one.
lookupLogdist(a, b) ==
    LET differ == {i \in DOMAIN a : a[i] # b[i]} IN
    IF differ = {} THEN 0
    ELSE Len(a) * width - (Min(differ) - 1) * width - lzcount(a[Min(differ)] ^^ b[Min(differ)])

\* nodesByDistance.push: the position found by the search; an append if there
\* is room; a slide that drops the last entry if there is none.
position(es, t, n) == Cardinality({i \in DOMAIN es : distcmp(t, es[i], n) <= 0}) + 1
\* Mutant of push.
pushLast(es, t, n, maxElems) ==
    LET ix == position(es, t, n)
        longer == SubSeq(es, 1, ix - 1) \o <<n>> \o SubSeq(es, ix, Len(es))
    IN IF Len(es) < maxElems THEN longer ELSE [es EXCEPT ![Min({ix, Len(es)})] = n]
push(es, t, n, maxElems) ==
    LET ix == position(es, t, n)
        longer == SubSeq(es, 1, ix - 1) \o <<n>> \o SubSeq(es, ix, Len(es))
    IN SubSeq(longer, 1, Min({maxElems, Len(longer)}))

\* closest: every node of the table is pushed, in the order of the buckets.
closest(nodes, t, n) ==
    FoldLeft(LAMBDA es, x : push(es, t, x, n), <<>>,
             SetToSortSeq(nodes, LAMBDA a, b : lookupLogdist(lookupSelf, a) < lookupLogdist(lookupSelf, b)
                                               \/ (lookupLogdist(lookupSelf, a) = lookupLogdist(lookupSelf, b) /\ distcmp(lookupSelf, a, b) < 0)))

-----------------------------------------------------------------------------
(* lookup.                                                                 *)
LookupInit ==
    /\ target \in Hash /\ table \in {S \in SUBSET (Hash \ {lookupSelf}) : S # {} /\ Cardinality(S) <= 2}
    /\ entries = closest(table, target, lookupBucketSize)
    /\ asked = {lookupSelf} /\ seen = {} /\ pending = {} /\ told = table /\ over = FALSE

\* The closest nodes that have not been asked are asked, up to alpha at once.
unasked == SelectSeq(entries, LAMBDA n : n \notin asked)
batch == ToSet(SubSeq(unasked, 1, Min({alpha - Cardinality(pending), Len(unasked)})))
Asking == batch # {} /\ ~over
Ask ==
    /\ Asking
    /\ asked' = asked \union batch /\ pending' = pending \union batch
    /\ UNCHANGED <<target, table, entries, seen, told, over>>

\* A reply: the nodes bonding has succeeded with, each considered once.
Reply ==
    /\ ~Asking /\ \E q \in pending, r \in {S \in SUBSET (Hash \ {lookupSelf}) : Cardinality(S) <= 1} :
          LET new == SetToSortSeq(r \ seen, LAMBDA a, b : distcmp(lookupSelf, a, b) < 0) IN
          /\ pending' = pending \ {q} /\ seen' = seen \union r /\ told' = told \union r
          /\ entries' = FoldLeft(LAMBDA es, n : push(es, target, n, lookupBucketSize), entries, new)
    /\ UNCHANGED <<target, table, asked, over>>

\* All the closest nodes have been asked, and all have answered.
Return ==
    /\ ~Asking /\ pending = {} /\ ~over /\ over' = TRUE
    /\ UNCHANGED <<target, table, entries, asked, seen, pending, told>>

LookupNext == Ask \/ Reply \/ Return
LookupSpec == LookupInit /\ [][LookupNext]_lookupVars

-----------------------------------------------------------------------------
(* findnode.handle: the closest nodes in packets of at most maxNeighbors,  *)
(* without those that must not be relayed.                                 *)
chunk(s, e, last) ==
    IF ~e.ok THEN s
    ELSE IF Len(s.cur) + 1 = maxNeighbors \/ last THEN [cur |-> <<>>, sent |-> Append(s.sent, Append(s.cur, e.n))]
    ELSE [s EXCEPT !.cur = Append(@, e.n)]
neighbors(nodes) ==
    FoldLeft(LAMBDA s, i : chunk(s, nodes[i], i = Len(nodes)), [cur |-> <<>>, sent |-> <<>>],
             [i \in DOMAIN nodes |-> i]).sent

-----------------------------------------------------------------------------
LookupTypeOK == /\ target \in Hash /\ ToSet(entries) \subseteq Hash /\ over \in BOOLEAN
                /\ asked \subseteq Hash /\ pending \subseteq asked

\* The result is always the bucketSize closest of the nodes pushed so far,
\* closest first.  (The nodes of the table are pushed again when a reply
\* names them, so an entry may be there twice.)
Nearer(a, b) == distcmp(target, a, b) < 0
ResultIsClosest ==
    /\ \A i, j \in DOMAIN entries : i < j => ~Nearer(entries[j], entries[i])
    /\ Len(entries) <= lookupBucketSize
    /\ \A n \in told \ ToSet(entries) : \A e \in ToSet(entries) : ~Nearer(n, e)

\* At most alpha queries at once, none to the own node, none repeated: the
\* lookup ends only when every node of the result has been asked.
QueriesBounded ==
    /\ Cardinality(pending) <= alpha /\ lookupSelf \notin pending
    /\ over => ToSet(entries) \subseteq asked

\* distcmp orders as the numerical XOR distance does, and logdist is the
\* logarithm of that distance.
Value(h) == FoldLeft(LAMBDA v, b : v * 2^width + b, 0, h)
XorDistance(a, b) == Value([i \in DOMAIN a |-> a[i] ^^ b[i]])
MetricSound ==
    \A a \in Hash :
        /\ \A b \in Hash : distcmp(target, a, b) = -1 <=> XorDistance(target, a) < XorDistance(target, b)
        /\ a # target => /\ 2^lookupLogdist(a, target) > XorDistance(a, target)
                         /\ 2^(lookupLogdist(a, target) - 1) <= XorDistance(a, target)

\* The answer to findnode holds the closest nodes that may be relayed, in their
\* order, in packets that are never longer than maxNeighbors and never empty.
\* The packet under construction is sent with the last node: when that one may
\* not be relayed, what has been collected since the last full packet is lost.
NeighborsWhole ==
    \A ok \in [DOMAIN entries -> BOOLEAN] :
        LET nodes == [i \in DOMAIN entries |-> [n |-> entries[i], ok |-> ok[i]]]
            relayed == SelectSeq(nodes, LAMBDA e : e.ok)
            all == [i \in DOMAIN relayed |-> relayed[i].n]
            sent == FlattenSeq(neighbors(nodes))
        IN /\ \A i \in DOMAIN neighbors(nodes) : Len(neighbors(nodes)[i]) \in 1..maxNeighbors
           /\ sent = SubSeq(all, 1, Len(sent))
           /\ (nodes # <<>> /\ Last(nodes).ok) => sent = all
           /\ Len(all) - Len(sent) < maxNeighbors

-----------------------------------------------------------------------------
(***************************************************************************)
(* The request/reply loop of the discovery transport (p2p/discover/udp.go) *)
(* -- pending replies with deadlines, matching, timeouts, a clock that may *)
(* jump, shutdown -- and the packet handlers that feed it.                 *)
(*                                                                         *)
(* The loop walks a container/list and removes elements on the way; an     *)
(* element that has been removed has no successor, so each walk ends at    *)
(* its first removal.  Time is counted in units of half of respTimeout.    *)
(***************************************************************************)

CONSTANTS Call,          \* requests; each is made once
          From, Wants,   \* [Call -> node it asks], [Call -> packet type it waits for]
          Chunks,        \* neighbors packets that complete a findnode
          MaxTime, MaxJumps, MaxReplies

respTimeout == 1

VARIABLES plist,     \* the pending list: sequence of [call, deadline, got]
          res,       \* [Call -> "none", "sent" (addpending blocked), "pending" or the result]
          udpNext,      \* nextTimeout: the call the timer was set for, or "none"
          timer,     \* when the timer fires, or Never
          now, jumps, \* the clock, and its jumps so far
          closing,   \* t.closing is closed
          loopEnded, \* loop has returned
          replies    \* replies received so far
udpVars == <<plist, res, udpNext, timer, now, jumps, closing, loopEnded, replies>>

Never == 99
NoCall == "none"

UdpInit ==
    /\ plist = <<>> /\ res = [c \in Call |-> "none"] /\ udpNext = NoCall /\ timer = Never
    /\ now = 0 /\ jumps = 0 /\ closing = FALSE /\ loopEnded = FALSE /\ replies = 0

\* resetTimeout: the timer is set for the head of the list.  An entry whose
\* deadline is too far away has seen the clock jump back: it is dropped with
\* an error -- and the walk ends there, with the timer stopped.
Warped(p) == p.deadline - now >= 2 * respTimeout
ResetTimeout(l, r, n, tm) ==
    IF l = <<>> \/ n = Head(l).call THEN [plist |-> l, res |-> r, next |-> n, timer |-> tm]
    ELSE IF Warped(Head(l))
    THEN [plist |-> Tail(l), res |-> [r EXCEPT ![Head(l).call] = "errClockWarp"], next |-> NoCall, timer |-> Never]
    ELSE [plist |-> l, res |-> r, next |-> Head(l).call,
          timer |-> IF Head(l).deadline < now THEN now ELSE Head(l).deadline]

\* The end of an iteration, and resetTimeout at the start of the next one.
Iterate(l, r, n, tm) ==
    LET s == ResetTimeout(l, r, n, tm) IN
    /\ plist' = s.plist /\ res' = s.res /\ udpNext' = s.next /\ timer' = s.timer

\* pending: the request reaches the loop, or the transport is closing.
Pending(c) ==
    /\ res[c] = "none" /\ ~loopEnded
    /\ Iterate(Append(plist, [call |-> c, deadline |-> now + respTimeout, got |-> 0]),
               [res EXCEPT ![c] = "pending"], udpNext, timer)
    /\ UNCHANGED <<now, jumps, closing, loopEnded, replies>>
PendingClosed(c) ==
    /\ res[c] = "none" /\ closing
    /\ res' = [res EXCEPT ![c] = "errClosed"]
    /\ UNCHANGED <<plist, udpNext, timer, now, jumps, closing, loopEnded, replies>>

\* handleReply and the case of gotreply: callbacks are called from the front;
\* the first that is complete is removed, which ends the walk.
Matches(p, from, ptype) == From[p.call] = from /\ Wants[p.call] = ptype
complete(p) == Wants[p.call] # "neighbors" \/ p.got + 1 >= Chunks
firstDone(from, ptype) ==
    LET done == {i \in DOMAIN plist : Matches(plist[i], from, ptype) /\ complete(plist[i])} IN
    IF done = {} THEN Len(plist) + 1 ELSE Min(done)
counted(from, ptype, k) ==
    [i \in DOMAIN plist |-> IF i < k /\ Matches(plist[i], from, ptype)
                            THEN [plist[i] EXCEPT !.got = @ + 1] ELSE plist[i]]
GotReply ==
    /\ ~loopEnded /\ replies < MaxReplies /\ replies' = replies + 1
    /\ \E from \in {From[c] : c \in Call}, ptype \in {Wants[c] : c \in Call} :
          LET k == firstDone(from, ptype)
              l == counted(from, ptype, k)
          IN /\ IF k > Len(plist) THEN Iterate(l, res, udpNext, timer)
                ELSE Iterate(RemoveAt(l, k), [res EXCEPT ![plist[k].call] = "nil"], udpNext, timer)
    /\ UNCHANGED <<now, jumps, closing, loopEnded>>

\* The timer: the first expired entry gets its error; the others are left to
\* the timer, which is set again at once.
firstExpired == {i \in DOMAIN plist : now >= plist[i].deadline}
Timeout ==
    /\ ~loopEnded /\ timer <= now
    /\ IF firstExpired = {} THEN Iterate(plist, res, NoCall, Never)
       ELSE LET k == Min(firstExpired) IN
            Iterate(RemoveAt(plist, k), [res EXCEPT ![plist[k].call] = "errTimeout"], NoCall, Never)
    /\ UNCHANGED <<now, jumps, closing, loopEnded, replies>>

\* close, and the last iteration of the loop.
Close ==
    /\ ~closing /\ closing' = TRUE
    /\ UNCHANGED <<plist, res, udpNext, timer, now, jumps, loopEnded, replies>>
LoopEnds ==
    /\ closing /\ ~loopEnded /\ loopEnded' = TRUE
    /\ res' = [c \in Call |-> IF \E i \in DOMAIN plist : plist[i].call = c THEN "errClosed" ELSE res[c]]
    /\ plist' = <<>>
    /\ UNCHANGED <<udpNext, timer, now, jumps, closing, replies>>

Tick ==
    /\ now < MaxTime /\ now' = now + 1
    /\ UNCHANGED <<plist, res, udpNext, timer, jumps, closing, loopEnded, replies>>
\* The system clock jumps back; the timer is monotonic and keeps its distance.
JumpBack ==
    /\ jumps < MaxJumps /\ now >= 2 * respTimeout /\ jumps' = jumps + 1
    /\ now' = now - 2 * respTimeout
    /\ timer' = IF timer = Never THEN Never ELSE timer - 2 * respTimeout
    /\ UNCHANGED <<plist, res, udpNext, closing, loopEnded, replies>>

UdpNext == \/ \E c \in Call : Pending(c) \/ PendingClosed(c)
           \/ GotReply \/ Timeout \/ Close \/ LoopEnds \/ Tick \/ JumpBack
UdpSpec == UdpInit /\ [][UdpNext]_udpVars

-----------------------------------------------------------------------------
UdpTypeOK == /\ now \in Int /\ replies \in 0..MaxReplies
             /\ \A i \in DOMAIN plist : plist[i].call \in Call /\ plist[i].got < Chunks
             /\ closing \in BOOLEAN /\ loopEnded \in BOOLEAN

\* A request is in the list exactly while it waits, and once: its errc, which
\* has room for one value, gets one value.
ListExact ==
    /\ \A c \in Call : res[c] = "pending" <=> \E i \in DOMAIN plist : plist[i].call = c
    /\ Cardinality({plist[i].call : i \in DOMAIN plist}) = Len(plist)

\* While replies are outstanding and the clock has not jumped, the timer is
\* set, and not later than the deadline of the oldest of them.
TimerArmed == jumps = 0 /\ plist # <<>> => timer <= Max({now, Head(plist).deadline})
=============================================================================
