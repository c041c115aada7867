------------------------------ MODULE P2PServer -------------------------------
(*****************************************************************************)
(* The peer-to-peer server and its dial scheduler.                           *)
(*****************************************************************************)
EXTENDS Integers, Sequences, FiniteSets, Functions

-----------------------------------------------------------------------------
(***************************************************************************)
(* The dial scheduler of the peer-to-peer server (p2p/dial.go): which      *)
(* dials and lookups Server.run starts on an iteration of its loop.        *)
(*                                                                         *)
(* A dialstate is a record; the methods are operators on it.  Choices the  *)
(* code leaves to map order, to the discovery table or to the clock are    *)
(* parameters of newTasks:                                                 *)
(*   order    the order in which the static map is ranged over             *)
(*   random   what ReadRandomNodes puts in the buffer                      *)
(*   expired  how many of the oldest history entries have expired          *)
(*   late     fallbackInterval has passed since the first call             *)
(***************************************************************************)

CONSTANTS Node,          \* identities of nodes, the own one included
          Self,          \* the own identity
          maxDynDials,   \* dynamic dials wanted
          bootnodes      \* sequence of nodes

NoFlag == "none"

smaller(m, n) == IF m < n THEN m ELSE n

\* The result of step on a and each of the nodes, in their order.
inTurn(step(_, _), a, nodes) ==
    LET after[i \in 0 .. Len(nodes)] == IF i = 0 THEN a ELSE step(after[i - 1], nodes[i])
    IN after[Len(nodes)]

\* newDialState
newDialState(static) ==
    [dialing |-> [n \in Node |-> NoFlag], lookupRunning |-> FALSE, lookupBuf |-> <<>>,
     static |-> static, hist |-> <<>>, bootnodes |-> bootnodes]

addStatic(s, n) == [s EXCEPT !.static = @ \union {n}]
removeStatic(s, n) == [s EXCEPT !.static = @ \ {n}]

DialTask(n, flag) == [kind |-> "dial", node |-> n, flag |-> flag]
DiscoverTask == [kind |-> "lookup", node |-> Self, flag |-> NoFlag]
WaitExpireTask == [kind |-> "wait", node |-> Self, flag |-> NoFlag]

\* Mutant of checkDial.
checkDialForgetsDialing(s, peers, n) ==
    CASE n \in peers -> "errAlreadyConnected"
      [] n = Self -> "errSelf"
      [] n \in Range(s.hist) -> "errRecentlyDialed"
      [] OTHER -> "nil"
\* checkDial; peers is the set of connected nodes.
checkDial(s, peers, n) ==
    CASE s.dialing[n] # NoFlag -> "errAlreadyDialing"
      [] n \in peers -> "errAlreadyConnected"
      [] n = Self -> "errSelf"
      [] n \in Range(s.hist) -> "errRecentlyDialed"
      [] OTHER -> "nil"

\* A dial towards n enters the dialing map and the list of new tasks.
started(a, n, flag) == [a EXCEPT !.s.dialing[n] = flag, !.tasks = Append(@, DialTask(n, flag))]

addDial(a, peers, n) ==
    IF checkDial(a.s, peers, n) = "nil"
    THEN [started(a, n, "dyn") EXCEPT !.need = @ - 1]
    ELSE a

\* The number of dynamic dials wanted beyond dynamic peers and dials.
needDynDials(s, dynPeers) ==
    maxDynDials - Cardinality(dynPeers) - Cardinality({n \in Node : s.dialing[n] = "dyn"})

staticDial(a, peers, n) ==
    LET err == checkDial(a.s, peers, n) IN
    CASE err = "errSelf" -> [a EXCEPT !.s = removeStatic(a.s, n)]
      [] err = "nil" -> started(a, n, "static")
      [] OTHER -> a

staticDials(a, peers, order) == inTurn(LAMBDA b, n : staticDial(b, peers, n), a, order)

\* With no peer at all for a while, the next bootnode is tried.
bootDial(a, peers, late) ==
    IF peers = {} /\ a.s.bootnodes # <<>> /\ a.need > 0 /\ late
    THEN addDial([a EXCEPT !.s.bootnodes = Append(Tail(@), Head(@))], peers, Head(a.s.bootnodes))
    ELSE a

randomDials(a, peers, random) ==
    inTurn(LAMBDA b, n : addDial(b, peers, n), a,
             SubSeq(random, 1, smaller(a.need \div 2, Len(random))))

\* Lookup results are consumed while dynamic dials are still needed.
lookupDials(a, peers) ==
    inTurn(LAMBDA b, n : IF b.need > 0
                           THEN addDial([b EXCEPT !.s.lookupBuf = Tail(@)], peers, n)
                           ELSE b, a, a.s.lookupBuf)

launchLookup(a) ==
    IF Len(a.s.lookupBuf) < a.need /\ ~a.s.lookupRunning
    THEN [a EXCEPT !.s.lookupRunning = TRUE, !.tasks = Append(@, DiscoverTask)]
    ELSE a

\* A timer keeps the loop of Server.run ticking while only the history is left.
launchWait(a, nRunning) ==
    IF nRunning = 0 /\ a.tasks = <<>> /\ a.s.hist # <<>>
    THEN [a EXCEPT !.tasks = <<WaitExpireTask>>]
    ELSE a

newTasks(s, nRunning, peers, dynPeers, order, random, expired, late) ==
    LET a0 == [s |-> [s EXCEPT !.hist = SubSeq(@, expired + 1, Len(@))], tasks |-> <<>>,
               need |-> needDynDials(s, dynPeers)]
    IN launchWait(launchLookup(lookupDials(randomDials(bootDial(
           staticDials(a0, peers, order), peers, late), peers, random), peers)), nRunning)

taskDone(s, t, results) ==
    CASE t.kind = "dial" -> [s EXCEPT !.hist = Append(@, t.node), !.dialing[t.node] = NoFlag]
      [] t.kind = "lookup" -> [s EXCEPT !.lookupRunning = FALSE, !.lookupBuf = @ \o results]
      [] OTHER -> s

-----------------------------------------------------------------------------
(***************************************************************************)
(* The peer-to-peer server (p2p/server.go): the run loop that owns the     *)
(* peer set, the listener with its handshake slots, the SetupConn threads  *)
(* of inbound and dialed connections, the runPeer threads, the dial tasks  *)
(* scheduled by Dialer, and Stop.                                          *)
(*                                                                         *)
(* Channels are unbuffered except taskdone, so a send is one step shared   *)
(* by both sides.  srv.lock is explicit: Stop keeps it while it waits, and *)
(* Self takes it inside the checks of the run loop.                        *)
(***************************************************************************)

CONSTANTS Conn,            \* connection objects that may exist at once
          Trusted,         \* trusted nodes
          StaticNodes,     \* configured static nodes
          MaxPeers, MaxPendingPeers, maxActiveDialTasks,
          Callers,         \* nodes that connect to the listener
          Found,           \* nodes the discovery table knows
          Addable,         \* nodes AddPeer and RemovePeer are called with
          Ops              \* how many AddPeer, RemovePeer, PeerCount calls

VARIABLES lock,      \* srv.lock: "free", or "stop" while Stop holds it
          running,   \* srv.running
          quit,      \* srv.quit is closed
          loop,      \* where Server.run is, with its local values
          listen,    \* where listenLoop is
          slots,     \* free handshake slots
          conn,      \* [Conn -> state of the object, its SetupConn thread and its runPeer thread]
          peers,     \* the peer map: [Node -> connection or None]
          ds,        \* the dialstate
          tasks,     \* runningTasks: a sequence
          queued,    \* queuedTasks
          taskdone,  \* tasks sent to the buffered channel taskdone
          stop,      \* the caller of Stop
          ops        \* calls of the API left
vars == <<lock, running, quit, loop, listen, slots, conn, peers, ds, tasks, queued, taskdone, stop, ops>>

None == "none"
Idle == [setup |-> "none", peer |-> "none", node |-> Self, flags |-> {}, task |-> WaitExpireTask]
At(place) == [at |-> place, c |-> None, stage |-> None, err |-> None, left |-> {}]
Checking(conn1, s) == [at |-> "checks", c |-> conn1, stage |-> s, err |-> None, left |-> {}]
Answering(e) == [at |-> "cont", c |-> loop.c, stage |-> loop.stage, err |-> e, left |-> {}]
Disconnecting(conns, next) == [at |-> "disconnect", c |-> None, stage |-> next, err |-> None, left |-> conns]

Connected == {n \in Node : peers[n] # None}
DynPeers == {n \in Connected : "dyn" \in conn[peers[n]].flags}
\* Objects nobody holds: a new connection is a new object.
Free == {c \in Conn : conn[c].setup = "none" /\ conn[c].peer = "none" /\ loop.c # c}

\* Start: the listener and the run loop are up.
Init ==
    /\ lock = "free" /\ running = TRUE /\ quit = FALSE
    /\ loop = At("top") /\ listen = "slot" /\ slots = MaxPendingPeers
    /\ conn = [c \in Conn |-> Idle] /\ peers = [n \in Node |-> None]
    /\ ds = newDialState(StaticNodes) /\ tasks = <<>> /\ queued = <<>> /\ taskdone = {}
    /\ stop = "no" /\ ops = Ops

-----------------------------------------------------------------------------
(* The run loop.                                                           *)

\* startTasks: as many of ts as the limit allows, from the front.
startable(ts, busy) == smaller(Len(ts), maxActiveDialTasks - busy)
rest(ts, n) == SubSeq(ts, n + 1, Len(ts))
front(ts, n) == SubSeq(ts, 1, n)

\* scheduleTasks: queued tasks first, then new ones if there is room.
scheduleTasks(order, random, expired, late) ==
    LET k == startable(queued, Len(tasks))
        busy == Len(tasks) + k
        q == rest(queued, k)
        a == newTasks(ds, busy + Len(q), Connected, DynPeers, order, random, expired, late)
        j == startable(a.tasks, busy)
    IN IF busy < maxActiveDialTasks
       THEN /\ ds' = a.s
            /\ tasks' = tasks \o front(queued, k) \o front(a.tasks, j)
            /\ queued' = q \o rest(a.tasks, j)
       ELSE /\ tasks' = tasks \o front(queued, k) /\ queued' = q
            /\ UNCHANGED ds

Iterate ==
    /\ loop.at = "top"
    /\ \E order \in Bijection(1 .. Cardinality(ds.static), ds.static), late \in BOOLEAN,
          random \in {<<>>} \union {<<n>> : n \in Found}, expired \in 0..Len(ds.hist) :
          scheduleTasks(order, random, expired, late)
    /\ loop' = At("select")
    /\ UNCHANGED <<lock, running, quit, listen, slots, conn, peers, taskdone, stop, ops>>

Again == loop' = At("top")

\* A finished task: the dialer is told, and the task leaves the running ones.
TaskDone ==
    /\ loop.at = "select"
    /\ \E t \in taskdone, results \in {<<>>} \union {<<n>> : n \in Found} :
          /\ ds' = taskDone(ds, t, results)
          /\ taskdone' = taskdone \ {t} /\ tasks' = SelectSeq(tasks, LAMBDA u : u # t)
    /\ Again
    /\ UNCHANGED <<lock, running, quit, listen, slots, conn, peers, queued, stop, ops>>

\* AddPeer, PeerCount (which only makes the loop iterate) and RemovePeer.
AddPeer ==
    /\ loop.at = "select" /\ ops > 0 /\ ops' = ops - 1
    /\ \E n \in Addable : ds' = addStatic(ds, n)
    /\ Again
    /\ UNCHANGED <<lock, running, quit, listen, slots, conn, peers, tasks, queued, taskdone, stop>>

RemovePeer ==
    /\ loop.at = "select" /\ ops > 0 /\ ops' = ops - 1
    /\ \E n \in Addable :
          /\ ds' = removeStatic(ds, n)
          /\ loop' = IF peers[n] # None THEN Disconnecting({peers[n]}, "top")
                     ELSE At("top")
    /\ UNCHANGED <<lock, running, quit, listen, slots, conn, peers, tasks, queued, taskdone, stop>>

\* Peer.Disconnect: received by Peer.run, or the peer is already closed.
Disconnect ==
    /\ loop.at = "disconnect"
    /\ \E c \in loop.left :
          /\ conn[c].peer \in {"run", "drop", "del", "none"}
          /\ conn' = IF conn[c].peer = "run" THEN [conn EXCEPT ![c].peer = "drop"] ELSE conn
          /\ loop' = IF loop.left = {c} THEN At(loop.stage) ELSE Disconnecting(loop.left \ {c}, loop.stage)
    /\ UNCHANGED <<lock, running, quit, listen, slots, peers, ds, tasks, queued, taskdone, stop, ops>>

Waiting(stage) == IF stage = "posthandshake" THEN "posthandshakeWait" ELSE "addpeerWait"

\* The receive of a connection at a checkpoint; trusted nodes get their flag
\* at the first one.
Receive(c, stage) ==
    /\ loop.at = "select" /\ conn[c].setup = stage
    /\ LET trusted == IF stage = "posthandshake" /\ conn[c].node \in Trusted THEN {"trusted"} ELSE {}
       IN conn' = [conn EXCEPT ![c].setup = Waiting(stage), ![c].flags = conn[c].flags \union trusted]
    /\ loop' = Checking(c, stage)
    /\ UNCHANGED <<lock, running, quit, listen, slots, peers, ds, tasks, queued, taskdone, stop, ops>>

\* encHandshakeChecks; the third case calls Self, which takes srv.lock.
TooMany(c) == conn[c].flags \intersect {"trusted", "static"} = {} /\ Cardinality(Connected) >= MaxPeers
encHandshakeChecks(c) ==
    CASE TooMany(c) -> "DiscTooManyPeers"
      [] peers[conn[c].node] # None -> "DiscAlreadyConnected"
      [] conn[c].node = Self -> "DiscSelf"
      [] OTHER -> "nil"
NeedsLock(c) == ~TooMany(c) /\ peers[conn[c].node] = None

\* protoHandshakeChecks and the birth of the peer: the checks are repeated,
\* because the peer set may have changed between the handshakes.
protoHandshakeChecks(c) == encHandshakeChecks(c)

Check ==
    /\ loop.at = "checks" /\ (NeedsLock(loop.c) => lock = "free")
    /\ LET c == loop.c
           err == IF loop.stage = "posthandshake" THEN encHandshakeChecks(c) ELSE protoHandshakeChecks(c)
           born == loop.stage = "addpeer" /\ err = "nil"
       IN /\ loop' = Answering(err)
          /\ peers' = IF born THEN [peers EXCEPT ![conn[c].node] = c] ELSE peers
          /\ conn' = IF born THEN [conn EXCEPT ![c].peer = "announce"] ELSE conn
    /\ UNCHANGED <<lock, running, quit, listen, slots, ds, tasks, queued, taskdone, stop, ops>>

\* The remote end supports none of our protocols.
Useless ==
    /\ loop.at = "checks" /\ loop.stage = "addpeer"
    /\ loop' = Answering("DiscUselessPeer")
    /\ UNCHANGED <<lock, running, quit, listen, slots, conn, peers, ds, tasks, queued, taskdone, stop, ops>>

\* c.cont <- err, with the SetupConn thread on the other side.
Continue ==
    /\ loop.at = "cont" /\ conn[loop.c].setup = Waiting(loop.stage)
    /\ conn' = [conn EXCEPT ![loop.c].setup = IF loop.err # "nil" THEN "close"
                                              ELSE IF loop.stage = "posthandshake" THEN "proto" ELSE "return"]
    /\ Again
    /\ UNCHANGED <<lock, running, quit, listen, slots, peers, ds, tasks, queued, taskdone, stop, ops>>

\* A peer disconnected.
DelPeer(c) ==
    /\ loop.at \in {"select", "drain"} /\ conn[c].peer = "del"
    /\ peers' = [peers EXCEPT ![conn[c].node] = None]
    /\ conn' = [conn EXCEPT ![c].peer = "none"]
    /\ loop' = IF loop.at = "select" THEN At("top") ELSE loop
    /\ UNCHANGED <<lock, running, quit, listen, slots, ds, tasks, queued, taskdone, stop, ops>>

\* The server was stopped: every peer is disconnected, then waited for.
Quit ==
    /\ loop.at \in {"select", "cont"} /\ quit
    /\ loop' = IF Connected = {} THEN At("drain")
               ELSE Disconnecting({peers[n] : n \in Connected}, "drain")
    /\ UNCHANGED <<lock, running, quit, listen, slots, conn, peers, ds, tasks, queued, taskdone, stop, ops>>

Drained ==
    /\ loop.at = "drain" /\ Connected = {}
    /\ loop' = At("exited")
    /\ UNCHANGED <<lock, running, quit, listen, slots, conn, peers, ds, tasks, queued, taskdone, stop, ops>>

-----------------------------------------------------------------------------
(* SetupConn threads.  The thread of an inbound connection gives its slot  *)
(* back when SetupConn returns, the one of a dial task finishes the task.  *)

New(c, node, flag, t) == conn' = [conn EXCEPT ![c] =
    [setup |-> "new", peer |-> "none", node |-> node, flags |-> {flag}, task |-> t]]

\* listenLoop.
TakeSlot ==
    /\ listen = "slot" /\ slots > 0
    /\ slots' = slots - 1 /\ listen' = "accept"
    /\ UNCHANGED <<lock, running, quit, loop, conn, peers, ds, tasks, queued, taskdone, stop, ops>>
Accept ==
    /\ listen = "accept" /\ ~quit
    /\ \E c \in Free, n \in Callers : New(c, n, "inbound", WaitExpireTask)
    /\ listen' = "slot"
    /\ UNCHANGED <<lock, running, quit, loop, slots, peers, ds, tasks, queued, taskdone, stop, ops>>
\* The remote address is not in NetRestrict: the slot is returned at once.
Reject ==
    /\ listen = "accept" /\ ~quit
    /\ slots' = slots + 1 /\ listen' = "slot"
    /\ UNCHANGED <<lock, running, quit, loop, conn, peers, ds, tasks, queued, taskdone, stop, ops>>
AcceptFails ==
    /\ listen = "accept" /\ quit
    /\ listen' = "exited"
    /\ UNCHANGED <<lock, running, quit, loop, slots, conn, peers, ds, tasks, queued, taskdone, stop, ops>>

\* dialTask.Do: the dial reaches the node, or it fails (after resolving the
\* address of a static node again) and the task is done.
Dial(t) ==
    /\ t \in Range(tasks) \ taskdone
    /\ \A c \in Conn : conn[c].setup # "none" => conn[c].task # t
    /\ \E c \in Free, n \in Node, flag \in {"dyn", "static"} : t = DialTask(n, flag) /\ New(c, n, flag, t)
    /\ UNCHANGED <<lock, running, quit, loop, listen, slots, peers, ds, tasks, queued, taskdone, stop, ops>>
\* A failed dial, a lookup, a sleep: the task ends without a connection.
Ends(t) ==
    /\ t \in Range(tasks) \ taskdone
    /\ \A c \in Conn : conn[c].setup # "none" => conn[c].task # t
    /\ taskdone' = taskdone \union {t}
    /\ UNCHANGED <<lock, running, quit, loop, listen, slots, conn, peers, ds, tasks, queued, stop, ops>>

\* The check for leftover connections, under srv.lock.
Enter(c) ==
    /\ conn[c].setup = "new" /\ lock = "free"
    /\ conn' = [conn EXCEPT ![c].setup = IF running THEN "enc" ELSE "close"]
    /\ UNCHANGED <<lock, running, quit, loop, listen, slots, peers, ds, tasks, queued, taskdone, stop, ops>>

\* A handshake succeeds or fails; both have deadlines.
Handshake(c, from, to) ==
    /\ conn[c].setup = from
    /\ \E next \in {to, "close"} : conn' = [conn EXCEPT ![c].setup = next]
    /\ UNCHANGED <<lock, running, quit, loop, listen, slots, peers, ds, tasks, queued, taskdone, stop, ops>>

\* checkpoint gives up when the server quits, at either of its selects.
GivesUp(c) ==
    /\ quit /\ conn[c].setup \in {"posthandshake", "posthandshakeWait", "addpeer", "addpeerWait"}
    /\ conn' = [conn EXCEPT ![c].setup = "close"]
    /\ UNCHANGED <<lock, running, quit, loop, listen, slots, peers, ds, tasks, queued, taskdone, stop, ops>>

Finished(c) ==
    /\ slots' = slots + (IF "inbound" \in conn[c].flags THEN 1 ELSE 0)
    /\ taskdone' = IF "inbound" \in conn[c].flags THEN taskdone ELSE taskdone \union {conn[c].task}
Return(c) ==
    /\ conn[c].setup \in {"close", "return"}
    /\ Finished(c)
    /\ conn' = [conn EXCEPT ![c].setup = "none"]
    /\ UNCHANGED <<lock, running, quit, loop, listen, peers, ds, tasks, queued, stop, ops>>

-----------------------------------------------------------------------------
(* runPeer: announce, run until an error, announce the drop, delpeer.      *)
Announce(c) ==
    /\ conn[c].peer = "announce"
    /\ conn' = [conn EXCEPT ![c].peer = "run"]
    /\ UNCHANGED <<lock, running, quit, loop, listen, slots, peers, ds, tasks, queued, taskdone, stop, ops>>
PeerEnds(c) ==
    /\ conn[c].peer = "run"
    /\ conn' = [conn EXCEPT ![c].peer = "drop"]
    /\ UNCHANGED <<lock, running, quit, loop, listen, slots, peers, ds, tasks, queued, taskdone, stop, ops>>
AnnounceDrop(c) ==
    /\ conn[c].peer = "drop"
    /\ conn' = [conn EXCEPT ![c].peer = "del"]
    /\ UNCHANGED <<lock, running, quit, loop, listen, slots, peers, ds, tasks, queued, taskdone, stop, ops>>

-----------------------------------------------------------------------------
(* Stop keeps srv.lock until both loops have returned.                     *)
Stop ==
    /\ stop = "no" /\ lock = "free"
    /\ stop' = "waiting" /\ lock' = "stop" /\ running' = FALSE /\ quit' = TRUE
    /\ UNCHANGED <<loop, listen, slots, conn, peers, ds, tasks, queued, taskdone, ops>>
StopReturns ==
    /\ stop = "waiting" /\ loop.at = "exited" /\ listen = "exited"
    /\ stop' = "done" /\ lock' = "free"
    /\ UNCHANGED <<running, quit, loop, listen, slots, conn, peers, ds, tasks, queued, taskdone, ops>>

Threads == \E c \in Conn :
    \/ Receive(c, "posthandshake") \/ Receive(c, "addpeer") \/ DelPeer(c)
    \/ Enter(c) \/ Handshake(c, "enc", "posthandshake") \/ Handshake(c, "proto", "addpeer")
    \/ GivesUp(c) \/ Return(c) \/ Announce(c) \/ PeerEnds(c) \/ AnnounceDrop(c)
Next == \/ Iterate \/ TaskDone \/ AddPeer \/ RemovePeer \/ Disconnect \/ Check \/ Useless
        \/ Continue \/ Quit \/ Drained \/ TakeSlot \/ Accept \/ Reject \/ AcceptFails
        \/ (\E t \in Range(tasks) : Dial(t) \/ Ends(t)) \/ Threads \/ Stop \/ StopReturns
Spec == Init /\ [][Next]_vars

-----------------------------------------------------------------------------
TypeOK ==
    /\ lock \in {"free", "stop"} /\ running \in BOOLEAN /\ quit \in BOOLEAN
    /\ loop.at \in {"top", "select", "checks", "cont", "disconnect", "drain", "exited"}
    /\ listen \in {"slot", "accept", "exited"} /\ slots \in 0..MaxPendingPeers
    /\ \A c \in Conn : /\ conn[c].node \in Node
                       /\ conn[c].peer \in {"none", "announce", "run", "drop", "del"}
    /\ \A n \in Node : peers[n] \in Conn \union {None}
    /\ Len(tasks) <= maxActiveDialTasks /\ taskdone \subseteq Range(tasks)
    /\ stop \in {"no", "waiting", "done"}

\* The peer map and the runPeer threads agree: a connection has a thread that
\* has not been collected exactly when it is the entry of its node, so a node
\* never has two peers and delpeer never removes another connection's entry.
OnePeerPerNode == \A c \in Conn : conn[c].peer # "none" <=> peers[conn[c].node] = c

\* Only trusted and statically dialed connections enter beyond MaxPeers, and
\* the own node is never a peer.
PeerLimit == /\ Cardinality({n \in Connected : conn[peers[n]].flags \intersect {"trusted", "static"} = {}}) <= MaxPeers
             /\ peers[Self] = None

\* A handshake slot is free, held by listenLoop, or held by exactly one
\* unfinished SetupConn of an inbound connection.
SlotsConserved == slots + (IF listen = "accept" THEN 1 ELSE 0) + (IF listen = "exited" THEN 1 ELSE 0)
                  + Cardinality({c \in Conn : conn[c].setup # "none" /\ "inbound" \in conn[c].flags}) = MaxPendingPeers

\* A node is marked as being dialed exactly while its task is queued, running
\* or waiting to be collected, and at most one task exists for it; one lookup
\* runs at a time.
DialsExact ==
    LET all == Range(tasks \o queued) IN
    /\ \A n \in Node : ds.dialing[n] # NoFlag <=> \E t \in all : t.kind = "dial" /\ t.node = n
    /\ Len(tasks) + Len(queued) = Cardinality(all)
    /\ \A t, u \in all : t.kind = "dial" /\ u.kind = "dial" /\ t.node = u.node => t = u
    /\ ds.lookupRunning <=> DiscoverTask \in all

\* Dynamic dials and the dynamic peers that came of earlier ones stay within
\* the number of dynamic dials wanted.
DynDialsBounded ==
    Cardinality({n \in Node : ds.dialing[n] = "dyn"} \union DynPeers) <= maxDynDials

\* While a static node is not connected the run loop does not go to sleep for
\* good: it waits in its select with a task under way.
KeepsTicking == loop.at = "select" /\ ~(ds.static \subseteq Connected \union {Self}) => tasks # <<>>

\* Once Stop has returned no peer is left.
StoppedIsEmpty == stop = "done" => Connected = {} /\ \A c \in Conn : conn[c].peer = "none"

=============================================================================
