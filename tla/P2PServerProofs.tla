--------------------------- MODULE P2PServerProofs ---------------------------
(***************************************************************************)
(* Proofs about the peer set and the handshake slots of P2PServer, for any *)
(* number of nodes and connections and any limits.                         *)
(***************************************************************************)
EXTENDS P2PServer, FiniteSetTheorems, TLAPS

Sound ==
    /\ IsFiniteSet(Node) /\ IsFiniteSet(Conn) /\ "none" \notin Conn
    /\ Self \in Node /\ Callers \subseteq Node /\ Addable \subseteq Node
    /\ MaxPeers \in Nat /\ MaxPendingPeers \in Nat

Setups == {"none", "new", "enc", "posthandshake", "posthandshakeWait", "proto",
           "addpeer", "addpeerWait", "close", "return"}
Threadly == {"none", "announce", "run", "drop", "del"}
Flags == {"inbound", "dyn", "static", "trusted"}
Tasks == [kind : {"dial", "lookup", "wait"}, node : Node, flag : {"none", "dyn", "static"}]
Rec == [setup : Setups, peer : Threadly, node : Node, flags : SUBSET Flags, task : Tasks]

Places == {"top", "select", "checks", "cont", "disconnect", "drain", "exited"}
Stages == {"none", "posthandshake", "addpeer", "top", "drain"}
Errs == {"none", "nil", "DiscTooManyPeers", "DiscAlreadyConnected", "DiscSelf", "DiscUselessPeer"}
Loops == [at : Places, c : Conn \cup {"none"}, stage : Stages, err : Errs, left : SUBSET Conn]

Types ==
    /\ conn \in [Conn -> Rec] /\ peers \in [Node -> Conn \cup {"none"}]
    /\ loop \in Loops /\ slots \in Int /\ listen \in {"slot", "accept", "exited"}

\* An entry of the peer map is a connection of that node with a runPeer thread.
PeersExact == \A n \in Node, c \in Conn : peers[n] = c <=> conn[c].peer # "none" /\ conn[c].node = n

\* Where the run loop is when it owns a connection, and when it is done.
LoopOK ==
    /\ loop.at \in {"checks", "cont"} => loop.c \in Conn
    /\ loop.at = "disconnect" => loop.stage \in {"top", "drain"}
    /\ loop.at = "exited" => \A n \in Node : peers[n] = "none"
    /\ stop = "done" => loop.at = "exited"

IInv == Types /\ PeersExact /\ LoopOK /\ PeerLimit /\ SlotsConserved

-----------------------------------------------------------------------------
(* Updates of a connection. *)

\* The connections other than c stay.
Other(c) == \A d \in Conn : d # c => conn'[d] = conn[d]

LEMMA SetSetup ==
    ASSUME conn \in [Conn -> Rec], NEW c \in Conn, NEW s \in Setups,
           conn' = [conn EXCEPT ![c].setup = s]
    PROVE  /\ conn' \in [Conn -> Rec] /\ Other(c)
           /\ conn'[c].setup = s /\ conn'[c].peer = conn[c].peer
           /\ conn'[c].node = conn[c].node /\ conn'[c].flags = conn[c].flags
BY DEF Rec, Other

LEMMA SetPeer ==
    ASSUME conn \in [Conn -> Rec], NEW c \in Conn, NEW p \in Threadly,
           conn' = [conn EXCEPT ![c].peer = p]
    PROVE  /\ conn' \in [Conn -> Rec] /\ Other(c)
           /\ conn'[c].setup = conn[c].setup /\ conn'[c].peer = p
           /\ conn'[c].node = conn[c].node /\ conn'[c].flags = conn[c].flags
BY DEF Rec, Other

LEMMA FieldTypes ==
    ASSUME conn \in [Conn -> Rec], NEW c \in Conn
    PROVE  /\ conn[c].setup \in Setups /\ conn[c].peer \in Threadly
           /\ conn[c].node \in Node /\ conn[c].flags \in SUBSET Flags
BY DEF Rec

\* A connection object that is taken anew.
LEMMA NewConn ==
    ASSUME Sound, conn \in [Conn -> Rec], NEW c \in Conn, NEW n \in Node,
           NEW f \in {"inbound", "dyn", "static"}, NEW t \in Tasks, New(c, n, f, t)
    PROVE  /\ conn' \in [Conn -> Rec] /\ Other(c)
           /\ conn'[c].setup = "new" /\ conn'[c].peer = "none"
           /\ conn'[c].node = n /\ conn'[c].flags = {f}
<1>1. conn' = [conn EXCEPT ![c] = [setup |-> "new", peer |-> "none", node |-> n, flags |-> {f}, task |-> t]]
  BY DEF New
<1>2. "new" \in Setups /\ "none" \in Threadly /\ {f} \in SUBSET Flags
  BY DEF Setups, Threadly, Flags
<1>. HIDE DEF Setups, Threadly, Flags, Tasks
<1>. QED  BY <1>1, <1>2 DEF Rec, Other

-----------------------------------------------------------------------------
(* What keeps the invariants. *)

Limited(n) == peers[n] # "none" /\ conn[peers[n]].flags \intersect {"trusted", "static"} = {}

\* PeerLimit in these words.
LEMMA LimitIs == PeerLimit <=> Cardinality({n \in Node : Limited(n)}) <= MaxPeers /\ peers[Self] = "none"
<1>1. {n \in Connected : conn[peers[n]].flags \intersect {"trusted", "static"} = {}} = {n \in Node : Limited(n)}
  BY DEF Connected, Limited, None
<1>. QED  BY <1>1, Zenon DEF PeerLimit, None

\* A smaller set is no larger.
LEMMA Smaller ==
    ASSUME Sound, NEW S \in SUBSET Node, NEW T \in SUBSET S
    PROVE  Cardinality(S) \in Nat /\ Cardinality(T) \in Nat /\ Cardinality(T) <= Cardinality(S)
<1>1. IsFiniteSet(S)
  BY FS_Subset DEF Sound
<1>. QED  BY <1>1, FS_Subset, FS_CardinalityType

\* Steps that leave the peers as they are: no thread appears or goes, a connection
\* with a thread keeps its node and its flags, or gets more flags.
LEMMA PeersKept ==
    ASSUME Sound, IInv, conn' \in [Conn -> Rec], peers' = peers,
           \A c \in Conn : /\ conn'[c].peer # "none" <=> conn[c].peer # "none"
                           /\ conn[c].peer # "none" => /\ conn'[c].node = conn[c].node
                                                       /\ conn[c].flags \subseteq conn'[c].flags
    PROVE  PeersExact' /\ PeerLimit'
<1>1. PeersExact'
  BY DEF PeersExact, IInv
<1>2. {n \in Node : Limited(n)}' \subseteq {n \in Node : Limited(n)}
  <2>. SUFFICES ASSUME NEW n \in Node, Limited(n)' PROVE Limited(n)
    OBVIOUS
  <2>1. peers[n] \in Conn
    BY DEF Limited, IInv, Types
  <2>2. conn[peers[n]].peer # "none"
    BY <2>1 DEF IInv, PeersExact
  <2>. QED  BY <2>1, <2>2 DEF Limited
<1>3. PeerLimit'
  <2>. DEFINE S == {n \in Node : Limited(n)}  T == {n \in Node : Limited(n)}'
  <2>1. Cardinality(S) <= MaxPeers /\ peers[Self] = "none"
    BY LimitIs DEF IInv
  <2>2. T \in SUBSET S /\ S \in SUBSET Node
    BY <1>2
  <2>3. T = {n \in Connected' : conn'[peers'[n]].flags \intersect {"trusted", "static"} = {}}
    BY DEF Connected, Limited, None
  <2>. HIDE DEF S, T
  <2>4. Cardinality(T) <= MaxPeers
    BY <2>1, <2>2, Smaller DEF Sound
  <2>. QED  BY <2>1, <2>3, <2>4 DEF PeerLimit, None
<1>. QED  BY <1>1, <1>3

\* A handshake under way on an inbound connection.
Holding(c) == conn[c].setup # "none" /\ "inbound" \in conn[c].flags
Held == {c \in Conn : Holding(c)}

LEMMA SlotsAre ==
    SlotsConserved <=> slots + (IF listen = "accept" THEN 1 ELSE 0) + (IF listen = "exited" THEN 1 ELSE 0)
                        + Cardinality(Held) = MaxPendingPeers
BY DEF SlotsConserved, Held, Holding

LEMMA SlotsAreNext ==
    SlotsConserved' <=> slots' + (IF listen' = "accept" THEN 1 ELSE 0) + (IF listen' = "exited" THEN 1 ELSE 0)
                        + Cardinality(Held') = MaxPendingPeers
BY DEF SlotsConserved, Held, Holding

LEMMA HeldType == ASSUME Sound PROVE IsFiniteSet(Held) /\ Cardinality(Held) \in Nat
<1>1. Held \subseteq Conn
  BY DEF Held
<1>. QED  BY <1>1, FS_Subset, FS_CardinalityType DEF Sound

LEMMA SlotsKept ==
    ASSUME IInv, UNCHANGED <<slots, listen>>, \A c \in Conn : Holding(c)' <=> Holding(c)
    PROVE  SlotsConserved'
<1>1. Held' = Held
  BY DEF Held
<1>. QED  BY <1>1, SlotsAre, SlotsAreNext DEF IInv

-----------------------------------------------------------------------------
(* The steps. *)

LEMMA AtType == ASSUME NEW p \in Places PROVE At(p) \in Loops /\ At(p).at = p
<1>1. At(p) = [at |-> p, c |-> "none", stage |-> "none", err |-> "none", left |-> {}]
  BY DEF At, None
<1>2. "none" \in Stages /\ "none" \in Errs /\ "none" \in Conn \cup {"none"} /\ {} \in SUBSET Conn
  BY DEF Stages, Errs
<1>. DEFINE C == Conn \cup {"none"}  L == SUBSET Conn
<1>3. "none" \in C /\ {} \in L
  BY <1>2
<1>. HIDE DEF C, L
<1>4. At(p) \in [at : Places, c : C, stage : Stages, err : Errs, left : L]
  BY <1>1, <1>2, <1>3
<1>5. At(p) \in Loops
  BY <1>4 DEF Loops, C, L
<1>6. At(p).at = p
  BY <1>1
<1>. QED  BY <1>5, <1>6

LEMMA LoopFields ==
    ASSUME loop \in Loops
    PROVE  /\ loop.at \in Places /\ loop.c \in Conn \cup {"none"} /\ loop.stage \in Stages
           /\ loop.err \in Errs /\ loop.left \in SUBSET Conn
BY DEF Loops

\* The invariants that only look at connections, peers and slots.
ConnInv == PeersExact /\ PeerLimit /\ SlotsConserved

LEMMA ConnSame ==
    ASSUME ConnInv, UNCHANGED <<conn, peers, slots, listen>> PROVE ConnInv'
BY DEF ConnInv, PeersExact, PeerLimit, SlotsConserved, Connected

\* The run loop moves on, at a place where it owns no connection.
LEMMA LoopGoes ==
    ASSUME IInv, NEW p \in {"top", "select", "drain"}, loop' = At(p), loop.at # "exited",
           UNCHANGED <<stop>>
    PROVE  loop' \in Loops /\ LoopOK'
<1>1. p \in Places
  BY DEF Places
<1>2. loop' \in Loops /\ loop'.at = p
  BY <1>1, AtType
<1>. QED  BY <1>2 DEF IInv, LoopOK

\* Steps that leave connections, peers, slots and the loop alone.
LEMMA NotTheLoop ==
    ASSUME IInv, UNCHANGED <<conn, peers, slots, listen, loop>>, stop' = "done" => loop.at = "exited"
    PROVE  IInv'
<1>1. ConnInv'
  BY ConnSame DEF IInv, ConnInv
<1>2. Types'
  BY DEF IInv, Types
<1>3. LoopOK'
  BY DEF IInv, LoopOK
<1>. QED  BY <1>1, <1>2, <1>3 DEF IInv, ConnInv

\* Iterations, collected tasks and the calls of the API.
LEMMA IterateInv ==
    ASSUME Sound, IInv, Iterate \/ TaskDone \/ AddPeer PROVE IInv'
<1>1. UNCHANGED <<conn, peers, slots, listen, stop>> /\ loop.at # "exited"
  BY Zenon DEF Iterate, TaskDone, AddPeer
<1>2. loop' = At("select") \/ loop' = At("top")
  BY Zenon DEF Iterate, TaskDone, AddPeer, Again
<1>3. loop' \in Loops /\ LoopOK'
  BY <1>1, <1>2, LoopGoes
<1>4. ConnInv'
  BY <1>1, ConnSame DEF IInv, ConnInv
<1>5. Types'
  BY <1>1, <1>3 DEF IInv, Types
<1>. QED  BY <1>3, <1>4, <1>5 DEF IInv, ConnInv

\* The loop starts disconnecting a set of peers.
LEMMA DisconnectType ==
    ASSUME NEW S \in SUBSET Conn, NEW g \in {"top", "drain"},
           loop' = Disconnecting(S, g)
    PROVE  loop' \in Loops /\ loop'.at = "disconnect" /\ loop'.stage = g
<1>1. loop' = [at |-> "disconnect", c |-> "none", stage |-> g, err |-> "none", left |-> S]
  BY DEF Disconnecting, None
<1>2. g \in Stages /\ "none" \in Errs /\ "disconnect" \in Places
  BY DEF Stages, Errs, Places
<1>. DEFINE C == Conn \cup {"none"}  L == SUBSET Conn
<1>3. "none" \in C /\ S \in L
  OBVIOUS
<1>. HIDE DEF C, L
<1>4. loop' \in [at : Places, c : C, stage : Stages, err : Errs, left : L]
  BY <1>1, <1>2, <1>3
<1>5. loop' \in Loops
  BY <1>4 DEF Loops, C, L
<1>6. loop'.at = "disconnect"
  BY <1>1
<1>7. loop'.stage = g
  BY <1>1
<1>. QED  BY <1>5, <1>6, <1>7

LEMMA RemoveQuitInv ==
    ASSUME Sound, IInv, RemovePeer \/ Quit PROVE IInv'
<1>1. UNCHANGED <<conn, peers, slots, listen, stop>> /\ loop.at # "exited"
  BY DEF RemovePeer, Quit
<1>2. ConnInv'
  BY <1>1, ConnSame DEF IInv, ConnInv
<1>3. loop' \in Loops /\ LoopOK'
  <2>1. CASE loop' = At("top") \/ loop' = At("drain")
    BY <1>1, <2>1, LoopGoes
  <2>2. ASSUME NEW S \in SUBSET Conn, NEW g \in {"top", "drain"},
               loop' = Disconnecting(S, g)
        PROVE  loop' \in Loops /\ LoopOK'
    <3>1. loop' \in Loops /\ loop'.at = "disconnect" /\ loop'.stage = g
      BY <2>2, DisconnectType
    <3>. QED  BY <1>1, <3>1 DEF IInv, LoopOK
  <2>3. CASE RemovePeer
    <3>1. PICK n \in Addable : loop' = IF peers[n] # None THEN Disconnecting({peers[n]}, "top")
                                       ELSE At("top")
      BY <2>3 DEF RemovePeer
    <3>2. CASE peers[n] = None
      BY <3>1, <3>2, <2>1
    <3>3. CASE peers[n] # None
      <4>1. {peers[n]} \in SUBSET Conn
        BY <3>3 DEF IInv, Types, None, Sound
      <4>. QED  BY <3>1, <3>3, <4>1, <2>2
    <3>. QED  BY <3>2, <3>3
  <2>4. CASE Quit
    <3>1. CASE Connected = {}
      BY <3>1, <2>4, <2>1 DEF Quit
    <3>2. CASE Connected # {}
      <4>1. {peers[n] : n \in Connected} \in SUBSET Conn
        BY DEF IInv, Types, None, Connected
      <4>2. loop' = Disconnecting({peers[n] : n \in Connected}, "drain")
        BY <2>4, <3>2 DEF Quit
      <4>. HIDE DEF Connected
      <4>. QED  BY <4>1, <4>2, <2>2
    <3>. QED  BY <3>1, <3>2, ZenonT(40)
  <2>. QED  BY <2>3, <2>4
<1>4. Types'
  BY <1>1, <1>3 DEF IInv, Types
<1>. QED  BY <1>2, <1>3, <1>4 DEF IInv, ConnInv

\* The run loop answers a connection, or takes one for its checks.
LEMMA OwnsType ==
    ASSUME NEW l, NEW p \in Places, NEW c \in Conn, NEW g \in Stages, NEW e \in Errs,
           l = [at |-> p, c |-> c, stage |-> g, err |-> e, left |-> {}]
    PROVE  l \in Loops /\ l.at = p /\ l.c = c
<1>. DEFINE C == Conn \cup {"none"}  L == SUBSET Conn
<1>1. c \in C /\ {} \in L
  OBVIOUS
<1>. HIDE DEF C, L
<1>2. l \in [at : Places, c : C, stage : Stages, err : Errs, left : L]
  BY <1>1
<1>3. l \in Loops
  BY <1>2 DEF Loops, C, L
<1>4. l.at = p /\ l.c = c
  OBVIOUS
<1>. QED  BY <1>3, <1>4

\* The loop at a place where it owns a connection.
LEMMA OwnsOK ==
    ASSUME IInv, loop'.at \in {"checks", "cont"}, loop'.c \in Conn, loop.at # "exited", UNCHANGED stop
    PROVE  LoopOK'
BY DEF IInv, LoopOK

LEMMA UselessInv == ASSUME Sound, IInv, Useless PROVE IInv'
<1>1. UNCHANGED <<conn, peers, slots, listen, stop>> /\ loop.at = "checks"
  BY DEF Useless
<1>2. loop.c \in Conn /\ loop.stage \in Stages
  BY <1>1, LoopFields DEF IInv, Types, LoopOK
<1>3. loop' = [at |-> "cont", c |-> loop.c, stage |-> loop.stage, err |-> "DiscUselessPeer", left |-> {}]
  BY DEF Useless, Answering
<1>4. "cont" \in Places /\ "DiscUselessPeer" \in Errs
  BY DEF Places, Errs
<1>5. loop' \in Loops /\ loop'.at = "cont" /\ loop'.c = loop.c
  BY <1>2, <1>3, <1>4, OwnsType
<1>6. LoopOK'
  BY <1>1, <1>2, <1>5, OwnsOK
<1>7. ConnInv'
  BY <1>1, ConnSame DEF IInv, ConnInv
<1>8. Types'
  BY <1>1, <1>5, Zenon DEF IInv, Types
<1>. QED  BY <1>6, <1>7, <1>8 DEF IInv, ConnInv

LEMMA DrainedInv == ASSUME Sound, IInv, Drained PROVE IInv'
<1>1. UNCHANGED <<conn, peers, slots, listen, stop>> /\ loop' = At("exited") /\ \A n \in Node : peers[n] = "none"
  BY DEF Drained, Connected, None
<1>2. "exited" \in Places
  BY DEF Places
<1>3. loop' \in Loops /\ loop'.at = "exited"
  BY <1>1, <1>2, AtType
<1>4. LoopOK'
  BY <1>1, <1>3 DEF LoopOK
<1>5. ConnInv'
  BY <1>1, ConnSame DEF IInv, ConnInv
<1>6. Types'
  BY <1>1, <1>3 DEF IInv, Types
<1>. QED  BY <1>4, <1>5, <1>6 DEF IInv, ConnInv

\* listenLoop moves a slot between the channel and itself.
LEMMA ListenInv ==
    ASSUME Sound, IInv, TakeSlot \/ Reject \/ AcceptFails PROVE IInv'
<1>1. UNCHANGED <<conn, peers, loop, stop>>
  BY DEF TakeSlot, Reject, AcceptFails
<1>2. Held' = Held /\ Cardinality(Held) \in Nat
  BY <1>1, HeldType DEF Held, Holding
<1>3. slots' \in Int /\ listen' \in {"slot", "accept", "exited"}
  BY DEF TakeSlot, Reject, AcceptFails, IInv, Types
<1>4. SlotsConserved'
  <2>1. slots + (IF listen = "accept" THEN 1 ELSE 0) + (IF listen = "exited" THEN 1 ELSE 0)
          = slots' + (IF listen' = "accept" THEN 1 ELSE 0) + (IF listen' = "exited" THEN 1 ELSE 0)
    BY DEF TakeSlot, Reject, AcceptFails, IInv, Types
  <2>2. slots + (IF listen = "accept" THEN 1 ELSE 0) + (IF listen = "exited" THEN 1 ELSE 0)
          + Cardinality(Held) = MaxPendingPeers
    BY SlotsAre DEF IInv
  <2>. QED  BY <1>2, <2>1, <2>2, SlotsAreNext
<1>5. Types'
  BY <1>1, <1>3, Zenon DEF IInv, Types
<1>6. PeersExact' /\ PeerLimit' /\ LoopOK'
  BY <1>1 DEF IInv, PeersExact, PeerLimit, LoopOK, Connected
<1>. QED  BY <1>4, <1>5, <1>6 DEF IInv

\* Steps of one connection that leave its runPeer thread, node and flags, and whether
\* its SetupConn runs: the loop and the slots are not concerned.
LEMMA SetupStep ==
    ASSUME Sound, IInv, NEW c \in Conn, NEW s \in Setups \ {"none"}, conn[c].setup # "none",
           conn' = [conn EXCEPT ![c].setup = s], UNCHANGED <<peers, slots, listen>>
    PROVE  conn' \in [Conn -> Rec] /\ ConnInv'
<1>1. conn \in [Conn -> Rec]
  BY DEF IInv, Types
<1>2. /\ conn' \in [Conn -> Rec] /\ Other(c)
      /\ conn'[c].setup = s /\ conn'[c].peer = conn[c].peer
      /\ conn'[c].node = conn[c].node /\ conn'[c].flags = conn[c].flags
  BY <1>1, SetSetup, Zenon
<1>3. PeersExact' /\ PeerLimit'
  <2>. SUFFICES ASSUME NEW d \in Conn
                PROVE  /\ conn'[d].peer # "none" <=> conn[d].peer # "none"
                       /\ conn[d].peer # "none" => conn'[d].node = conn[d].node /\ conn[d].flags \subseteq conn'[d].flags
    BY <1>2, PeersKept
  <2>. QED  BY <1>2 DEF Other
<1>4. SlotsConserved'
  <2>. SUFFICES ASSUME NEW d \in Conn PROVE Holding(d)' <=> Holding(d)
    BY SlotsKept
  <2>. QED  BY <1>2 DEF Other, Holding
<1>. QED  BY <1>2, <1>3, <1>4 DEF ConnInv

\* Steps of a runPeer thread that go on.
LEMMA PeerStep ==
    ASSUME Sound, IInv, NEW c \in Conn, NEW p \in Threadly \ {"none"}, conn[c].peer # "none",
           conn' = [conn EXCEPT ![c].peer = p], UNCHANGED <<peers, slots, listen>>
    PROVE  conn' \in [Conn -> Rec] /\ ConnInv'
<1>1. conn \in [Conn -> Rec]
  BY DEF IInv, Types
<1>2. /\ conn' \in [Conn -> Rec] /\ Other(c)
      /\ conn'[c].setup = conn[c].setup /\ conn'[c].peer = p
      /\ conn'[c].node = conn[c].node /\ conn'[c].flags = conn[c].flags
  BY <1>1, SetPeer, Zenon
<1>3. PeersExact' /\ PeerLimit'
  <2>. SUFFICES ASSUME NEW d \in Conn
                PROVE  /\ conn'[d].peer # "none" <=> conn[d].peer # "none"
                       /\ conn[d].peer # "none" => conn'[d].node = conn[d].node /\ conn[d].flags \subseteq conn'[d].flags
    BY <1>2, PeersKept
  <2>. QED  BY <1>2 DEF Other
<1>4. SlotsConserved'
  <2>. SUFFICES ASSUME NEW d \in Conn PROVE Holding(d)' <=> Holding(d)
    BY SlotsKept
  <2>. QED  BY <1>2 DEF Other, Holding
<1>. QED  BY <1>2, <1>3, <1>4 DEF ConnInv

-----------------------------------------------------------------------------
(* The threads of the connections. *)

\* The rest of the invariant, when the loop and Stop do nothing.
LEMMA LoopStill ==
    ASSUME IInv, UNCHANGED <<peers, loop, stop>>, conn' \in [Conn -> Rec], slots' \in Int,
           listen' \in {"slot", "accept", "exited"}, ConnInv'
    PROVE  IInv'
<1>1. Types'
  BY DEF IInv, Types
<1>2. LoopOK'
  BY DEF IInv, LoopOK
<1>. QED  BY <1>1, <1>2 DEF IInv, ConnInv

LEMMA SetupInv ==
    ASSUME Sound, IInv, NEW c \in Conn,
           \/ Enter(c) \/ Handshake(c, "enc", "posthandshake") \/ Handshake(c, "proto", "addpeer")
           \/ GivesUp(c)
    PROVE  IInv'
<1>1. UNCHANGED <<peers, slots, listen, loop, stop>> /\ conn[c].setup # "none"
  BY DEF Enter, Handshake, GivesUp
<1>2. PICK s \in Setups \ {"none"} : conn' = [conn EXCEPT ![c].setup = s]
  <2>1. {"enc", "close", "posthandshake", "addpeer"} \subseteq Setups \ {"none"}
    BY DEF Setups
  <2>2. CASE Enter(c)
    BY <2>1, <2>2, Zenon DEF Enter
  <2>3. CASE Handshake(c, "enc", "posthandshake")
    BY <2>1, <2>3, Zenon DEF Handshake
  <2>4. CASE Handshake(c, "proto", "addpeer")
    BY <2>1, <2>4, Zenon DEF Handshake
  <2>5. CASE GivesUp(c)
    BY <2>1, <2>5, Zenon DEF GivesUp
  <2>. QED  BY <2>2, <2>3, <2>4, <2>5
<1>3. conn' \in [Conn -> Rec] /\ ConnInv'
  BY <1>1, <1>2, SetupStep, Zenon
<1>. QED  BY <1>1, <1>3, LoopStill DEF IInv, Types

LEMMA PeerInv ==
    ASSUME Sound, IInv, NEW c \in Conn, Announce(c) \/ PeerEnds(c) \/ AnnounceDrop(c)
    PROVE  IInv'
<1>1. UNCHANGED <<peers, slots, listen, loop, stop>> /\ conn[c].peer # "none"
  BY DEF Announce, PeerEnds, AnnounceDrop
<1>2. PICK p \in Threadly \ {"none"} : conn' = [conn EXCEPT ![c].peer = p]
  <2>1. {"run", "drop", "del"} \subseteq Threadly \ {"none"}
    BY DEF Threadly
  <2>. QED  BY <2>1 DEF Announce, PeerEnds, AnnounceDrop
<1>3. conn' \in [Conn -> Rec] /\ ConnInv'
  BY <1>1, <1>2, PeerStep, Zenon
<1>. QED  BY <1>1, <1>3, LoopStill DEF IInv, Types

LEMMA DisconnectInv == ASSUME Sound, IInv, Disconnect PROVE IInv'
<1>1. UNCHANGED <<peers, slots, listen, stop>> /\ loop.at = "disconnect" /\ loop.stage \in {"top", "drain"}
  BY DEF Disconnect, IInv, LoopOK
<1>2. PICK c \in loop.left :
          /\ conn' = IF conn[c].peer = "run" THEN [conn EXCEPT ![c].peer = "drop"] ELSE conn
          /\ loop' = IF loop.left = {c} THEN At(loop.stage) ELSE Disconnecting(loop.left \ {c}, loop.stage)
  BY Zenon DEF Disconnect
<1>3. loop.left \in SUBSET Conn /\ c \in Conn
  BY LoopFields DEF IInv, Types
<1>4. conn' \in [Conn -> Rec] /\ ConnInv'
  <2>1. CASE conn[c].peer = "run"
    <3>1. "drop" \in Threadly \ {"none"}
      BY DEF Threadly
    <3>. QED  BY <1>1, <1>2, <1>3, <2>1, <3>1, PeerStep, Zenon
  <2>2. CASE conn[c].peer # "run"
    BY <1>1, <1>2, <2>2, ConnSame DEF IInv, ConnInv, Types
  <2>. QED  BY <2>1, <2>2
<1>5. loop' \in Loops /\ LoopOK'
  <2>1. CASE loop.left = {c}
    BY <1>1, <1>2, <2>1, LoopGoes
  <2>2. CASE loop.left # {c}
    <3>1. loop.left \ {c} \in SUBSET Conn
      BY <1>3
    <3>2. loop' \in Loops /\ loop'.at = "disconnect" /\ loop'.stage = loop.stage
      BY <1>1, <1>2, <2>2, <3>1, DisconnectType, ZenonT(40)
    <3>. QED  BY <1>1, <3>2 DEF IInv, LoopOK
  <2>. QED  BY <2>1, <2>2
<1>6. Types'
  BY <1>1, <1>4, <1>5 DEF IInv, Types
<1>. QED  BY <1>4, <1>5, <1>6 DEF IInv, ConnInv

LEMMA ContinueInv == ASSUME Sound, IInv, Continue PROVE IInv'
<1>1. UNCHANGED <<peers, slots, listen, stop>> /\ loop.at = "cont" /\ loop' = At("top") /\ loop.c \in Conn
  BY DEF Continue, Again, IInv, LoopOK
<1>2. PICK s \in Setups \ {"none"} : conn' = [conn EXCEPT ![loop.c].setup = s]
  <2>1. {"close", "proto", "return"} \subseteq Setups \ {"none"}
    BY DEF Setups
  <2>. QED  BY <2>1, Zenon DEF Continue
<1>3. conn[loop.c].setup # "none"
  BY DEF Continue, Waiting
<1>4. conn' \in [Conn -> Rec] /\ ConnInv'
  <2>1. PICK c \in Conn : c = loop.c
    BY <1>1
  <2>. QED  BY <1>1, <1>2, <1>3, <2>1, SetupStep, Zenon
<1>5. loop' \in Loops /\ LoopOK'
  BY <1>1, LoopGoes
<1>6. Types'
  BY <1>1, <1>4, <1>5 DEF IInv, Types
<1>. QED  BY <1>4, <1>5, <1>6 DEF IInv, ConnInv

\* A received connection may get the flag of a trusted node.
LEMMA ReceiveInv ==
    ASSUME Sound, IInv, NEW c \in Conn, NEW g \in {"posthandshake", "addpeer"}, Receive(c, g)
    PROVE  IInv'
<1>1. UNCHANGED <<peers, slots, listen, stop>> /\ loop.at = "select" /\ conn[c].setup # "none"
  BY DEF Receive
<1>2. PICK F : (F = {"trusted"} \/ F = {}) /\ conn' = [conn EXCEPT ![c].setup = Waiting(g), ![c].flags = conn[c].flags \union F]
  BY Zenon DEF Receive
<1>3. Waiting(g) \in Setups \ {"none"}
  BY DEF Waiting, Setups
<1>4. conn[c].flags \in SUBSET Flags /\ "trusted" \in Flags
  BY FieldTypes DEF IInv, Types, Flags
<1>5. conn[c].flags \union F \in SUBSET Flags
  BY <1>2, <1>4
<1>6. /\ conn' \in [Conn -> Rec] /\ Other(c)
      /\ conn'[c].setup = Waiting(g) /\ conn'[c].peer = conn[c].peer
      /\ conn'[c].node = conn[c].node /\ conn'[c].flags = conn[c].flags \union F
  <2>1. PICK G \in SUBSET Flags, s \in Setups : G = conn[c].flags \union F /\ s = Waiting(g)
    BY <1>3, <1>5, Zenon
  <2>2. conn' = [conn EXCEPT ![c].setup = s, ![c].flags = G]
    BY <1>2, <2>1, Zenon
  <2>3. conn \in [Conn -> Rec]
    BY DEF IInv, Types
  <2>4. /\ conn' \in [Conn -> Rec] /\ Other(c)
        /\ conn'[c].setup = s /\ conn'[c].peer = conn[c].peer
        /\ conn'[c].node = conn[c].node /\ conn'[c].flags = G
    BY <2>2, <2>3, Zenon DEF Rec, Other
  <2>. QED  BY <2>1, <2>4, Zenon
<1>7. PeersExact' /\ PeerLimit'
  <2>. SUFFICES ASSUME NEW d \in Conn
                PROVE  /\ conn'[d].peer # "none" <=> conn[d].peer # "none"
                       /\ conn[d].peer # "none" => conn'[d].node = conn[d].node /\ conn[d].flags \subseteq conn'[d].flags
    BY <1>1, <1>6, PeersKept
  <2>. QED  BY <1>6, ZenonT(40) DEF Other
<1>8. SlotsConserved'
  <2>. SUFFICES ASSUME NEW d \in Conn PROVE Holding(d)' <=> Holding(d)
    BY <1>1, SlotsKept
  <2>. QED  BY <1>1, <1>2, <1>3, <1>6, ZenonT(40) DEF Other, Holding
<1>9. loop' \in Loops /\ LoopOK'
  <2>1. loop' = [at |-> "checks", c |-> c, stage |-> g, err |-> "none", left |-> {}]
    BY DEF Receive, Checking, None
  <2>2. "checks" \in Places /\ g \in Stages /\ "none" \in Errs
    BY Zenon DEF Places, Stages, Errs
  <2>3. loop' \in Loops /\ loop'.at = "checks" /\ loop'.c = c
    BY <2>1, <2>2, OwnsType, Zenon
  <2>. QED  BY <1>1, <2>3, OwnsOK
<1>10. Types'
  BY <1>1, <1>6, <1>9, ZenonT(40) DEF IInv, Types
<1>. QED  BY <1>7, <1>8, <1>9, <1>10 DEF IInv

\* A connection that has passed the checks enters the peer map.
Born(c) ==
    /\ ~TooMany(c) /\ peers[conn[c].node] = None /\ conn[c].node # Self
    /\ peers' = [peers EXCEPT ![conn[c].node] = c]
    /\ conn' = [conn EXCEPT ![c].peer = "announce"]

LEMMA BornInv ==
    ASSUME Sound, IInv, NEW c \in Conn, Born(c), UNCHANGED <<slots, listen>>
    PROVE  conn' \in [Conn -> Rec] /\ peers' \in [Node -> Conn \cup {"none"}] /\ ConnInv'
<1>1. conn \in [Conn -> Rec] /\ peers \in [Node -> Conn \cup {"none"}]
  BY DEF IInv, Types
<1>2. PICK m \in Node : m = conn[c].node
  BY <1>1, FieldTypes
<1>3. "announce" \in Threadly
  BY DEF Threadly
<1>4. /\ conn' \in [Conn -> Rec] /\ Other(c)
      /\ conn'[c].setup = conn[c].setup /\ conn'[c].peer = "announce"
      /\ conn'[c].node = conn[c].node /\ conn'[c].flags = conn[c].flags
  BY <1>1, <1>3, SetPeer, Zenon DEF Born
<1>5. peers[m] = "none" /\ m # Self /\ peers' = [peers EXCEPT ![m] = c] /\ c # "none"
  BY <1>2 DEF Born, None, Sound
<1>6. peers' \in [Node -> Conn \cup {"none"}] /\ peers'[m] = c /\ \A n \in Node \ {m} : peers'[n] = peers[n]
  BY <1>1, <1>5, Zenon
<1>7. PeersExact'
  <2>. SUFFICES ASSUME NEW n \in Node, NEW d \in Conn
                PROVE  peers'[n] = d <=> conn'[d].peer # "none" /\ conn'[d].node = n
    BY DEF PeersExact
  <2>1. peers[n] = d <=> conn[d].peer # "none" /\ conn[d].node = n
    BY DEF IInv, PeersExact
  <2>2. peers[m] = d <=> conn[d].peer # "none" /\ conn[d].node = m
    BY DEF IInv, PeersExact
  <2>3. peers[n] = c <=> conn[c].peer # "none" /\ conn[c].node = n
    BY Zenon DEF IInv, PeersExact
  <2>4. CASE d = c
    BY <2>4, <1>2, <1>4, <1>5, <1>6, <2>3, ZenonT(40)
  <2>5. CASE d # c
    BY <2>5, <1>2, <1>4, <1>5, <1>6, <2>1, <2>2, ZenonT(40) DEF Other, Sound
  <2>. QED  BY <2>4, <2>5
<1>8. PeerLimit'
  <2>. DEFINE S == {n \in Node : Limited(n)}  T == {n \in Node : Limited(n)}'
  <2>1. Cardinality(S) <= MaxPeers /\ peers[Self] = "none"
    BY LimitIs DEF IInv
  <2>2. \A n \in Node \ {m} : Limited(n)' => Limited(n)
    <3>. SUFFICES ASSUME NEW n \in Node \ {m}, Limited(n)' PROVE Limited(n)
      OBVIOUS
    <3>1. peers'[n] = peers[n] /\ peers[n] \in Conn
      BY <1>1, <1>6 DEF Limited
    <3>2. conn'[peers[n]].flags = conn[peers[n]].flags
      BY <1>4, <3>1 DEF Other
    <3>. QED  BY <3>1, <3>2 DEF Limited
  <2>3. T = {n \in Connected' : conn'[peers'[n]].flags \intersect {"trusted", "static"} = {}}
    BY DEF Connected, Limited, None
  <2>4. Cardinality(T) <= MaxPeers
    <3>1. CASE conn[c].flags \intersect {"trusted", "static"} = {}
      <4>1. Cardinality(Connected) < MaxPeers
        <5>1. IsFiniteSet(Connected)
          BY FS_Subset DEF Connected, Sound
        <5>2. Cardinality(Connected) \in Nat
          BY <5>1, FS_CardinalityType
        <5>. QED  BY <3>1, <5>2 DEF Born, TooMany, Sound
      <4>2. T \subseteq Connected \cup {m} /\ m \notin Connected /\ Connected \subseteq Node
        BY <2>2, <1>5 DEF Limited, Connected, None
      <4>. HIDE DEF T
      <4>3. IsFiniteSet(Connected)
        BY <4>2, FS_Subset DEF Sound
      <4>4. /\ IsFiniteSet(Connected \cup {m}) /\ Cardinality(Connected) \in Nat
            /\ Cardinality(Connected \cup {m}) = Cardinality(Connected) + 1
        BY <4>2, <4>3, FS_AddElement, FS_CardinalityType, ZenonT(40)
      <4>5. Cardinality(T) <= Cardinality(Connected \cup {m}) /\ Cardinality(T) \in Nat
        BY <4>2, <4>4, FS_Subset, FS_CardinalityType, ZenonT(40)
      <4>. QED  BY <4>1, <4>4, <4>5 DEF Sound
    <3>2. CASE conn[c].flags \intersect {"trusted", "static"} # {}
      <4>1. ~Limited(m)'
        BY <3>2, <1>4, <1>6 DEF Limited
      <4>2. T \in SUBSET S /\ S \in SUBSET Node
        BY <2>2, <4>1
      <4>. HIDE DEF S, T
      <4>. QED  BY <2>1, <4>2, Smaller, SMTT(40) DEF Sound
    <3>. QED  BY <3>1, <3>2
  <2>5. peers'[Self] = "none"
    BY <1>5, <1>6, <2>1, Zenon DEF Sound
  <2>. HIDE DEF T
  <2>. QED  BY <2>3, <2>4, <2>5 DEF PeerLimit, None
<1>9. SlotsConserved'
  <2>. SUFFICES ASSUME NEW d \in Conn PROVE Holding(d)' <=> Holding(d)
    BY SlotsKept
  <2>. QED  BY <1>4 DEF Other, Holding
<1>. QED  BY <1>4, <1>6, <1>7, <1>8, <1>9 DEF ConnInv

LEMMA CheckInv == ASSUME Sound, IInv, Check PROVE IInv'
<1>1. UNCHANGED <<slots, listen, stop>> /\ loop.at = "checks"
  BY DEF Check
<1>2. PICK c \in Conn : c = loop.c
  BY <1>1 DEF IInv, LoopOK
<1>3. loop.stage \in Stages
  BY LoopFields DEF IInv, Types
<1>4. PICK e : /\ e = encHandshakeChecks(c)
               /\ loop' = Answering(e)
               /\ peers' = IF loop.stage = "addpeer" /\ e = "nil" THEN [peers EXCEPT ![conn[c].node] = c] ELSE peers
               /\ conn' = IF loop.stage = "addpeer" /\ e = "nil" THEN [conn EXCEPT ![c].peer = "announce"] ELSE conn
  BY <1>2 DEF Check, protoHandshakeChecks
<1>5. e \in Errs /\ (e = "nil" => ~TooMany(c) /\ peers[conn[c].node] = None /\ conn[c].node # Self)
  BY <1>4 DEF encHandshakeChecks, Errs
<1>6. conn' \in [Conn -> Rec] /\ peers' \in [Node -> Conn \cup {"none"}] /\ ConnInv'
  <2>1. CASE loop.stage = "addpeer" /\ e = "nil"
    <3>1. Born(c)
      BY <1>4, <1>5, <2>1 DEF Born
    <3>. QED  BY <1>1, <3>1, BornInv
  <2>2. CASE ~(loop.stage = "addpeer" /\ e = "nil")
    <3>1. UNCHANGED <<conn, peers>>
      BY <1>4, <2>2
    <3>. QED  BY <1>1, <3>1, ConnSame DEF IInv, Types, ConnInv
  <2>. QED  BY <2>1, <2>2
<1>7. loop' \in Loops /\ LoopOK'
  <2>1. loop' = [at |-> "cont", c |-> c, stage |-> loop.stage, err |-> e, left |-> {}]
    BY <1>2, <1>4 DEF Answering
  <2>2. "cont" \in Places
    BY Zenon DEF Places
  <2>3. loop' \in Loops /\ loop'.at = "cont" /\ loop'.c = c
    BY <1>3, <1>5, <2>1, <2>2, OwnsType, ZenonT(40)
  <2>. QED  BY <1>1, <2>3, OwnsOK
<1>8. Types'
  BY <1>1, <1>6, <1>7 DEF IInv, Types
<1>. QED  BY <1>6, <1>7, <1>8 DEF IInv, ConnInv

\* A peer that has ended leaves the peer map.
LEMMA DelPeerInv == ASSUME Sound, IInv, NEW c \in Conn, DelPeer(c) PROVE IInv'
<1>1. UNCHANGED <<slots, listen, stop>> /\ loop.at \in {"select", "drain"} /\ conn[c].peer = "del"
  BY DEF DelPeer
<1>2. conn \in [Conn -> Rec] /\ peers \in [Node -> Conn \cup {"none"}] /\ "none" \in Threadly
  BY DEF IInv, Types, Threadly
<1>3. PICK m \in Node : m = conn[c].node
  BY <1>2, FieldTypes
<1>4. /\ conn' \in [Conn -> Rec] /\ Other(c)
      /\ conn'[c].setup = conn[c].setup /\ conn'[c].peer = "none"
      /\ conn'[c].node = conn[c].node /\ conn'[c].flags = conn[c].flags
  BY <1>2, SetPeer, Zenon DEF DelPeer
<1>5. peers' \in [Node -> Conn \cup {"none"}] /\ peers'[m] = "none" /\ \A n \in Node \ {m} : peers'[n] = peers[n]
  BY <1>2, <1>3 DEF DelPeer, None
<1>6. peers[m] = c
  BY <1>1, <1>3 DEF IInv, PeersExact
<1>7. PeersExact'
  <2>. SUFFICES ASSUME NEW n \in Node, NEW d \in Conn
                PROVE  peers'[n] = d <=> conn'[d].peer # "none" /\ conn'[d].node = n
    BY DEF PeersExact
  <2>1. peers[n] = d <=> conn[d].peer # "none" /\ conn[d].node = n
    BY DEF IInv, PeersExact
  <2>2. d # "none"
    BY Zenon DEF Sound
  <2>3. CASE d = c
    BY <2>1, <2>2, <2>3, <1>3, <1>4, <1>5, <1>6, ZenonT(40)
  <2>4. CASE d # c
    BY <2>1, <2>2, <2>4, <1>3, <1>4, <1>5, <1>6, ZenonT(40) DEF Other
  <2>. QED  BY <2>3, <2>4
<1>8. PeerLimit'
  <2>. DEFINE S == {n \in Node : Limited(n)}  T == {n \in Node : Limited(n)}'
  <2>1. Cardinality(S) <= MaxPeers /\ peers[Self] = "none"
    BY LimitIs DEF IInv
  <2>2. T \in SUBSET S /\ S \in SUBSET Node
    <3>. SUFFICES ASSUME NEW n \in Node, Limited(n)' PROVE Limited(n)
      OBVIOUS
    <3>1. peers'[n] = peers[n] /\ peers[n] \in Conn
      BY <1>2, <1>5 DEF Limited
    <3>2. conn'[peers[n]].flags = conn[peers[n]].flags
      BY <1>4, <3>1 DEF Other
    <3>. QED  BY <3>1, <3>2 DEF Limited
  <2>3. T = {n \in Connected' : conn'[peers'[n]].flags \intersect {"trusted", "static"} = {}}
    BY DEF Connected, Limited, None
  <2>4. peers'[Self] = "none"
    BY <1>5, <2>1 DEF Sound
  <2>. HIDE DEF S, T
  <2>5. Cardinality(T) <= MaxPeers
    BY <2>1, <2>2, Smaller DEF Sound
  <2>. QED  BY <2>3, <2>4, <2>5 DEF PeerLimit, None
<1>9. SlotsConserved'
  <2>. SUFFICES ASSUME NEW d \in Conn PROVE Holding(d)' <=> Holding(d)
    BY <1>1, SlotsKept
  <2>. QED  BY <1>4, Zenon DEF Other, Holding
<1>10. loop' \in Loops /\ LoopOK'
  <2>1. CASE loop.at = "select"
    <3>1. loop' = At("top")
      BY <2>1 DEF DelPeer
    <3>. QED  BY <1>1, <3>1, LoopGoes
  <2>2. CASE loop.at = "drain"
    <3>1. loop' = loop
      BY <2>2 DEF DelPeer
    <3>. QED  BY <1>1, <2>2, <3>1 DEF IInv, LoopOK, Types
  <2>. QED  BY <1>1, <2>1, <2>2
<1>11. Types'
  BY <1>1, <1>4, <1>5, <1>10, Zenon DEF IInv, Types
<1>. QED  BY <1>7, <1>8, <1>9, <1>10, <1>11 DEF IInv

\* A connection object taken anew leaves the peers as they are.
LEMMA NewPeers ==
    ASSUME Sound, IInv, NEW c \in Conn, c \in Free, NEW n \in Node,
           NEW f \in {"inbound", "dyn", "static"}, NEW t \in Tasks, New(c, n, f, t), peers' = peers
    PROVE  /\ PeersExact' /\ PeerLimit' /\ conn' \in [Conn -> Rec]
           /\ ~Holding(c) /\ (Holding(c)' <=> f = "inbound")
           /\ \A d \in Conn \ {c} : Holding(d)' <=> Holding(d)
<1>1. /\ conn' \in [Conn -> Rec] /\ Other(c)
      /\ conn'[c].setup = "new" /\ conn'[c].peer = "none"
      /\ conn'[c].node = n /\ conn'[c].flags = {f}
  BY NewConn DEF IInv, Types
<1>2. conn[c].setup = "none" /\ conn[c].peer = "none"
  BY DEF Free
<1>3. PeersExact' /\ PeerLimit'
  <2>. SUFFICES ASSUME NEW d \in Conn
                PROVE  /\ conn'[d].peer # "none" <=> conn[d].peer # "none"
                       /\ conn[d].peer # "none" => conn'[d].node = conn[d].node /\ conn[d].flags \subseteq conn'[d].flags
    BY <1>1, PeersKept, ZenonT(40)
  <2>. QED  BY <1>1, <1>2, Zenon DEF Other
<1>4. ~Holding(c) /\ (Holding(c)' <=> f = "inbound")
  BY <1>1, <1>2 DEF Holding
<1>5. \A d \in Conn \ {c} : Holding(d)' <=> Holding(d)
  BY <1>1 DEF Holding, Other
<1>. QED  BY <1>1, <1>3, <1>4, <1>5, ZenonT(40)

LEMMA WaitTaskType == ASSUME Sound PROVE WaitExpireTask \in Tasks
BY DEF WaitExpireTask, Tasks, NoFlag, Sound

LEMMA AcceptInv == ASSUME Sound, IInv, Accept PROVE IInv'
<1>1. UNCHANGED <<peers, slots, loop, stop>> /\ listen = "accept" /\ listen' = "slot"
  BY SMTT(40) DEF Accept
<1>2. PICK c \in Conn, n \in Node : c \in Free /\ New(c, n, "inbound", WaitExpireTask)
  BY DEF Accept, Free, Sound
<1>3. /\ PeersExact' /\ PeerLimit' /\ conn' \in [Conn -> Rec]
      /\ ~Holding(c) /\ Holding(c)' /\ \A d \in Conn \ {c} : Holding(d)' <=> Holding(d)
  BY <1>1, <1>2, NewPeers, WaitTaskType
<1>4. SlotsConserved'
  <2>1. Held' = Held \cup {c} /\ c \notin Held
    BY <1>3 DEF Held
  <2>2. Cardinality(Held') = Cardinality(Held) + 1 /\ Cardinality(Held) \in Nat
    BY <2>1, HeldType, FS_AddElement, Zenon
  <2>3. slots + 1 + Cardinality(Held) = MaxPendingPeers
    BY <1>1, <2>2, SlotsAre DEF IInv, Types
  <2>4. slots \in Int
    BY DEF IInv, Types
  <2>. QED  BY <1>1, <2>2, <2>3, <2>4, SlotsAreNext
<1>. QED  BY <1>1, <1>3, <1>4, LoopStill DEF IInv, Types, ConnInv

LEMMA DialInv == ASSUME Sound, IInv, NEW t, Dial(t) PROVE IInv'
<1>1. UNCHANGED <<peers, slots, loop, stop, listen>>
  BY Zenon DEF Dial
<1>2. PICK c \in Conn, n \in Node, f \in {"dyn", "static"} : c \in Free /\ t = DialTask(n, f) /\ New(c, n, f, t)
  BY DEF Dial, Free
<1>3. t \in Tasks
  BY <1>2 DEF DialTask, Tasks
<1>4. /\ PeersExact' /\ PeerLimit' /\ conn' \in [Conn -> Rec]
      /\ ~Holding(c) /\ ~Holding(c)' /\ \A d \in Conn \ {c} : Holding(d)' <=> Holding(d)
  BY <1>1, <1>2, <1>3, NewPeers, Zenon
<1>5. SlotsConserved'
  BY <1>1, <1>4, SlotsKept, Zenon
<1>. QED  BY <1>1, <1>4, <1>5, LoopStill, Zenon DEF IInv, Types, ConnInv

\* SetupConn returns: the slot of an inbound connection comes back.
LEMMA ReturnInv == ASSUME Sound, IInv, NEW c \in Conn, Return(c) PROVE IInv'
<1>1. UNCHANGED <<peers, loop, stop, listen>> /\ conn[c].setup # "none"
  BY DEF Return
<1>2. slots' = slots + (IF "inbound" \in conn[c].flags THEN 1 ELSE 0)
  BY DEF Return, Finished
<1>3. conn \in [Conn -> Rec] /\ "none" \in Setups
  BY DEF IInv, Types, Setups
<1>4. /\ conn' \in [Conn -> Rec] /\ Other(c)
      /\ conn'[c].setup = "none" /\ conn'[c].peer = conn[c].peer
      /\ conn'[c].node = conn[c].node /\ conn'[c].flags = conn[c].flags
  BY <1>3, SetSetup, ZenonT(40) DEF Return
<1>5. PeersExact' /\ PeerLimit'
  <2>. SUFFICES ASSUME NEW d \in Conn
                PROVE  /\ conn'[d].peer # "none" <=> conn[d].peer # "none"
                       /\ conn[d].peer # "none" => conn'[d].node = conn[d].node /\ conn[d].flags \subseteq conn'[d].flags
    BY <1>1, <1>4, PeersKept, Zenon
  <2>. QED  BY <1>4, Zenon DEF Other
<1>6. Held' = Held \ {c}
  BY <1>4 DEF Held, Holding, Other
<1>7. slots \in Int
  BY DEF IInv, Types
<1>8. SlotsConserved'
  <2>1. CASE "inbound" \in conn[c].flags
    <3>1. c \in Held
      BY <1>1, <2>1 DEF Held, Holding
    <3>2. Cardinality(Held') = Cardinality(Held) - 1 /\ Cardinality(Held) \in Nat
      BY <1>6, <3>1, HeldType, FS_RemoveElement, Zenon
    <3>. QED  BY <1>1, <1>2, <1>7, <2>1, <3>2, SlotsAre, SlotsAreNext, SMTT(40) DEF IInv
  <2>2. CASE "inbound" \notin conn[c].flags
    <3>1. Held' = Held
      BY <1>6, <2>2 DEF Held, Holding
    <3>2. slots' = slots
      BY <1>2, <1>7, <2>2
    <3>. QED  BY <1>1, <3>1, <3>2, SlotsAre, SlotsAreNext, ZenonT(40) DEF IInv
  <2>. QED  BY <2>1, <2>2, Zenon
<1>9. slots' \in Int
  BY <1>2, <1>7
<1>. QED  BY <1>1, <1>4, <1>5, <1>8, <1>9, LoopStill, Zenon DEF IInv, Types, ConnInv

-----------------------------------------------------------------------------
(* The theorems. *)

LEMMA InitInv == ASSUME Sound, Init PROVE IInv
<1>1. conn \in [Conn -> Rec]
  <2>1. Idle = [setup |-> "none", peer |-> "none", node |-> Self, flags |-> {}, task |-> WaitExpireTask]
    BY DEF Idle
  <2>2. "none" \in Setups /\ "none" \in Threadly /\ {} \in SUBSET Flags /\ Self \in Node
    BY Zenon DEF Setups, Threadly, Sound
  <2>3. Idle \in Rec
    BY <2>1, <2>2, WaitTaskType, Zenon DEF Rec
  <2>. QED  BY <2>3, Zenon DEF Init
<1>2. \A c \in Conn : conn[c].peer = "none" /\ conn[c].setup = "none"
  BY DEF Init, Idle
<1>3. peers = [n \in Node |-> "none"] /\ loop = At("top") /\ listen = "slot" /\ slots = MaxPendingPeers /\ stop = "no"
  BY DEF Init, None
<1>4. "top" \in Places
  BY DEF Places
<1>5. loop \in Loops /\ loop.at = "top"
  BY <1>3, <1>4, AtType, Zenon
<1>6. Types
  BY <1>1, <1>3, <1>5, SMTT(40) DEF Types, Sound
<1>7. PeersExact
  BY <1>2, <1>3 DEF PeersExact, Sound
<1>8. LoopOK
  BY <1>3, <1>5 DEF LoopOK
<1>9. PeerLimit
  <2>1. {n \in Node : Limited(n)} = {}
    BY <1>3 DEF Limited
  <2>. QED  BY <1>3, <2>1, LimitIs, FS_EmptySet DEF Sound
<1>10. SlotsConserved
  <2>1. Held = {}
    BY <1>2, Zenon DEF Held, Holding
  <2>. QED  BY <1>3, <2>1, SlotsAre, FS_EmptySet DEF Sound
<1>. QED  BY <1>6, <1>7, <1>8, <1>9, <1>10, Zenon DEF IInv

LEMMA NextInv == ASSUME Sound, IInv, [Next]_vars PROVE IInv'
<1>1. CASE UNCHANGED vars
  BY <1>1, NotTheLoop DEF vars, IInv, LoopOK
<1>2. CASE Iterate \/ TaskDone \/ AddPeer
  BY <1>2, IterateInv
<1>3. CASE RemovePeer \/ Quit
  BY <1>3, RemoveQuitInv
<1>4. CASE Disconnect
  BY <1>4, DisconnectInv
<1>5. CASE Check
  BY <1>5, CheckInv, ZenonT(40)
<1>6. CASE Useless
  BY <1>6, UselessInv
<1>7. CASE Continue
  BY <1>7, ContinueInv
<1>8. CASE Drained
  BY <1>8, DrainedInv
<1>9. CASE TakeSlot \/ Reject \/ AcceptFails
  BY <1>9, ListenInv
<1>10. CASE Accept
  BY <1>10, AcceptInv
<1>11. CASE \E t \in Range(tasks) : Dial(t) \/ Ends(t)
  <2>1. ASSUME NEW t, Ends(t) PROVE IInv'
    BY <2>1, NotTheLoop, Zenon DEF Ends, IInv, LoopOK
  <2>. QED  BY <1>11, <2>1, DialInv, ZenonT(40)
<1>12. CASE Threads
  BY <1>12, ReceiveInv, DelPeerInv, SetupInv, PeerInv, ReturnInv, ZenonT(40) DEF Threads
<1>13. CASE Stop
  BY <1>13, NotTheLoop DEF Stop
<1>14. CASE StopReturns
  BY <1>14, NotTheLoop DEF StopReturns
<1>. QED  BY <1>1, <1>2, <1>3, <1>4, <1>5, <1>6, <1>7, <1>8, <1>9, <1>10, <1>11, <1>12, <1>13, <1>14, ZenonT(40) DEF Next

\* IInv is an inductive invariant of the server.
THEOREM Invariance == ASSUME Sound PROVE Spec => []IInv
<1>1. Init => IInv
  BY InitInv
<1>2. IInv /\ [Next]_vars => IInv'
  BY NextInv
<1>. QED  BY <1>1, <1>2, PTL DEF Spec

\* The peer map and the runPeer threads agree at every moment, whatever the order in
\* which handshakes, checks, disconnects and Stop interleave: a node has at most one
\* peer, and delpeer removes the entry of the very connection that ended.
THEOREM AtMostOnePeerPerNode == ASSUME Sound PROVE Spec => []OnePeerPerNode
<1>1. IInv => OnePeerPerNode
  <2>. SUFFICES ASSUME IInv, NEW c \in Conn PROVE conn[c].peer # "none" <=> peers[conn[c].node] = c
    BY DEF OnePeerPerNode
  <2>1. conn[c].node \in Node
    BY FieldTypes DEF IInv, Types
  <2>. QED  BY <2>1 DEF IInv, PeersExact
<1>. QED  BY <1>1, Invariance, PTL

\* Only trusted and statically dialed connections enter the peer map beyond MaxPeers,
\* although the checks of a connection run twice and others may enter in between, and
\* the own node never enters.
THEOREM LimitIsKept == ASSUME Sound PROVE Spec => []PeerLimit
<1>1. IInv => PeerLimit
  BY DEF IInv
<1>. QED  BY <1>1, Invariance, PTL

\* No handshake slot of listenLoop is lost or returned twice.
THEOREM SlotsAreConserved == ASSUME Sound PROVE Spec => []SlotsConserved
<1>1. IInv => SlotsConserved
  BY ZenonT(40) DEF IInv
<1>. QED  BY <1>1, Invariance, PTL

\* When Stop has returned, no peer is in the map and no runPeer thread is left.
THEOREM StopLeavesNoPeer == ASSUME Sound PROVE Spec => []StoppedIsEmpty
<1>1. IInv => StoppedIsEmpty
  <2>. SUFFICES ASSUME IInv, stop = "done" PROVE Connected = {} /\ \A c \in Conn : conn[c].peer = "none"
    BY DEF StoppedIsEmpty
  <2>1. \A n \in Node : peers[n] = "none"
    BY DEF IInv, LoopOK
  <2>2. Connected = {}
    BY <2>1 DEF Connected, None
  <2>3. ASSUME NEW c \in Conn PROVE conn[c].peer = "none"
    <3>1. conn[c].node \in Node
      BY FieldTypes DEF IInv, Types
    <3>. QED  BY <2>1, <3>1 DEF IInv, PeersExact, Sound
  <2>. QED  BY <2>2, <2>3
<1>. QED  BY <1>1, Invariance, PTL
====
