------------------------------- MODULE Protocol -------------------------------
(*****************************************************************************)
(* The eth protocol of a peer: the session, the transactions sent to a new   *)
(* peer, the requests it is served and the replies it gives.                 *)
(*****************************************************************************)
EXTENDS Integers, FiniteSets, FiniteSetsExt, Sequences

-----------------------------------------------------------------------------
(***************************************************************************)
(* The peer sessions of eth/handler.go: the Run callback and handle of     *)
(* every connection, removePeer as called by a session, the fetcher, the   *)
(* downloader and the fork timer, the registration in the two peer sets    *)
(* (eth/peer.go and eth/downloader/peer.go), and Start and Stop with the   *)
(* syncer of eth/sync.go.  Every lock or channel operation is a step.      *)
(***************************************************************************)

CONSTANTS Session,          \* connections over time
          Id,               \* session -> peer id
          Dropper,          \* goroutines that call removePeer
          maxPeers

VARIABLES pc,               \* of every session: where its Run callback is
          rm, target,       \* removePeer of a session or dropper: next step, session looked up
          rmId,             \* the id a dropper removes
          peers, dlPeers,   \* pm.peers: id -> session; ids in the downloader's set
          disc,             \* sessions told to disconnect
          wg,               \* the wait group counter
          syncer, stop      \* the syncer loop; the progress of Stop

vars == <<pc, rm, target, rmId, peers, dlPeers, disc, wg, syncer, stop>>

none == "none"
Ids == {Id[s] : s \in Session}
Remover == Session \cup Dropper
Live(s) == pc[s] \notin {"idle", "end"}

Init == /\ pc = [s \in Session |-> "idle"]
        /\ rm = [r \in Remover |-> "idle"] /\ target = [r \in Remover |-> none] /\ rmId = [d \in Dropper |-> none]
        /\ peers = [i \in Ids |-> none] /\ dlPeers = {} /\ disc = {}
        /\ wg = 0 /\ syncer = TRUE /\ stop = "running"

Goto(s, l) == pc' = [pc EXCEPT ![s] = l]

----------------------------------------------------------------------------
\* The p2p server runs at most one session of an id at a time.
Connect(s) ==
    /\ pc[s] = "idle" /\ \A t \in Session \ {s} : Id[t] = Id[s] => ~Live(t)
    /\ Goto(s, "announce")
    /\ UNCHANGED <<rm, target, rmId, peers, dlPeers, disc, wg, syncer, stop>>

\* newPeerCh is received by the syncer; quitSync is closed by Stop.
Announce(s) ==
    /\ pc[s] = "announce"
    /\ \/ syncer /\ Goto(s, "add")
       \/ stop \in {"close", "wait", "stopped"} /\ Goto(s, "end")
    /\ UNCHANGED <<rm, target, rmId, peers, dlPeers, disc, wg, syncer, stop>>

AddToGroup(s) ==
    /\ pc[s] = "add" /\ wg' = wg + 1 /\ Goto(s, "check")
    /\ UNCHANGED <<rm, target, rmId, peers, dlPeers, disc, syncer, stop>>

\* handle: the limit, the status handshake, both registrations, the message loop.
Check(s) ==
    /\ pc[s] = "check"
    /\ Goto(s, IF Cardinality({i \in Ids : peers[i] # none}) >= maxPeers THEN "return" ELSE "handshake")
    /\ UNCHANGED <<rm, target, rmId, peers, dlPeers, disc, wg, syncer, stop>>

Handshake(s) ==
    /\ pc[s] = "handshake" /\ \/ Goto(s, "register") \/ Goto(s, "return")
    /\ UNCHANGED <<rm, target, rmId, peers, dlPeers, disc, wg, syncer, stop>>

Register(s) ==
    /\ pc[s] = "register"
    /\ IF stop \in {"wait", "stopped"} \/ peers[Id[s]] # none
       THEN Goto(s, "return") /\ UNCHANGED peers
       ELSE Goto(s, "dlregister") /\ peers' = [peers EXCEPT ![Id[s]] = s]
    /\ UNCHANGED <<rm, target, rmId, dlPeers, disc, wg, syncer, stop>>

RegisterDownloader(s) ==
    /\ pc[s] = "dlregister"
    /\ Goto(s, IF Id[s] \in dlPeers THEN "remove" ELSE "loop")
    /\ dlPeers' = dlPeers \cup {Id[s]}
    /\ UNCHANGED <<rm, target, rmId, peers, disc, wg, syncer, stop>>

\* handleMsg fails, at the latest when the connection has been told to close.
Fail(s) ==
    /\ pc[s] = "loop" /\ Goto(s, "remove")
    /\ UNCHANGED <<rm, target, rmId, peers, dlPeers, disc, wg, syncer, stop>>

Return(s) ==
    /\ pc[s] = "return" /\ wg' = wg - 1 /\ Goto(s, "end")
    /\ UNCHANGED <<rm, target, rmId, peers, dlPeers, disc, syncer, stop>>

----------------------------------------------------------------------------
\* removePeer: look the peer up, leave the downloader, leave the set, disconnect.
Start(r) ==
    \/ r \in Session /\ pc[r] = "remove" /\ UNCHANGED rmId
    \/ /\ r \in Dropper /\ rmId[r] = none
       /\ \E s \in Session : pc[s] \notin {"idle", "announce", "add", "check"} /\ rmId' = [rmId EXCEPT ![r] = Id[s]]
RmId(r) == IF r \in Session THEN Id[r] ELSE rmId[r]

LookUp(r) ==
    /\ rm[r] = "idle"
    /\ Start(r)
    /\ LET i == IF r \in Session THEN Id[r] ELSE rmId'[r]
       IN  IF peers[i] = none
           THEN /\ pc' = IF r \in Session THEN [pc EXCEPT ![r] = "return"] ELSE pc
                /\ UNCHANGED <<rm, target>>
           ELSE /\ rm' = [rm EXCEPT ![r] = "downloader"] /\ target' = [target EXCEPT ![r] = peers[i]]
                /\ UNCHANGED pc
    /\ UNCHANGED <<peers, dlPeers, disc, wg, syncer, stop>>

UnregisterDownloader(r) ==
    /\ rm[r] = "downloader"
    /\ dlPeers' = dlPeers \ {RmId(r)} /\ rm' = [rm EXCEPT ![r] = "set"]
    /\ UNCHANGED <<pc, target, rmId, peers, disc, wg, syncer, stop>>

\* Mutant of UnregisterSet: the session is disconnected but stays registered.
UnregisterNothing(r) ==
    /\ rm[r] = "set" /\ disc' = disc \cup {target[r]}
    /\ rm' = [rm EXCEPT ![r] = "idle"] /\ target' = [target EXCEPT ![r] = none]
    /\ pc' = IF r \in Session THEN [pc EXCEPT ![r] = "return"] ELSE pc
    /\ UNCHANGED <<rmId, peers, dlPeers, wg, syncer, stop>>

UnregisterSet(r) ==
    /\ rm[r] = "set"
    /\ peers' = [peers EXCEPT ![RmId(r)] = none]
    /\ disc' = disc \cup {target[r]}
    /\ rm' = [rm EXCEPT ![r] = "idle"] /\ target' = [target EXCEPT ![r] = none]
    /\ pc' = IF r \in Session THEN [pc EXCEPT ![r] = "return"] ELSE pc
    /\ UNCHANGED <<rmId, dlPeers, wg, syncer, stop>>

----------------------------------------------------------------------------
\* Stop: the syncer takes noMorePeers, quitSync closes, the set closes and its
\* peers disconnect, then the wait group.
Stop ==
    /\ \/ stop = "running" /\ stop' = "nomore" /\ syncer' = FALSE /\ UNCHANGED disc
       \/ stop = "nomore" /\ stop' = "close" /\ UNCHANGED <<syncer, disc>>
       \/ stop = "close" /\ stop' = "wait" /\ disc' = disc \cup ({peers[i] : i \in Ids} \ {none}) /\ UNCHANGED syncer
       \/ stop = "wait" /\ wg = 0 /\ stop' = "stopped" /\ UNCHANGED <<syncer, disc>>
    /\ UNCHANGED <<pc, rm, target, rmId, peers, dlPeers, wg>>

SessionStep(s) == \/ Announce(s) \/ AddToGroup(s) \/ Check(s) \/ Handshake(s) \/ Register(s)
                  \/ RegisterDownloader(s) \/ Return(s)
RemoverStep(r) == LookUp(r) \/ UnregisterDownloader(r) \/ UnregisterSet(r)

Next == \/ \E s \in Session : Connect(s) \/ SessionStep(s) \/ Fail(s)
        \/ \E r \in Remover : RemoverStep(r)
        \/ Stop

Spec == Init /\ [][Next]_vars

\* Goroutines run; a session whose connection was told to close fails its next read.
Fair == /\ \A s \in Session : WF_vars(SessionStep(s)) /\ WF_vars(s \in disc /\ Fail(s))
        /\ \A r \in Remover : WF_vars((r \in Session /\ RemoverStep(r)) \/ UnregisterDownloader(r) \/ UnregisterSet(r))
        /\ WF_vars(stop # "running" /\ Stop)

TypeOK == /\ DOMAIN peers = Ids /\ \A i \in Ids : peers[i] \in Session \cup {none}
          /\ dlPeers \subseteq Ids /\ disc \subseteq Session /\ wg \in 0..Cardinality(Session)
          /\ stop \in {"running", "nomore", "close", "wait", "stopped"}

\* The handler's peer set never holds a dead session: what is registered is still
\* running, and leaves the set before its Run callback returns, however many
\* goroutines remove it at once.
RegisteredIsLive ==
    \A i \in Ids : peers[i] # none => Id[peers[i]] = i /\ pc[peers[i]] \in {"dlregister", "loop", "remove"}

\* Stop waits for every session counted in the wait group, and it returns.
StopReturns == (stop # "running") ~> (stop = "stopped")

-----------------------------------------------------------------------------
(***************************************************************************)
(* eth/sync.go: syncTransactions and txsyncLoop, which relay the pending   *)
(* transactions to every new connection in packs, one send at a time.  The *)
(* loop's table is keyed by node id, so a reconnected peer shares the key  *)
(* of its old connection.                                                  *)
(***************************************************************************)

CONSTANTS Conn,       \* connections over time
          NodeId,     \* connection -> node id
          Tx,         \* pending transactions
          packSize    \* transactions that fill a pack (txsyncPackSize)

VARIABLES offered,    \* connection -> transactions given to syncTransactions
          txSent,       \* connection -> transactions sent successfully
          pending,    \* node id -> [conn, txs] or Nothing
          pack,       \* the pack being sent, or Nothing
          done,       \* the result in the done channel: "", "ok" or "err"
          failed,     \* node ids a send to which has failed
          quit

txVars == <<offered, txSent, pending, pack, done, failed, quit>>

Nothing == [conn |-> "none", txs |-> {}]
TxIds == {NodeId[c] : c \in Conn}

TxInit == /\ offered = [c \in Conn |-> {}] /\ txSent = [c \in Conn |-> {}]
          /\ pending = [i \in TxIds |-> Nothing] /\ pack = Nothing /\ done = "" /\ failed = {} /\ quit = FALSE

\* send: fill the pack, forget the sync when nothing of it remains.
Packs(s) == kSubset(Min({packSize, Cardinality(s.txs)}), s.txs)
send(s, table, p) ==
    /\ pack' = [conn |-> s.conn, txs |-> p]
    /\ pending' = [table EXCEPT ![NodeId[s.conn]] = IF s.txs = p THEN Nothing ELSE [s EXCEPT !.txs = @ \ p]]

\* A new connection offers the transactions pending in the pool, if there are any.
Offer(c, txs) ==
    /\ ~quit /\ offered[c] = {} /\ txs # {}
    /\ offered' = [offered EXCEPT ![c] = txs]
    /\ LET s == [conn |-> c, txs |-> txs]
           table == [pending EXCEPT ![NodeId[c]] = s]
       IN  IF pack = Nothing THEN \E p \in Packs(s) : send(s, table, p)
                             ELSE pending' = table /\ UNCHANGED pack
    /\ UNCHANGED <<txSent, done, failed, quit>>

\* The background goroutine: SendTransactions succeeds or fails.
SendTransactions(ok) ==
    /\ pack # Nothing /\ done = ""
    /\ done' = IF ok THEN "ok" ELSE "err"
    /\ txSent' = IF ok THEN [txSent EXCEPT ![pack.conn] = @ \cup pack.txs] ELSE txSent
    /\ failed' = IF ok THEN failed ELSE failed \cup {NodeId[pack.conn]}
    /\ UNCHANGED <<offered, pending, pack, quit>>

\* The loop takes the result, forgets a peer that failed, picks the next sync.
Done ==
    /\ ~quit /\ done # ""
    /\ done' = ""
    /\ LET table == IF done = "err" THEN [pending EXCEPT ![NodeId[pack.conn]] = Nothing] ELSE pending
           waiting == {i \in TxIds : table[i] # Nothing}
       IN  IF waiting = {} THEN pending' = table /\ pack' = Nothing
           ELSE \E i \in waiting : \E p \in Packs(table[i]) : send(table[i], table, p)
    /\ UNCHANGED <<offered, txSent, failed, quit>>

Quit == ~quit /\ quit' = TRUE /\ UNCHANGED <<offered, txSent, pending, pack, done, failed>>

TxNext == \/ \E c \in Conn, txs \in SUBSET Tx : Offer(c, txs)
          \/ \E ok \in BOOLEAN : SendTransactions(ok)
          \/ Done \/ Quit

TxSpec == TxInit /\ [][TxNext]_txVars

TxTypeOK == /\ \A c \in Conn : txSent[c] \subseteq Tx /\ offered[c] \subseteq Tx
            /\ done \in {"", "ok", "err"} /\ quit \in BOOLEAN /\ pack.txs \subseteq Tx

Superseded(c) == \E d \in Conn \ {c} : NodeId[d] = NodeId[c] /\ offered[d] # {}
Held(c) == UNION {pending[i].txs : i \in {j \in TxIds : pending[j].conn = c}}
InPack(c) == IF pack.conn = c THEN pack.txs ELSE {}

\* Every transaction offered to a connection is sent, waiting or in the pack being
\* sent, each in one place only, unless the id came back with a newer connection or
\* a send to it failed; a send in progress is never overwritten.
OffersConserved ==
    \A c \in Conn : ~Superseded(c) /\ NodeId[c] \notin failed =>
        /\ offered[c] = txSent[c] \cup Held(c) \cup InPack(c)
        /\ Held(c) \cap (txSent[c] \cup InPack(c)) = {}
        /\ Held(c) # {} => pack # Nothing

-----------------------------------------------------------------------------
(***************************************************************************)
(* What handleMsg does with the headers and bodies a peer sends             *)
(* (src/pkg/eth/handler.go): the fork check of a new connection with its    *)
(* timer, the look of the fetcher at what it may have asked for, and the    *)
(* rest for the downloader.  Requests are answered in order over one        *)
(* connection; each consumer asks at its own time.                          *)
(***************************************************************************)

CONSTANTS ReplySide,          \* which side of the fork the peer is on: "same", "other"
          PeerHasFork,   \* the peer's chain reaches the fork block
          OwnTd, PeerTd, \* total difficulty of the own fork header (0: none), of the peer's head
          MaxAsked       \* requests by fetcher and downloader (a bound)

VARIABLES forkDrop,      \* "unset", "armed", "off", "fired"
          wire,          \* the requests on their way, with who asked
          replyAsked,
          got,           \* replies each consumer received: "headers", "bodies", "empty"
          fetchWants,    \* outstanding requests of the fetcher
          session,       \* "open", "dropped"
          mistaken       \* an empty reply to somebody else was taken for the fork's
replyVars == <<forkDrop, wire, replyAsked, got, fetchWants, session, mistaken>>

ReplyInit ==
  /\ forkDrop = "unset" /\ wire = <<>>
  /\ replyAsked = 0 /\ got = {} /\ fetchWants = {} /\ session = "open" /\ mistaken = FALSE

\* The end of handle's preparations; the peer is registered for the others
\* already, and messages are read from here on.
StartCheck ==
  /\ forkDrop = "unset"
  /\ forkDrop' = "armed"
  /\ wire' = Append(wire, [by |-> "fork", kind |-> "headers"])
  /\ UNCHANGED <<replyAsked, got, fetchWants, session, mistaken>>

\* The fetcher asks for one header or one body, the downloader for more.
Request(by, kind) ==
  /\ session = "open" /\ replyAsked < MaxAsked
  /\ replyAsked' = replyAsked + 1
  /\ wire' = Append(wire, [by |-> by, kind |-> kind])
  /\ fetchWants' = IF by = "fetcher" THEN fetchWants \cup {kind} ELSE fetchWants
  /\ UNCHANGED <<forkDrop, got, session, mistaken>>

Read(by, kind) == /\ session = "open" /\ forkDrop # "unset" /\ wire # <<>>
                  /\ Head(wire) = [by |-> by, kind |-> kind]
                  /\ wire' = Tail(wire)

\* A peer that is ahead of our fork header must have an answer.
verifyDAO == ~(OwnTd > 0 /\ PeerTd >= OwnTd)

\* The reply to a request of the fetcher or the downloader is empty when the
\* peer has not what was asked for.
EmptyHeaders(by) ==
  /\ Read(by, "headers") /\ (by = "fork" => ~PeerHasFork)
  /\ IF forkDrop = "armed" /\ verifyDAO
     THEN /\ forkDrop' = "off" /\ UNCHANGED got
          /\ mistaken' = (by # "fork")
     ELSE /\ got' = got \cup {<<"downloader", by, "empty">>}
          /\ UNCHANGED <<forkDrop, mistaken>>
  /\ UNCHANGED <<replyAsked, fetchWants, session>>

ForkHeader ==
  /\ Read("fork", "headers") /\ PeerHasFork
  /\ IF forkDrop = "armed"
     THEN /\ forkDrop' = "off"
          /\ session' = IF ReplySide = "other" THEN "dropped" ELSE session
          /\ UNCHANGED <<got, fetchWants>>
     ELSE /\ got' = got \cup {<<"downloader", "fork", "headers">>}
          /\ UNCHANGED <<forkDrop, session, fetchWants>>
  /\ UNCHANGED <<replyAsked, mistaken>>

\* FilterHeaders and FilterBodies keep what the fetcher waits for.
OneHeader ==
  /\ Read("fetcher", "headers")
  /\ got' = got \cup {<<IF "headers" \in fetchWants THEN "fetcher" ELSE "downloader", "fetcher", "headers">>}
  /\ fetchWants' = fetchWants \ {"headers"}
  /\ UNCHANGED <<forkDrop, replyAsked, session, mistaken>>

ManyHeaders ==
  /\ Read("downloader", "headers")
  /\ got' = got \cup {<<"downloader", "downloader", "headers">>}
  /\ UNCHANGED <<forkDrop, replyAsked, fetchWants, session, mistaken>>

Bodies(by) ==
  /\ Read(by, "bodies")
  /\ \/ /\ by = "fetcher" /\ "bodies" \in fetchWants
        /\ got' = got \cup {<<"fetcher", by, "bodies">>}
        /\ fetchWants' = fetchWants \ {"bodies"}
     \/ /\ by = "downloader" \/ "bodies" \notin fetchWants
        /\ got' = got \cup {<<"downloader", by, "bodies">>}
        /\ UNCHANGED fetchWants
  /\ UNCHANGED <<forkDrop, replyAsked, session, mistaken>>

\* The timer of daoChallengeTimeout calls removePeer.
ForkTimer ==
  /\ forkDrop = "armed" /\ session = "open"
  /\ forkDrop' = "fired" /\ session' = "dropped"
  /\ UNCHANGED <<wire, replyAsked, got, fetchWants, mistaken>>

ReplyNext ==
  \/ \E by \in {"fetcher", "downloader"}, kind \in {"headers", "bodies"} : Request(by, kind)
  \/ \E by \in {"fork", "fetcher", "downloader"} : EmptyHeaders(by)
  \/ \E by \in {"fetcher", "downloader"} : Bodies(by)
  \/ StartCheck \/ ForkHeader \/ OneHeader \/ ManyHeaders \/ ForkTimer

ReplySpec == ReplyInit /\ [][ReplyNext]_replyVars

-----------------------------------------------------------------------------
ReplyTypeOK ==
  /\ forkDrop \in {"unset", "armed", "off", "fired"} /\ session \in {"open", "dropped"}
  /\ fetchWants \subseteq {"headers", "bodies"}

Answered == forkDrop # "unset" /\ ~\E k \in DOMAIN wire : wire[k].by = "fork"

\* A peer whose fork header is on the other side is not kept once it has
\* answered, unless the fork check was settled by an empty reply to another
\* request before; no other peer is dropped while its answer is on the way in
\* time; and every reply reaches the consumer that asked for it, the empty one
\* that settled the check apart.
ForkCheckExact ==
  /\ Answered /\ PeerHasFork /\ ReplySide = "other" => session = "dropped" \/ mistaken
  /\ session = "dropped" => \/ forkDrop = "fired"
                            \/ Answered /\ PeerHasFork /\ ReplySide = "other"
  /\ forkDrop = "fired" => ~Answered \/ (~PeerHasFork /\ ~verifyDAO)
  /\ \A g \in got : g[1] # g[2] => g[1] = "downloader" /\ (g[3] = "empty" \/ mistaken \/ g[2] = "fetcher")

-----------------------------------------------------------------------------
(***************************************************************************)
(* The requests a peer may make, as handleMsg answers them                  *)
(* (src/pkg/eth/handler.go): GetBlockHeadersMsg with its four ways of       *)
(* walking, one header per step, and GetBlockBodiesMsg, GetNodeDataMsg and  *)
(* GetReceiptsMsg.  Header n of the canonical chain is the number n, header *)
(* n of a side branch is Side + n; unsigned integers are modulo W.          *)
(***************************************************************************)

CONSTANTS Length, Fork, SideLength,   \* canonical head, the branch leaves it after Fork
          ServeSide,                       \* an offset past all numbers
          W,                          \* 2^64 in the code
          Amounts, Skips,             \* what queries ask for
          MaxFetch, softLimit,        \* limits of a reply: entries, and size
          Wanted,                     \* hashes a content request may name
          Stored, EmptyRoot           \* what the database has of each kind; blocks without receipts

None == -1
Header == (0 .. Length) \cup {ServeSide + n : n \in Fork + 1 .. SideLength}
Number(h) == IF h >= ServeSide THEN h - ServeSide ELSE h
Parent(h) == IF h = ServeSide + Fork + 1 THEN Fork ELSE h - 1
Size(h) == 1 + (h % 2)                 \* of a body, node or list of receipts

VARIABLES query,     \* kind, origin (hash or number), amount, skip, reverse
          origin,    \* the origin as the walk moves it
          headers,   \* the reply so far
          unknown,   \* the walk is over
          serveAsked, request, content,   \* a content request, its rest, the reply
          serveSent
serveVars == <<query, origin, headers, unknown, serveAsked, request, content, serveSent>>

Query(mode, o) ==
  [mode : {mode}, origin : o, amount : Amounts, skip : Skips, reverse : BOOLEAN]
Kinds == {"bodies", "nodes", "receipts"}
NoQuery == [mode |-> "hash", origin |-> 0, amount |-> 0, skip |-> 0, reverse |-> FALSE]
NoRequest == [kind |-> "none", hashes |-> <<>>]
Requests == [kind : Kinds, hashes : UNION {[1 .. k -> Wanted] : k \in 0 .. 3}]

ServeInit ==
  /\ \/ /\ query \in Query("hash", Header \cup {Length + 1}) \cup Query("number", 0 .. Length + 1)
        /\ serveAsked = NoRequest
     \/ query = NoQuery /\ serveAsked \in Requests
  /\ origin = query.origin /\ request = serveAsked.hashes
  /\ headers = <<>> /\ unknown = FALSE /\ content = <<>> /\ serveSent = FALSE

GetHeaderByHash(h) == IF h \in Header THEN h ELSE None
GetHeaderByNumber(n) == IF n \in 0 .. Length THEN n ELSE None

\* The header at most n steps above h towards the genesis block, None past it.
Above(h, n) ==
  IF n > Number(h) THEN None
  ELSE IF h < ServeSide THEN h - n
  ELSE IF Number(h) - n > Fork THEN h - n ELSE Number(h) - n

\* int(query.Skip) + 1 steps; none if that is 0.
HashReverse(h, skip) == Above(h, (skip + 1) % W)

\* GetBlockHashesFromHash of the canonical header next, at index skip
HashForward(h, next) ==
  IF next <= Number(h) \/ GetHeaderByNumber(next) = None THEN None
  ELSE IF Above(next, next - Number(h)) = h THEN next ELSE None

NumberReverse(n, step) == IF n >= step THEN n - step ELSE None

Advance(h) ==
  CASE query.mode = "hash" /\ query.reverse -> HashReverse(h, query.skip)
    [] query.mode = "hash" /\ ~query.reverse -> HashForward(h, (Number(h) + query.skip + 1) % W)
    [] query.mode = "number" /\ query.reverse -> NumberReverse(origin, (query.skip + 1) % W)
    [] OTHER -> (origin + query.skip + 1) % W

Looked == IF query.mode = "hash" THEN GetHeaderByHash(origin) ELSE GetHeaderByNumber(origin)

\* One round of the loop.
GetBlockHeaders ==
  /\ ~serveSent /\ ~unknown /\ serveAsked.kind = "none"
  /\ Len(headers) < query.amount /\ Len(headers) < MaxFetch
  /\ IF Looked = None THEN unknown' = TRUE /\ UNCHANGED <<headers, origin>>
     ELSE /\ headers' = Append(headers, Looked)
          /\ origin' = Advance(Looked)
          /\ unknown' = (Advance(Looked) = None)
  /\ UNCHANGED <<query, serveAsked, request, content, serveSent>>

SendBlockHeaders ==
  /\ ~serveSent /\ serveAsked.kind = "none"
  /\ unknown \/ Len(headers) >= query.amount \/ Len(headers) >= MaxFetch
  /\ serveSent' = TRUE
  /\ UNCHANGED <<query, origin, headers, unknown, serveAsked, request, content>>

-----------------------------------------------------------------------------
(* A request for content by hash.                                           *)

\* The empty receipts of a block whose header says so are sent as well.
Served(kind, h) == h \in Stored[kind] \/ (kind = "receipts" /\ h \in Header \cap EmptyRoot)

Total(s) == MapThenSumSet(LAMBDA i : Size(s[i]), DOMAIN s)
Room == Total(content) < softLimit /\ Len(content) < MaxFetch

\* One round of the loop.
GetContent ==
  /\ ~serveSent /\ request # <<>> /\ Room
  /\ content' = IF Served(serveAsked.kind, Head(request)) THEN Append(content, Head(request)) ELSE content
  /\ request' = Tail(request)
  /\ UNCHANGED <<query, origin, headers, unknown, serveAsked, serveSent>>

SendContent ==
  /\ ~serveSent /\ serveAsked.kind # "none" /\ (request = <<>> \/ ~Room)
  /\ serveSent' = TRUE
  /\ UNCHANGED <<query, origin, headers, unknown, serveAsked, request, content>>

ServeNext == GetBlockHeaders \/ SendBlockHeaders \/ GetContent \/ SendContent

ServeSpec == ServeInit /\ [][ServeNext]_serveVars

-----------------------------------------------------------------------------
ServeTypeOK ==
  /\ headers \in Seq(Header) /\ content \in Seq(Header)
  /\ {unknown, serveSent} \subseteq BOOLEAN

\* The k-th header of the reply (from 0) by the meaning of the query.
Meant(k) ==
  LET d == k * (query.skip + 1)
      o == IF query.mode = "hash" THEN GetHeaderByHash(query.origin) ELSE GetHeaderByNumber(query.origin)
  IN  CASE o = None -> None
        [] o # None /\ query.reverse -> Above(o, d)
        [] o # None /\ ~query.reverse ->
             IF GetHeaderByNumber(Number(o) + d) # None /\ (k = 0 \/ o < ServeSide)
             THEN (IF k = 0 THEN o ELSE Number(o) + d) ELSE None

\* As long as no step of the walk wraps around, the reply to a query is what
\* the query means: headers at the asked distance on one chain, none left out
\* before the limits, whichever of the four ways of walking is used.
HeadersAsAsked ==
  query.skip + 1 < W - Length - 1 =>
    /\ \A k \in DOMAIN headers : headers[k] = Meant(k - 1)
    /\ serveSent =>
              \/ Len(headers) \in {query.amount, MaxFetch}
              \/ Meant(Len(headers)) = None

\* A reply with content has what is there of the request, in its order, up to
\* the first entry that goes past a limit; empty receipts count as there.
ContentAsAsked ==
  serveSent /\ serveAsked.kind # "none" =>
         LET there == SelectSeq(serveAsked.hashes, LAMBDA h :
                        h \in Stored[serveAsked.kind] \/ (serveAsked.kind = "receipts" /\ h \in EmptyRoot))
         IN  /\ content = SubSeq(there, 1, Len(content))
             /\ \/ content = there
                \/ Len(content) = MaxFetch
                \/ /\ Total(content) >= softLimit
                   /\ Total(SubSeq(content, 1, Len(content) - 1)) < softLimit
=============================================================================
