----------------------------- MODULE MCService -----------------------------
(***************************************************************************)
(* Model checking of what serves the users of a node: log searches and log *)
(* filters with the chain indexer behind them, the RPC client and server,  *)
(* key store, account cache and account manager, and the node that starts  *)
(* and stops all of it.  A behaviour exercises one part, chosen by the     *)
(* initial state.                                                          *)
(***************************************************************************)
EXTENDS Integers, Sequences, FiniteSets

VARIABLES part,
          chain, unposted, events, listening, prev, ix, iLoop, missed, left,
          head, bGen, stored, query, begin, end, last, phase, stages, matches, logs, err,
          posted, chan, index, fLoop, fSub, created, filters, cons, unsub, fired, tl, got, due,
          disp, sendLock, sendDone, respWait, op, writeConn, clientOpen, made, asked, wire, read, notes, cSub, fwd,
          closer,
          run, stop, codecs, loop, serverOpen, gone, task, subs, sent, out,
          file, temp, entries, unlocked, keyCall, lock, expirer, signed,
          dir, mod, now, all, byAddr, fileC, watch, throttle, scan, cacheCall, lost,
          accounts, changes, wallets, refresh, updating, updater, mSubs, updates, am, mMissed,
          server, p2p, dirLock, service, enabled, handler, starts, ipc, accept, stopped, gen, wait, late

\* Two indexers, the second fed by the first, on a chain that is reorganised once
\* while a section fails once and the node restarts once.
Indexer == INSTANCE ChainIndexer WITH
    Indexers <- 2, sectionSize <- 2, confirmsReq <- 1, Label <- {"a", "b"}, MaxLength <- 5,
    MaxReorgs <- 1, MaxFailures <- 1, MaxRestarts <- 1, loop <- iLoop

\* Nine blocks in sections of four, five of them mined when the search begins.
L(a, t, i) == [address |-> a, topics |-> t, id |-> i]
Blocks == << <<L("a", <<"x">>, 1)>>, <<>>, <<L("b", <<"x", "y">>, 2), L("a", <<"y", "x">>, 3)>>, <<L("b", <<>>, 4)>>,
             <<>>, <<L("a", <<"x", "y">>, 5)>>, <<L("b", <<"y">>, 6), L("a", <<"x", "x">>, 7)>>,
             <<L("a", <<"x">>, 8)>>, <<L("b", <<"y", "x">>, 9)>> >>
Bits == [a |-> {0, 1}, b |-> {1, 2}, x |-> {2, 3}, y |-> {0, 3}]
Searches == [begin : {1, 5, -1}, end : {2, 7, -1}, addresses : {{}, {"a"}}, topics : {<<{"x"}>>, <<{}, {"y"}>>}]
Wanted == [f \in {"a", "b", "c", "d", "e"} |->
             CASE f = "a" -> [mode |-> "poll", kind |-> "logs", from |-> 1, to |-> -2]
               [] f = "b" -> [mode |-> "poll", kind |-> "tx", from |-> 0, to |-> 0]
               [] f = "c" -> [mode |-> "push", kind |-> "logs", from |-> 2, to |-> -1]
               [] f = "d" -> [mode |-> "push", kind |-> "logs", from |-> -1, to |-> 1]
               [] f = "e" -> [mode |-> "push", kind |-> "blocks", from |-> 0, to |-> 0]]
\* A polled filter and a pushed one on logs; then the other kinds of events.
Logs == INSTANCE Filters WITH
    Chain <- Blocks, BloomBits <- Bits, Queries <- Searches, FirstHead <- 5, sectionSize <- 4, Byte <- 2, Bit <- 0 .. 3,
    Filter <- {"a", "c"}, Config <- Wanted, Kind <- {"logs", "pending"}, MaxEvents <- 2,
    gen <- bGen, loop <- fLoop, sub <- fSub
Heads == INSTANCE Filters WITH
    Chain <- Blocks, BloomBits <- Bits, Queries <- Searches, FirstHead <- 5, sectionSize <- 4, Byte <- 2, Bit <- 0 .. 3,
    Filter <- {"b", "d", "e"}, Config <- Wanted, Kind <- {"tx", "chain", "removed"}, MaxEvents <- 1,
    gen <- bGen, loop <- fLoop, sub <- fSub

IdsOf == [o \in {"batch", "call", "subscribe", "unsub"} |-> IF o = "batch" THEN {"x", "y"} ELSE {o}]
Rq(id, method, name, args) ==
  [id |-> id, idok |-> TRUE, method |-> method, service |-> TRUE, name |-> name, args |-> args]
One(r) == [batch |-> FALSE, reqs |-> <<r>>]
\* A subscriber, and a server that keeps its connection; then plain calls, and a
\* server of single requests.
Lasting == INSTANCE RPC WITH
    Call <- {"subscribe"}, Ids <- IdsOf, MaxConns <- 2, ClientMaxNotes <- 2, maxClientSubscriptionBuffer <- 1,
    ServerConn <- {"ws"}, Single <- {}, Callbacks <- [n \in {"get"} |-> <<"val", "ptr">>],
    Subscriptions <- [n \in {"heads"} |-> <<>>], ServerMaxNotes <- 2,
    Inbox <- [c \in {"ws"} |->
               <<[batch |-> TRUE, reqs |-> <<Rq("s", "subscribe", "heads", <<"heads">>), Rq("a", "plain", "x", <<>>)>>],
                 One(Rq("u", "unsubscribe", "", <<"s">>)), One(Rq("b", "call", "get", <<"v", "bad">>))>>],
    lock <- sendLock, sub <- cSub
Single == INSTANCE RPC WITH
    Call <- {"batch", "call"}, Ids <- IdsOf, MaxConns <- 2, ClientMaxNotes <- 0, maxClientSubscriptionBuffer <- 1,
    ServerConn <- {"http"}, Single <- {"http"}, Callbacks <- [n \in {"get"} |-> <<"val", "ptr">>],
    Subscriptions <- [n \in {"heads"} |-> <<>>], ServerMaxNotes <- 1,
    Inbox <- [c \in {"http"} |-> <<One(Rq("c", "call", "get", <<"v">>))>>],
    lock <- sendLock, sub <- cSub

\* One key file that changes twice; two files of one address.
Keys == INSTANCE Host WITH
    Caller <- {"c", "d"}, Pass <- {"p", "q"}, MaxEntries <- 2,
    File <- {"f"}, CacheAddr <- [f \in {"f"} |-> "a"], Scanner <- {"watch", "x"}, CacheMaxChanges <- 2,
    URL <- {1, 2}, ManagerAddr <- {"a", "b"}, Refresher <- {"updater", "am", "x"}, Capacity <- 2,
    ManagerMaxChanges <- 2, Service <- {"eth", "poc"}, Waiter <- {"w"}, MaxStarts <- 3,
    subs <- mSubs, missed <- mMissed
Twins == INSTANCE Host WITH
    Caller <- {"c", "d"}, Pass <- {"p", "q"}, MaxEntries <- 2,
    File <- {"f", "g"}, CacheAddr <- [f \in {"f", "g"} |-> "a"], Scanner <- {"watch", "x"}, CacheMaxChanges <- 1,
    URL <- {1, 2}, ManagerAddr <- {"a", "b"}, Refresher <- {"updater", "am", "x"}, Capacity <- 2,
    ManagerMaxChanges <- 2, Service <- {"eth", "poc"}, Waiter <- {"w"}, MaxStarts <- 3,
    subs <- mSubs, missed <- mMissed

ci == <<chain, unposted, events, listening, prev, ix, iLoop, missed, left>>
bs == <<head, bGen, stored, query, begin, end, last, phase, stages, matches, logs, err>>
fs == <<posted, chan, index, fLoop, fSub, created, filters, cons, unsub, fired, tl, got, due>>
rc == <<disp, sendLock, sendDone, respWait, op, writeConn, clientOpen, made, asked, wire, read, notes, cSub, fwd,
        closer>>
rv == <<run, stop, codecs, loop, serverOpen, gone, task, subs, sent, out>>
ks == <<file, temp, entries, unlocked, keyCall, lock, expirer, signed>>
ac == <<dir, mod, now, all, byAddr, fileC, watch, throttle, scan, cacheCall, lost>>
mg == <<accounts, changes, wallets, refresh, updating, updater, mSubs, updates, am, mMissed>>
nd == <<server, p2p, dirLock, service, enabled, handler, starts, ipc, accept, stopped, gen, wait, late>>
vars == <<part, ci, bs, fs, rc, rv, ks, ac, mg, nd>>

Init == /\ part \in {"indexer", "search", "logs", "heads", "subscriber", "callers", "socket", "web",
                     "keys", "files", "twins", "wallets", "node"}
        /\ Indexer!Init
        /\ Logs!SearchInit /\ (part # "search" => query = [begin |-> 1, end |-> 2, addresses |-> {}, topics |-> <<{"x"}>>])
        /\ IF part = "heads" THEN Heads!Init ELSE Logs!Init
        /\ IF part = "callers" THEN Single!ClientInit ELSE Lasting!ClientInit
        /\ IF part = "web" THEN Single!ServerInit ELSE Lasting!ServerInit
        /\ Keys!KeyInit /\ (part # "keys" => file.pass = "p")
        /\ IF part = "twins" THEN Twins!CacheInit ELSE Keys!CacheInit
        /\ part \notin {"files", "twins"} => dir = [f \in {"f"} |-> "none"]
        /\ Keys!ManagerInit /\ (part # "wallets" => accounts = [i \in {1, 2} |-> "none"])
        /\ Keys!NodeInit /\ (part # "node" => enabled = {"inproc", "ipc"})

Next ==
    \/ part = "indexer" /\ Indexer!Next /\ UNCHANGED <<part, bs, fs, rc, rv, ks, ac, mg, nd>>
    \/ part = "search" /\ Logs!SearchNext /\ UNCHANGED <<part, ci, fs, rc, rv, ks, ac, mg, nd>>
    \/ part = "logs" /\ Logs!Next /\ UNCHANGED <<part, ci, bs, rc, rv, ks, ac, mg, nd>>
    \/ part = "heads" /\ Heads!Next /\ UNCHANGED <<part, ci, bs, rc, rv, ks, ac, mg, nd>>
    \/ part = "subscriber" /\ Lasting!ClientNext /\ UNCHANGED <<part, ci, bs, fs, rv, ks, ac, mg, nd>>
    \/ part = "callers" /\ Single!ClientNext /\ UNCHANGED <<part, ci, bs, fs, rv, ks, ac, mg, nd>>
    \/ part = "socket" /\ Lasting!ServerNext /\ UNCHANGED <<part, ci, bs, fs, rc, ks, ac, mg, nd>>
    \/ part = "web" /\ Single!ServerNext /\ UNCHANGED <<part, ci, bs, fs, rc, ks, ac, mg, nd>>
    \/ part = "keys" /\ Keys!KeyNext /\ UNCHANGED <<part, ci, bs, fs, rc, rv, ac, mg, nd>>
    \/ part = "files" /\ Keys!CacheNext /\ UNCHANGED <<part, ci, bs, fs, rc, rv, ks, mg, nd>>
    \/ part = "twins" /\ Twins!CacheNext /\ UNCHANGED <<part, ci, bs, fs, rc, rv, ks, mg, nd>>
    \/ part = "wallets" /\ Keys!ManagerNext /\ UNCHANGED <<part, ci, bs, fs, rc, rv, ks, ac, nd>>
    \/ part = "node" /\ Keys!NodeNext /\ UNCHANGED <<part, ci, bs, fs, rc, rv, ks, ac, mg>>

Spec == Init /\ [][Next]_vars

-----------------------------------------------------------------------------
Types == /\ Indexer!TypeOK /\ Logs!SearchTypeOK
         /\ IF part = "heads" THEN Heads!TypeOK ELSE Logs!TypeOK
         /\ IF part = "callers" THEN Single!ClientTypeOK ELSE Lasting!ClientTypeOK
         /\ IF part = "web" THEN Single!ServerTypeOK ELSE Lasting!ServerTypeOK
         /\ Keys!KeyTypeOK
         /\ IF part = "twins" THEN Twins!CacheTypeOK ELSE Keys!CacheTypeOK
         /\ Keys!ManagerTypeOK /\ Keys!NodeTypeOK

\* What a user of the node is told (chain_indexer.go, filter.go, filter_system.go, rpc):
\* a section counts as done only with everything below it done, and a stored head is the
\* one that was processed; a search returns the logs of its range, each once; a filter
\* gets the events it subscribed to, once, in the order posted; a response goes to the
\* request with its id, and the server answers every request it read once.
AnswersExact == /\ Types
                /\ Indexer!IndexExact /\ Logs!SearchExact
                /\ IF part = "heads" THEN Heads!FiltersExact ELSE Logs!FiltersExact
                /\ IF part = "callers" THEN Single!ClientExact ELSE Lasting!ClientExact
                /\ IF part = "web" THEN Single!ServerAnswers ELSE Lasting!ServerAnswers

\* What the node keeps (keystore.go, account_cache.go, manager.go, node.go): a key is
\* unlocked only as long as the last unlock allows and the key file is always whole; a
\* cache that is quiet shows the directory; the manager mirrors the wallets of its
\* backend; when the node runs all its services and end points do, and when a start
\* fails or it is stopped nothing is left behind but what NodeExact names.
HostExact == /\ Keys!UnlocksExact
             /\ IF part = "twins" THEN Twins!CacheFollows ELSE Keys!CacheFollows
             /\ Keys!WalletsMirrored /\ Keys!NodeExact
=============================================================================
