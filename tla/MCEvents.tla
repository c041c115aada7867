----------------------------- MODULE MCEvents -----------------------------
(***************************************************************************)
(* Model checking of the parts whose goroutines hand values to each other  *)
(* and wait for each other: the abstract broadcast and the feed that       *)
(* implements it, the event mux, scoped and renewed subscriptions, the run *)
(* loop of a peer, the refresh loop of the discovery table and a session   *)
(* of the bloom-bit matcher.  A behaviour exercises one part, chosen by    *)
(* the initial state.                                                      *)
(***************************************************************************)
EXTENDS Broadcast

VARIABLES part,
          fSub, fInbox, sendCases, sendLock, send, buf, sends, fPresent, fGot,
          mutex, subm, stopped, mSub, post, close, mGot,
          fn, scope, track, call,
          loop, ended, attempt, try, inner, waitTime, caller,
          running, run, why, wire, writeStart, writeErr, readErr, protoErr, read, ping, proto,
          dLoop, waiting, done, refresh, netClosed, dCaller, closer,
          req, pend, del, out, resp, dist, disr, mx, quit, kill, failures,
          mine, yours

MCChanOf == [s \in Sub |-> IF s = "s4" THEN "d" ELSE "c"]

FeedSubs == {"s1", "s2", "s3"}
TheFeed == INSTANCE Feed WITH
    Channel <- {"c", "d"}, Sub <- FeedSubs, ChanOf <- [s \in FeedSubs |-> IF s = "s3" THEN "d" ELSE "c"],
    Sender <- {"p", "q"}, Buffer <- 1, MaxSend <- 2,
    sub <- fSub, inbox <- fInbox, present <- fPresent, got <- fGot

Two == {"a", "b"}
Subs == INSTANCE Subscriptions WITH
    Type <- {"x", "y"}, MuxSub <- Two, TypesOf <- [s \in Two |-> IF s = "a" THEN {"x", "y"} ELSE {"x"}],
    Poster <- {"p"}, TypeOf <- [p \in {"p"} |-> "x"], Unsubscriber <- {"u"}, MuxSubOf <- [c \in {"u"} |-> "a"],
    Stopper <- {"z"}, sub <- mSub, got <- mGot,
    ScopeSub <- Two, Caller <- {"u"}, ScopeSubOf <- [c \in {"u"} |-> "a"], Closer <- {"y", "z"},
    MaxTries <- 6

Versions == {<<1, 1>>, <<2, 1>>}
PeerLoop == INSTANCE Peer WITH
    Protocol <- Versions, Length <- [p \in Versions |-> 1], baseProtocolLength <- 2,
    ours <- Versions, theirs <- Versions

\* The matching alone, for every pair of protocol sets.
Named == {<<1, 1>>, <<1, 2>>, <<2, 1>>}
Match == INSTANCE Peer WITH
    Protocol <- Named, Length <- [p \in Named |-> IF p = <<1, 2>> THEN 3 ELSE 2], baseProtocolLength <- 3,
    ours <- {}, theirs <- {}

Refresh == INSTANCE DiscoverRefresh WITH Caller <- {"c1", "c2"}, Closer <- {"d1", "d2"}, loop <- dLoop, caller <- dCaller

Matcher == INSTANCE BloomMatcher WITH
    Run <- {"r"}, BitOf <- [r \in {"r"} |-> 1], Sections <- <<0, 1>>, Multiplexer <- {"m"},
    batch <- 1, Capacity <- 1, MaxFailures <- 1

br == vars
fe == <<fSub, fInbox, sendCases, sendLock, send, buf, sends, fPresent, fGot>>
mu == <<mutex, subm, stopped, mSub, post, close, mGot>>
sc == <<fn, scope, track, call>>
rs == <<loop, ended, attempt, try, inner, waitTime, caller>>
pr == <<running, run, why, wire, writeStart, writeErr, readErr, protoErr, read, ping, proto>>
dr == <<dLoop, waiting, done, refresh, netClosed, dCaller, closer>>
bm == <<req, pend, del, out, resp, dist, disr, mx, quit, kill, failures>>
ma == <<mine, yours>>
all == <<part, br, fe, mu, sc, rs, pr, dr, bm, ma>>
\* The variables of all other parts.
noBr == <<part, fe, mu, sc, rs, pr, dr, bm, ma>>
noFe == <<part, br, mu, sc, rs, pr, dr, bm, ma>>
noMu == <<part, br, fe, sc, rs, pr, dr, bm, ma>>
noSc == <<part, br, fe, mu, rs, pr, dr, bm, ma>>
noRs == <<part, br, fe, mu, sc, pr, dr, bm, ma>>
noPr == <<part, br, fe, mu, sc, rs, dr, bm, ma>>
noDr == <<part, br, fe, mu, sc, rs, pr, bm, ma>>
noBm == <<part, br, fe, mu, sc, rs, pr, dr, ma>>

EventsInit ==
    /\ part \in {"broadcast", "feed", "receiving", "mux", "scope", "resubscribe", "peer", "refresh", "matcher", "match"}
    /\ Init /\ TheFeed!Init /\ Subs!MuxInit /\ Subs!ScopeInit /\ Subs!ReInit /\ PeerLoop!Init /\ Refresh!Init /\ Matcher!Init
    /\ mine \in (IF part = "match" THEN SUBSET Named ELSE {{}}) /\ yours \in (IF part = "match" THEN SUBSET Named ELSE {{}})

EventsNext ==
    \/ part = "broadcast" /\ Next /\ UNCHANGED noBr
    \/ part = "receiving" /\ TheFeed!Next /\ UNCHANGED noFe
    \/ part = "feed" /\ TheFeed!Next /\ sends' <= 1 /\ UNCHANGED noFe
    \/ part = "mux" /\ Subs!MuxNext /\ UNCHANGED noMu
    \/ part = "scope" /\ Subs!ScopeNext /\ UNCHANGED noSc
    \/ part = "resubscribe" /\ Subs!ReNext /\ UNCHANGED noRs
    \/ part = "peer" /\ PeerLoop!Next /\ UNCHANGED noPr
    \/ part = "refresh" /\ Refresh!Next /\ UNCHANGED noDr
    \/ part = "matcher" /\ Matcher!Next /\ UNCHANGED noBm

-----------------------------------------------------------------------------
(* Fairness: the goroutines of a part keep running.  A behaviour has one   *)
(* part, so goroutine i of every part shares one fairness condition.  In   *)
(* "feed" subscribers need not receive and there is one Send, in           *)
(* "receiving" they do;                                                    *)
(* ResubscribeFuncs and remote ends need not answer.                       *)
At(p, A, others) == part = p /\ A /\ UNCHANGED others
Goroutine1 == \/ At("mux", Subs!PostStep("p"), noMu) \/ At("scope", Subs!Producer("a"), noSc) \/ At("resubscribe", Subs!Unsub \/ Subs!Returned, noRs)
              \/ At("peer", PeerLoop!Loop, noPr) \/ At("refresh", Refresh!doRefresh, noDr) \/ At("matcher", Matcher!RunStep("r"), noBm)
              \/ At("receiving", TheFeed!Receive("c"), noFe)
Goroutine2 == \/ At("mux", Subs!CloseStep("u"), noMu) \/ At("scope", Subs!Producer("b"), noSc) \/ At("peer", PeerLoop!Reader, noPr)
              \/ At("refresh", Refresh!RefreshDone, noDr) \/ At("matcher", Matcher!DeliveryStep("r"), noBm)
              \/ At("receiving", TheFeed!Receive("d"), noFe)
Goroutine3 == \/ At("mux", Subs!CloseStep("z"), noMu) \/ At("peer", PeerLoop!PingReport \/ PeerLoop!PingClosed, noPr)
              \/ At("refresh", Refresh!EndLoop, noDr) \/ At("matcher", Matcher!DistributorStep, noBm)
Goroutine4 == \/ At("peer", PeerLoop!Goroutine(<<1, 1>>), noPr) \/ At("refresh", Refresh!AskClosed("c1"), noDr) \/ At("matcher", Matcher!Kill, noBm)
Goroutine5 == \/ At("peer", PeerLoop!Calls(<<1, 1>>), noPr) \/ At("refresh", Refresh!AskClosed("c2"), noDr) \/ At("matcher", Matcher!MuxStep("m"), noBm)
Goroutine6 == \/ At("peer", PeerLoop!Goroutine(<<2, 1>>), noPr) \/ At("refresh", Refresh!CloseReturns("d1"), noDr)
Goroutine7 == \/ At("peer", PeerLoop!Calls(<<2, 1>>), noPr) \/ At("refresh", Refresh!CloseReturns("d2"), noDr)
\* Steps that compete for a lock or in a select: whoever tries often enough gets it.
Feeding(A) == part \in {"feed", "receiving"} /\ A /\ UNCHANGED noFe
Contender1 == Feeding(TheFeed!SendStep("p")) \/ At("scope", Subs!Returning("u"), noSc) \/ At("refresh", Refresh!RefreshReq("c1"), noDr)
Contender2 == Feeding(TheFeed!SendStep("q")) \/ At("scope", Subs!Returning("y"), noSc) \/ At("refresh", Refresh!RefreshReq("c2"), noDr)
Contender3 == Feeding(TheFeed!RemoveStep("s1")) \/ At("scope", Subs!Returning("z"), noSc) \/ At("refresh", Refresh!CloseReq("d1"), noDr)
Contender4 == Feeding(TheFeed!RemoveStep("s2")) \/ At("refresh", Refresh!CloseReq("d2"), noDr)
Contender5 == Feeding(TheFeed!RemoveStep("s3"))
EventsSpec ==
    /\ EventsInit /\ [][EventsNext]_all
    /\ WF_all(Goroutine1) /\ WF_all(Goroutine2) /\ WF_all(Goroutine3) /\ WF_all(Goroutine4)
    /\ WF_all(Goroutine5) /\ WF_all(Goroutine6) /\ WF_all(Goroutine7)
    /\ SF_all(Contender1) /\ SF_all(Contender2) /\ SF_all(Contender3) /\ SF_all(Contender4) /\ SF_all(Contender5)

-----------------------------------------------------------------------------
Types == /\ TypeOK /\ TheFeed!TypeOK /\ Subs!MuxTypeOK /\ Subs!ScopeTypeOK /\ Subs!ReTypeOK
         /\ PeerLoop!TypeOK /\ Refresh!TypeOK /\ Matcher!TypeOK

\* Removal from a feed finds its entry (feed.go: remove); Post reaches exactly the
\* open receivers of its snapshot (event.go: Post, deliver); who cancels a subscription
\* waits for its producer and a closed scope tracks nothing; a renewed subscription is
\* held once and leaves only what Unsubscribe overtook (subscription.go); one protocol
\* of a peer writes at a time (peer.go: run, protoRW), and both ends
\* assign the same codes to the same protocols (matchProtocols); one refresh runs at a time
\* (table.go: refreshLoop); and a matcher session loses no section and counts its
\* retrievers exactly (matcher.go: distributor).
HandoversExact == /\ Types /\ RemovalFindsEntry /\ Subs!PostReachesAll /\ Subs!ScopeExact /\ Subs!ResubscribeExact
                  /\ PeerLoop!OneWriter /\ PeerLoop!RemoteOnlyByMessage /\ Refresh!OneRefresh /\ Matcher!MatcherExact
                  /\ Match!MatchAgrees(mine, yours)

\* The feed implements the broadcast (feed.go).
FeedBroadcasts == TheFeed!FeedBroadcasts

\* What waits comes back: Unsubscribe of a feed returns though nobody receives, and
\* Send returns if every subscriber receives (feed.go); Unsubscribe and Stop of the mux
\* and Close of a scope return (event.go, subscription.go); Unsubscribe of a renewed
\* subscription returns unless the subscription ended before; a closing peer returns
\* from run (peer.go); who waits for a refresh of the table, or for its Close, is
\* released (table.go); a matcher session delivers every section or ends, with its
\* retrievers (matcher.go).  And what has returned is over: nothing is delivered to a
\* subscription of the mux after Unsubscribe or Stop, although a Post may still hold
\* its snapshot (event.go: closewait).
EverythingReturns ==
  /\ [][Subs!SilentAfterClose]_mu
  /\ <>[](
    /\ TheFeed!NobodyRemoving /\ (part = "receiving" => TheFeed!NobodySending)
    /\ Subs!NobodyCloses /\ Subs!ScopeNobodyWaits /\ Subs!ReNobodyWaits /\ PeerLoop!NobodyWaits /\ Refresh!NobodyWaits
    /\ part = "matcher" => Matcher!Over)
=============================================================================
