---------------------------- MODULE Subscriptions -----------------------------
(*****************************************************************************)
(* Package event beside Feed: the event mux, the subscriptions of            *)
(* NewSubscription in a SubscriptionScope, and resubscribing.                *)
(*****************************************************************************)
EXTENDS Integers, Sequences, FiniteSets, SequencesExt

-----------------------------------------------------------------------------
(***************************************************************************)
(* event.TypeMux (event/event.go).  Post takes a snapshot of the receivers *)
(* of a type and delivers to one after the other; Unsubscribe and Stop     *)
(* close a receiver while deliveries to it may be under way.               *)
(*                                                                         *)
(* An event is stamped before the snapshot and a subscription before it is *)
(* registered: a stamp is the set of subscriptions created before it.  A   *)
(* waiting writer of an RWMutex keeps new readers out.                     *)
(***************************************************************************)

CONSTANTS Type, MuxSub, TypesOf,   \* [Sub -> set of types]
          Poster, TypeOf,       \* [Poster -> type of the event it posts]
          Unsubscriber, MuxSubOf,  \* [Unsubscriber -> subscription]
          Stopper

VARIABLES mutex,    \* the Stopper that holds mux.mutex, or "free"
          subm,     \* [Type -> sequence of subscriptions]
          stopped,
          sub,      \* [Sub -> the subscription object]
          post,     \* [Poster -> its call of Post]
          close,    \* [Unsubscriber \union Stopper -> its call]
          got       \* [Poster -> subscriptions that received the event]
muxVars == <<mutex, subm, stopped, sub, post, close, got>>

NoSub == [created |-> FALSE, registered |-> FALSE, closing |-> FALSE, closed |-> FALSE, closeMu |-> "free",
          writer |-> FALSE, readers |-> {}, open |-> TRUE]
MuxInit ==
    /\ mutex = "free" /\ subm = [t \in Type |-> <<>>] /\ stopped = FALSE
    /\ sub = [s \in MuxSub |-> NoSub]
    /\ post = [p \in Poster |-> [pc |-> "idle", stamp |-> {}, subs |-> <<>>, all |-> {}]]
    /\ close = [c \in Unsubscriber \union Stopper |-> [pc |-> "idle", left |-> <<>>, all |-> {}]]
    /\ got = [p \in Poster |-> {}]

\* newsub, and the registration under the mutex.
newsub(s) ==
    /\ ~sub[s].created /\ sub' = [sub EXCEPT ![s].created = TRUE]
    /\ UNCHANGED <<mutex, subm, stopped, post, close, got>>
Subscribe(s) ==
    /\ sub[s].created /\ ~sub[s].registered /\ mutex = "free"
    /\ sub' = [sub EXCEPT ![s].registered = TRUE, ![s].closed = stopped, ![s].open = ~stopped]
    /\ subm' = IF stopped THEN subm ELSE [t \in Type |-> IF t \in TypesOf[s] THEN Append(subm[t], s) ELSE subm[t]]
    /\ UNCHANGED <<mutex, stopped, post, close, got>>

-----------------------------------------------------------------------------
(* Post and deliver.                                                       *)
Stamp(p) ==
    /\ post[p].pc = "idle"
    /\ post' = [post EXCEPT ![p].pc = "lock", ![p].stamp = {s \in MuxSub : sub[s].created}]
    /\ UNCHANGED <<mutex, subm, stopped, sub, close, got>>
Snapshot(p) ==
    /\ post[p].pc = "lock" /\ mutex = "free"
    /\ post' = [post EXCEPT ![p].pc = IF stopped THEN "returned" ELSE "next",
                            ![p].subs = IF stopped THEN <<>> ELSE subm[TypeOf[p]],
                            ![p].all = IF stopped THEN {} ELSE ToSet(subm[TypeOf[p]])]
    /\ UNCHANGED <<mutex, subm, stopped, sub, close, got>>

Stale(p, s) == s \notin post[p].stamp
Deliver(p) ==
    /\ post[p].pc = "next" /\ post[p].subs # <<>>
    /\ LET s == Head(post[p].subs) IN
       IF Stale(p, s) THEN post' = [post EXCEPT ![p].subs = Tail(@)] /\ UNCHANGED sub
       ELSE /\ ~sub[s].writer
            /\ sub' = [sub EXCEPT ![s].readers = @ \union {p}] /\ post' = [post EXCEPT ![p].pc = "select"]
    /\ UNCHANGED <<mutex, subm, stopped, close, got>>
\* The select is over: the read lock is released.
MuxFinish(p) ==
    /\ post' = [post EXCEPT ![p].pc = "next", ![p].subs = Tail(@)]
    /\ sub' = [sub EXCEPT ![Head(post[p].subs)].readers = @ \ {p}]
\* The receiver takes the event; or the subscription is closing.
Receive(p) ==
    /\ post[p].pc = "select" /\ sub[Head(post[p].subs)].open
    /\ got' = [got EXCEPT ![p] = @ \union {Head(post[p].subs)}] /\ MuxFinish(p)
    /\ UNCHANGED <<mutex, subm, stopped, close>>
Closing(p) ==
    /\ post[p].pc = "select" /\ sub[Head(post[p].subs)].closing /\ MuxFinish(p)
    /\ UNCHANGED <<mutex, subm, stopped, close, got>>
PostReturns(p) ==
    /\ post[p].pc = "next" /\ post[p].subs = <<>> /\ post' = [post EXCEPT ![p].pc = "returned"]
    /\ UNCHANGED <<mutex, subm, stopped, sub, close, got>>

-----------------------------------------------------------------------------
(* MuxUnsubscribe and Stop: del under the mutex, then closewait; Stop keeps   *)
(* the mutex over all its calls of closewait.                              *)
MuxUnsubscribe(c) ==
    /\ close[c].pc = "idle" /\ mutex = "free" /\ sub[MuxSubOf[c]].registered
    /\ subm' = [t \in Type |-> SelectSeq(subm[t], LAMBDA s : s # MuxSubOf[c])]
    /\ close' = [close EXCEPT ![c] = [pc |-> "closewait", left |-> <<MuxSubOf[c]>>, all |-> {MuxSubOf[c]}]]
    /\ UNCHANGED <<mutex, stopped, sub, post, got>>
Stop(c) ==
    /\ close[c].pc = "idle" /\ mutex = "free" /\ mutex' = c
    /\ \E order \in SetToSeqs(Type) : LET left == FlattenSeq([i \in DOMAIN order |-> subm[order[i]]]) IN
          close' = [close EXCEPT ![c] = [pc |-> "closewait", left |-> left, all |-> ToSet(left)]]
    /\ UNCHANGED <<subm, stopped, sub, post, got>>

closewait(c) ==
    /\ close[c].pc = "closewait" /\ close[c].left # <<>>
    /\ LET s == Head(close[c].left) IN
       /\ sub[s].closeMu = "free"
       /\ IF sub[s].closed THEN close' = [close EXCEPT ![c].left = Tail(@)] /\ UNCHANGED sub
          ELSE /\ sub' = [sub EXCEPT ![s].closeMu = c, ![s].closing = TRUE, ![s].closed = TRUE, ![s].writer = TRUE]
               /\ close' = [close EXCEPT ![c].pc = "postMu"]
    /\ UNCHANGED <<mutex, subm, stopped, post, got>>
closePost(c) ==
    /\ close[c].pc = "postMu"
    /\ LET s == Head(close[c].left) IN
       /\ sub[s].readers = {}
       /\ sub' = [sub EXCEPT ![s].open = FALSE, ![s].writer = FALSE, ![s].closeMu = "free"]
       /\ close' = [close EXCEPT ![c].pc = "closewait", ![c].left = Tail(@)]
    /\ UNCHANGED <<mutex, subm, stopped, post, got>>
Closed(c) ==
    /\ close[c].pc = "closewait" /\ close[c].left = <<>> /\ close' = [close EXCEPT ![c].pc = "returned"]
    /\ IF c \in Stopper THEN mutex' = "free" /\ subm' = [t \in Type |-> <<>>] /\ stopped' = TRUE
       ELSE UNCHANGED <<mutex, subm, stopped>>
    /\ UNCHANGED <<sub, post, got>>

PostStep(p) == Snapshot(p) \/ Deliver(p) \/ Closing(p) \/ PostReturns(p)
CloseStep(c) == closewait(c) \/ closePost(c) \/ Closed(c)
MuxNext == \/ \E s \in MuxSub : newsub(s) \/ Subscribe(s)
           \/ \E p \in Poster : Stamp(p) \/ PostStep(p) \/ Receive(p)
           \/ \E c \in Unsubscriber : MuxUnsubscribe(c)
           \/ \E c \in Stopper : Stop(c)
           \/ \E c \in Unsubscriber \union Stopper : CloseStep(c)
MuxSpec == MuxInit /\ [][MuxNext]_muxVars
\* Posting and closing goroutines go on; receivers need not receive.
MuxFairness == /\ \A p \in Poster : WF_muxVars(PostStep(p))
               /\ \A c \in Unsubscriber \union Stopper : WF_muxVars(CloseStep(c))
MuxLSpec == MuxSpec /\ MuxFairness

-----------------------------------------------------------------------------
MuxTypeOK ==
    /\ mutex \in Stopper \union {"free"} /\ stopped \in BOOLEAN
    /\ \A s \in MuxSub : sub[s].readers \subseteq Poster /\ sub[s].closeMu \in Unsubscriber \union Stopper \union {"free"}
    /\ \A t \in Type : ToSet(subm[t]) \subseteq MuxSub

\* An event that has been posted reached every receiver of its snapshot that
\* was created before it and has not been closed, and no other.
PostReachesAll == \A p \in Poster :
    /\ got[p] \subseteq post[p].all \intersect post[p].stamp
    /\ post[p].pc = "returned" =>
          \A s \in post[p].all \intersect post[p].stamp : s \in got[p] \/ sub[s].closing

\* Once MuxUnsubscribe or Stop has returned, nothing is delivered to the
\* subscriptions it closed, although a Post may still hold its snapshot.  (A
\* subscription that a concurrent MuxUnsubscribe has removed from the map is not
\* among the ones Stop waits for.)
SilentAfterClose ==
    \A c \in Unsubscriber \union Stopper : close[c].pc = "returned" =>
        \A s \in close[c].all : \A p \in Poster : (s \in got'[p]) => s \in got[p]

\* No call of MuxUnsubscribe or Stop is under way.
NobodyCloses == \A c \in Unsubscriber \union Stopper : close[c].pc \in {"idle", "returned"}
\* MuxUnsubscribe and Stop return although no receiver receives.
CloseReturns == <>[]NobodyCloses

-----------------------------------------------------------------------------
(***************************************************************************)
(* The subscriptions of NewSubscription, which run a producer in a         *)
(* goroutine, and a SubscriptionScope that tracks them                     *)
(* (event/subscription.go).  Producers fail or end by themselves, wrappers *)
(* are unsubscribed and the scope is closed, all concurrently.             *)
(***************************************************************************)

CONSTANTS ScopeSub,
          Caller, ScopeSubOf,   \* callers of ScopeUnsubscribe on the wrapper of ScopeSubOf[c]
          Closer           \* callers of Close

VARIABLES fn,       \* [Sub -> the funcSub and its producer]
          scope,    \* [mu, subs, closed]
          track,    \* [Sub -> "new", "tracked" or "refused"]
          call      \* [Caller \union Closer -> its call]
scopeVars == <<fn, scope, track, call>>

Thread == Caller \union Closer
ScopeInit ==
    /\ fn = [s \in ScopeSub |-> [producer |-> "running", result |-> "nil", unsub |-> FALSE, unsubscribed |-> FALSE, err |-> "empty"]]
    /\ scope = [mu |-> "free", subs |-> {}, closed |-> FALSE]
    /\ track = [s \in ScopeSub |-> "new"]
    /\ call = [c \in Thread |-> [pc |-> "idle", sub |-> "none", todo |-> {}, first |-> FALSE]]

-----------------------------------------------------------------------------
(* The goroutine of NewSubscription: the producer ends by itself or since  *)
(* unsub is closed; its error is sent only if nobody has unsubscribed.     *)
ProducerReturns(s) ==
    /\ fn[s].producer = "running"
    /\ \E r \in {"nil", "error"} : fn' = [fn EXCEPT ![s].producer = "returned", ![s].result = r]
    /\ UNCHANGED <<scope, track, call>>
ProducerObeys(s) == fn[s].unsub /\ ProducerReturns(s)
\* Mutant of Report.
ReportAlways(s) ==
    /\ fn[s].producer = "returned"
    /\ fn' = [fn EXCEPT ![s].producer = "closing", ![s].unsubscribed = TRUE,
                        ![s].err = IF fn[s].result = "error" THEN "value" ELSE @]
    /\ UNCHANGED <<scope, track, call>>
Report(s) ==
    /\ fn[s].producer = "returned"
    /\ fn' = [fn EXCEPT ![s].producer = "closing", ![s].unsubscribed = TRUE,
                        ![s].err = IF ~fn[s].unsubscribed /\ fn[s].result = "error" THEN "value" ELSE @]
    /\ UNCHANGED <<scope, track, call>>
\* close(s.err): a value that is still buffered stays readable.
CloseErr(s) ==
    /\ fn[s].producer = "closing"
    /\ fn' = [fn EXCEPT ![s].producer = "done", ![s].err = IF @ = "value" THEN "value" ELSE "closed"]
    /\ UNCHANGED <<scope, track, call>>

-----------------------------------------------------------------------------
(* funcSub.ScopeUnsubscribe, called by c on s: only the first caller waits.     *)
Enter(c, s) ==
    IF fn[s].unsubscribed THEN call' = [call EXCEPT ![c].pc = "left", ![c].sub = s, ![c].first = FALSE] /\ UNCHANGED fn
    ELSE /\ fn' = [fn EXCEPT ![s].unsubscribed = TRUE, ![s].unsub = TRUE]
         /\ call' = [call EXCEPT ![c].pc = "wait", ![c].sub = s, ![c].first = TRUE]
Wait(c) ==
    /\ call[c].pc = "wait" /\ fn[call[c].sub].err # "empty"
    /\ call' = [call EXCEPT ![c].pc = "left"] /\ UNCHANGED <<fn, scope, track>>

Track(s) ==
    /\ track[s] = "new" /\ scope.mu = "free"
    /\ track' = [track EXCEPT ![s] = IF scope.closed THEN "refused" ELSE "tracked"]
    /\ scope' = [scope EXCEPT !.subs = IF scope.closed THEN @ ELSE @ \union {s}]
    /\ UNCHANGED <<fn, call>>
\* scopeSub.ScopeUnsubscribe: the subscription first, then its entry of the scope.
ScopeUnsubscribe(c) ==
    /\ call[c].pc = "idle" /\ track[ScopeSubOf[c]] = "tracked" /\ Enter(c, ScopeSubOf[c]) /\ UNCHANGED <<scope, track>>
Delete(c) ==
    /\ call[c].pc = "left" /\ scope.mu = "free"
    /\ scope' = [scope EXCEPT !.subs = @ \ {call[c].sub}] /\ call' = [call EXCEPT ![c].pc = "returned"]
    /\ UNCHANGED <<fn, track>>
\* Close keeps the mutex while it waits for each subscription.
Close(c) ==
    /\ call[c].pc = "idle" /\ scope.mu = "free"
    /\ IF scope.closed THEN call' = [call EXCEPT ![c].pc = "returned"] /\ UNCHANGED scope
       ELSE /\ call' = [call EXCEPT ![c].pc = "left", ![c].todo = scope.subs]
            /\ scope' = [scope EXCEPT !.mu = c, !.closed = TRUE]
    /\ UNCHANGED <<fn, track>>
CloseNext(c) ==
    /\ call[c].pc = "left" /\ call[c].todo # {}
    /\ \E s \in call[c].todo :
          IF fn[s].unsubscribed THEN call' = [call EXCEPT ![c].todo = @ \ {s}] /\ UNCHANGED fn
          ELSE /\ fn' = [fn EXCEPT ![s].unsubscribed = TRUE, ![s].unsub = TRUE]
               /\ call' = [call EXCEPT ![c].pc = "wait", ![c].sub = s, ![c].todo = @ \ {s}]
    /\ UNCHANGED <<scope, track>>
CloseEnds(c) ==
    /\ call[c].pc = "left" /\ call[c].todo = {}
    /\ call' = [call EXCEPT ![c].pc = "returned"] /\ scope' = [scope EXCEPT !.mu = "free", !.subs = {}]
    /\ UNCHANGED <<fn, track>>

Producer(s) == ProducerObeys(s) \/ Report(s) \/ CloseErr(s)
Returning(c) == Wait(c) \/ (c \in Caller /\ Delete(c)) \/ (c \in Closer /\ (CloseNext(c) \/ CloseEnds(c)))
ScopeNext == \/ \E s \in ScopeSub : Producer(s) \/ ProducerReturns(s) \/ Track(s)
             \/ \E c \in Caller : ScopeUnsubscribe(c)
             \/ \E c \in Closer : Close(c)
             \/ \E c \in Thread : Returning(c)
ScopeSpec == ScopeInit /\ [][ScopeNext]_scopeVars
\* Goroutines go on, and a producer returns once its unsub channel is closed.
ScopeFairness == (\A s \in ScopeSub : WF_scopeVars(Producer(s))) /\ (\A c \in Thread : SF_scopeVars(Returning(c)))
ScopeLSpec == ScopeSpec /\ ScopeFairness

-----------------------------------------------------------------------------
ScopeTypeOK ==
    /\ \A s \in ScopeSub : fn[s].producer \in {"running", "returned", "closing", "done"} /\ fn[s].err \in {"empty", "value", "closed"}
    /\ scope.mu \in Closer \union {"free"} /\ scope.subs \subseteq ScopeSub

\* The caller that cancels a subscription returns after its producer; an error
\* is reported only if the subscription ended before anyone cancelled it; and
\* once the scope is closed it tracks nothing that is still subscribed.
ScopeExact ==
    /\ \A c \in Caller : call[c].pc = "returned" /\ call[c].first => fn[ScopeSubOf[c]].producer = "done"
    /\ \A s \in ScopeSub : fn[s].err = "value" => fn[s].result = "error" /\ ~fn[s].unsub
    /\ \A c \in Closer : call[c].pc = "returned" /\ scope.mu = "free" =>
          scope.subs = {} /\ \A s \in ScopeSub : track[s] = "tracked" => fn[s].unsubscribed

\* No call of ScopeUnsubscribe or Close is under way.
ScopeNobodyWaits == \A c \in Thread : call[c].pc \in {"idle", "returned"}

-----------------------------------------------------------------------------
(***************************************************************************)
(* event.Resubscribe (event/subscription.go): a loop keeps one inner       *)
(* subscription established, trying again with a growing pause, until it   *)
(* ends without error or Unsubscribe is called.  Times are multiples of    *)
(* backoffMax / 10.                                                        *)
(***************************************************************************)

CONSTANTS MaxTries        \* bound: calls of the ResubscribeFunc

Tries == 1 .. MaxTries
backoffMax == 10

VARIABLES loop,       \* "try", "backoff", "wait" or "done"
          ended,      \* why the loop has ended: "no", "unsub" or "nil"
          attempt,    \* the current try
          try,        \* [Tries -> state of the goroutine that calls fn]
          inner,      \* [Tries -> the subscription the try established]
          waitTime, caller
reVars == <<loop, ended, attempt, try, inner, waitTime, caller>>

ReInit ==
    /\ loop = "try" /\ ended = "no" /\ attempt = 1
    /\ try = [n \in Tries |-> IF n = 1 THEN "calling" ELSE "idle"]
    /\ inner = [n \in Tries |-> "none"]
    /\ waitTime = backoffMax \div 10 /\ caller = "idle"

\* The goroutine of one try: fn returns, then its error is offered to the loop.
FnReturns(n) ==
    /\ try[n] = "calling"
    /\ \/ try' = [try EXCEPT ![n] = "ok"] /\ inner' = [inner EXCEPT ![n] = "active"]
       \/ try' = [try EXCEPT ![n] = "failed"] /\ UNCHANGED inner
    /\ UNCHANGED <<loop, ended, attempt, waitTime, caller>>

ReFinish(why) == loop' = "done" /\ ended' = why
Subscribed ==
    /\ loop = "try" /\ try[attempt] = "ok"
    /\ try' = [try EXCEPT ![attempt] = "over"] /\ loop' = "wait"
    /\ UNCHANGED <<ended, attempt, inner, waitTime, caller>>
\* The pause before the next try, longer unless the last one was long ago.
backoff(late) ==
    IF late THEN backoffMax \div 10 ELSE IF waitTime * 2 > backoffMax THEN backoffMax ELSE waitTime * 2
Failed ==
    /\ loop = "try" /\ try[attempt] = "failed"
    /\ try' = [try EXCEPT ![attempt] = "over"] /\ loop' = "backoff"
    /\ \E late \in BOOLEAN : waitTime' = backoff(late)
    /\ UNCHANGED <<ended, attempt, inner, caller>>
Launch ==
    /\ attempt < MaxTries /\ loop' = "try" /\ attempt' = attempt + 1
    /\ try' = [try EXCEPT ![attempt + 1] = "calling"]
Retry ==
    /\ loop = "backoff" /\ Launch /\ UNCHANGED <<ended, inner, waitTime, caller>>

\* sub.ReUnsubscribe: of the subscription the loop waits for.
drop == [inner EXCEPT ![attempt] = "over"]
\* waitForError: the inner subscription fails, or it ends without error.
InnerFails ==
    /\ loop = "wait" /\ inner' = drop /\ Launch /\ UNCHANGED <<ended, waitTime, caller>>
InnerEnds ==
    /\ loop = "wait" /\ inner' = drop /\ ReFinish("nil")
    /\ UNCHANGED <<attempt, try, waitTime, caller>>

\* ReUnsubscribe: one send on unsub, which every select of the loop receives.
ReUnsubscribe == caller = "idle" /\ caller' = "send" /\ UNCHANGED <<loop, ended, attempt, try, inner, waitTime>>
Unsub ==
    /\ caller = "send" /\ loop # "done" /\ caller' = "wait" /\ ReFinish("unsub")
    /\ inner' = IF loop = "wait" THEN drop ELSE inner
    /\ UNCHANGED <<attempt, try, waitTime>>
Returned ==
    /\ caller = "wait" /\ loop = "done" /\ caller' = "returned"
    /\ UNCHANGED <<loop, ended, attempt, try, inner, waitTime>>

ReNext == \/ \E n \in Tries : FnReturns(n)
          \/ Subscribed \/ Failed \/ Retry \/ InnerFails \/ InnerEnds
          \/ ReUnsubscribe \/ Unsub \/ Returned
ReSpec == ReInit /\ [][ReNext]_reVars
\* The caller and the loop go on; fn need not return.
ReFairness == WF_reVars(Unsub) /\ WF_reVars(Returned)
ReLSpec == ReSpec /\ ReFairness

-----------------------------------------------------------------------------
ReTypeOK ==
    /\ loop \in {"try", "backoff", "wait", "done"} /\ ended \in {"no", "unsub", "nil"}
    /\ attempt \in Tries /\ caller \in {"idle", "send", "wait", "returned"}

\* The loop holds at most one inner subscription, the pause never exceeds
\* backoffMax, and after the loop only a subscription whose ResubscribeFunc
\* was still running when ReUnsubscribe came is left, with its goroutine.
ResubscribeExact ==
    /\ waitTime \in 1 .. backoffMax
    /\ \A n \in Tries : inner[n] = "active" => n = attempt /\ (loop # "done" \/ try[n] = "ok")
    /\ \A n \in Tries : try[n] \in {"calling", "ok", "failed"} => n = attempt
    /\ loop = "done" /\ ended = "nil" => \A n \in Tries : inner[n] # "active"

\* ReUnsubscribe returns, whatever the ResubscribeFunc does, unless the loop had
\* already ended with its subscription: then nothing receives from unsub.
ReNobodyWaits == caller \in {"idle", "returned"} \/ ended = "nil"
UnsubscribeReturns == <>[]ReNobodyWaits
=============================================================================
