------------------------------ MODULE Broadcast ------------------------------
(***************************************************************************)
(* What event.Feed promises: each Send reaches every subscription once,    *)
(* and Unsubscribe takes effect although a Send may be under way.          *)
(*                                                                         *)
(* Feed identifies a subscription by its channel alone, and a channel may  *)
(* be subscribed several times: the lists of channels are bags, and an     *)
(* Unsubscribe may strike out an entry that another subscription of the    *)
(* same channel made.                                                      *)
(***************************************************************************)
EXTENDS Integers, FiniteSets

CONSTANTS
    Channel, Sub,
    ChanOf         \* the channel of a subscription

ASSUME BroadcastAssumption == IsFiniteSet(Sub) /\ ChanOf \in [Sub -> Channel]

VARIABLES
    sub,       \* each subscription: "new", "live", "removing" or "gone"
    inbox,     \* channels subscribed since the last Send, a bag
    active,    \* channels the current Send has still to reach
    sent,      \* the other channels of the feed
    phase,     \* "sending" while a Send is under way, else "idle"
    present,   \* the subscriptions there were when the last Send began
    got        \* how often each channel has got its value

vars == <<sub, inbox, active, sent, phase, present, got>>

None == [c \in Channel |-> 0]

Init ==
    /\ sub = [s \in Sub |-> "new"]
    /\ inbox = None /\ active = None /\ sent = None
    /\ phase = "idle" /\ present = {} /\ got = None

Listed == {s \in Sub : sub[s] \in {"live", "removing"}}
Removing == {s \in Sub : sub[s] = "removing"}

\* How many of the subscriptions S are of channel c.
Count(S, c) == Cardinality({s \in S : ChanOf[s] = c})

Subscribe(s) ==
    /\ sub[s] = "new"
    /\ sub' = [sub EXCEPT ![s] = "live"]
    /\ inbox' = [inbox EXCEPT ![ChanOf[s]] = @ + 1]
    /\ UNCHANGED <<active, sent, phase, present, got>>

\* An entry in the inbox is struck out at once.
Cancel(s) ==
    /\ sub[s] = "live" /\ inbox[ChanOf[s]] > 0
    /\ sub' = [sub EXCEPT ![s] = "gone"]
    /\ inbox' = [inbox EXCEPT ![ChanOf[s]] = @ - 1]
    /\ UNCHANGED <<active, sent, phase, present, got>>

\* Otherwise the entry is one of sendCases, and Unsubscribe has to wait for the
\* lock or for the Send that has it.
Unsubscribe(s) ==
    /\ sub[s] = "live" /\ inbox[ChanOf[s]] = 0
    /\ sub' = [sub EXCEPT ![s] = "removing"]
    /\ UNCHANGED <<inbox, active, sent, phase, present, got>>

\* Mutant of Remove: the entry stays.
RemoveKeepsEntry(s) ==
    /\ sub[s] = "removing"
    /\ sub' = [sub EXCEPT ![s] = "gone"]
    /\ UNCHANGED <<inbox, active, sent, phase, present, got>>

\* An entry the Send has not reached yet is struck out first.
Remove(s) ==
    LET c == ChanOf[s] IN
    /\ sub[s] = "removing"
    /\ sub' = [sub EXCEPT ![s] = "gone"]
    /\ \/ /\ active[c] > 0
          /\ active' = [active EXCEPT ![c] = @ - 1]
          /\ UNCHANGED sent
       \/ /\ active[c] = 0
          /\ sent' = [sent EXCEPT ![c] = @ - 1]
          /\ UNCHANGED active
    /\ UNCHANGED <<inbox, phase, present, got>>

\* Send takes over the inbox and starts with all channels.
Begin ==
    /\ phase = "idle" /\ phase' = "sending"
    /\ active' = [c \in Channel |-> sent[c] + inbox[c]]
    /\ sent' = None /\ inbox' = None
    /\ present' = Listed /\ got' = None
    /\ UNCHANGED sub

\* The value goes into a channel, on the fast path or by the select.
Deliver(c) ==
    /\ phase = "sending" /\ active[c] > 0
    /\ active' = [active EXCEPT ![c] = @ - 1]
    /\ sent' = [sent EXCEPT ![c] = @ + 1]
    /\ got' = [got EXCEPT ![c] = @ + 1]
    /\ UNCHANGED <<sub, inbox, phase, present>>

\* Mutant of End: Send returns after the fast path.
EndEarly ==
    /\ phase = "sending"
    /\ phase' = "idle"
    /\ UNCHANGED <<sub, inbox, active, sent, present, got>>

End ==
    /\ phase = "sending" /\ active = None
    /\ phase' = "idle"
    /\ UNCHANGED <<sub, inbox, active, sent, present, got>>

Next ==
    \/ \E s \in Sub : Subscribe(s) \/ Cancel(s) \/ Unsubscribe(s) \/ Remove(s)
    \/ \E c \in Channel : Deliver(c)
    \/ Begin \/ End

Spec == Init /\ [][Next]_vars

-----------------------------------------------------------------------------
(* Properties. *)

\* The bags hold no negative counts: remove never looks for a channel that is
\* in neither list (delete would be called with index -1).
TypeOK ==
    /\ sub \in [Sub -> {"new", "live", "removing", "gone"}]
    /\ inbox \in [Channel -> Nat] /\ active \in [Channel -> Nat]
    /\ sent \in [Channel -> Nat] /\ got \in [Channel -> Nat]
    /\ phase \in {"idle", "sending"} /\ present \subseteq Sub

\* Every Unsubscribe that waits in remove will find an entry of its channel in
\* sendCases, whatever other subscriptions of the channel have struck out.
RemovalFindsEntry ==
    \A c \in Channel : Count(Removing, c) <= active[c] + sent[c]

\* When Send returns, a channel has got the value at least once for each
\* subscription that was there all the time and at most once for each that was
\* there when it began.
EachSubscriptionOnce ==
    [][phase = "sending" /\ phase' = "idle" =>
         \A c \in Channel : /\ Count(present \cap Listed, c) <= got[c]
                            /\ got[c] <= Count(present, c)]_vars

\* Nothing is sent on a channel none of whose subscriptions is left.
NothingAfterUnsubscribe ==
    [][\A c \in Channel : got'[c] > got[c] => Count(Listed, c) > 0]_vars

=============================================================================
