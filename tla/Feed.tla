-------------------------------- MODULE Feed --------------------------------
(***************************************************************************)
(* event.Feed (event/feed.go): senders share the list sendCases, which     *)
(* sendLock protects, and Unsubscribe either takes that lock or interrupts *)
(* the Send that holds it.                                                 *)
(*                                                                         *)
(* The slice cases of a Send is the first n elements of sendCases; the     *)
(* case of removeSub, at index 0 in the code, is left out, so that indexes *)
(* agree with firstSubSendCase.  Values are not told apart, and all of one *)
(* type (typecheck): buf counts those a channel holds.                     *)
(***************************************************************************)
EXTENDS Integers, Sequences, FiniteSets

CONSTANTS
    Channel, Sub, ChanOf, Sender,
    Buffer,        \* capacity of a channel
    MaxSend        \* bound: calls of Send

VARIABLES
    sub,         \* each subscription: "new", "live", "removing" or "gone"
    inbox, sendCases,
    sendLock,    \* the token is in the channel: no Send holds the lock
    send,        \* each sender: where it is, len(cases) and the index i
    buf,         \* values in each channel
    sends,       \* calls of Send so far
    present,     \* the subscriptions there were when the last Send began
    got          \* how often it has sent on each channel

vars == <<sub, inbox, sendCases, sendLock, send, buf, sends, present, got>>

Init ==
    /\ sub = [s \in Sub |-> "new"]
    /\ inbox = <<>> /\ sendCases = <<>> /\ sendLock = TRUE
    /\ send = [p \in Sender |-> [at |-> "idle", n |-> 0, i |-> 1]]
    /\ buf = [c \in Channel |-> 0] /\ sends = 0
    /\ present = {} /\ got = [c \in Channel |-> 0]

-----------------------------------------------------------------------------
(* caseList *)

\* The index of the first case of channel c, or 0.
find(cs, c) ==
    LET I == {i \in DOMAIN cs : cs[i] = c}
    IN  IF I = {} THEN 0 ELSE CHOOSE i \in I : \A j \in I : i <= j

delete(cs, i) == SubSeq(cs, 1, i - 1) \o SubSeq(cs, i + 1, Len(cs))

\* The case moves behind the ones that are still to be sent.
deactivate(cs, i, n) == [cs EXCEPT ![i] = cs[n], ![n] = cs[i]]

-----------------------------------------------------------------------------
(* Subscribe and Unsubscribe *)

Subscribe(s) ==
    /\ sub[s] = "new"
    /\ sub' = [sub EXCEPT ![s] = "live"]
    /\ inbox' = Append(inbox, ChanOf[s])
    /\ UNCHANGED <<sendCases, sendLock, send, buf, sends, present, got>>

\* Mutant of remove: a channel that is in the inbox is not looked for there.
removeNoInbox(s) ==
    /\ sub[s] = "live"
    /\ sub' = [sub EXCEPT ![s] = "removing"]
    /\ UNCHANGED <<inbox, sendCases, sendLock, send, buf, sends, present, got>>

\* The first half of remove, under mu.
remove(s) ==
    LET index == find(inbox, ChanOf[s]) IN
    /\ sub[s] = "live"
    /\ \/ index # 0 /\ inbox' = delete(inbox, index)
                    /\ sub' = [sub EXCEPT ![s] = "gone"]
       \/ index = 0 /\ UNCHANGED inbox
                    /\ sub' = [sub EXCEPT ![s] = "removing"]
    /\ UNCHANGED <<sendCases, sendLock, send, buf, sends, present, got>>

\* No Send is in progress: remove deletes the channel itself.
RemoveNow(s) ==
    /\ sub[s] = "removing" /\ sendLock
    /\ sub' = [sub EXCEPT ![s] = "gone"]
    /\ sendCases' = delete(sendCases, find(sendCases, ChanOf[s]))
    /\ UNCHANGED <<inbox, sendLock, send, buf, sends, present, got>>

-----------------------------------------------------------------------------
(* Send *)

At(p, where) == send[p].at = where

\* Send takes the lock and the channels of the inbox.  The two are one step:
\* until it has read the inbox, a Send that has the lock only keeps others out.
Lock(p) ==
    /\ At(p, "idle") /\ sendLock /\ sends < MaxSend
    /\ sendLock' = FALSE /\ sends' = sends + 1
    /\ sendCases' = sendCases \o inbox /\ inbox' = <<>>
    /\ send' = [send EXCEPT ![p] = [at |-> "try", n |-> Len(sendCases'), i |-> 1]]
    /\ present' = {s \in Sub : sub[s] \in {"live", "removing"}}
    /\ got' = [c \in Channel |-> 0]
    /\ UNCHANGED <<sub, buf>>

\* The value goes into the channel of case i, which is then done with.
Put(p, i, next) ==
    LET c == sendCases[i] IN
    /\ buf[c] < Buffer
    /\ buf' = [buf EXCEPT ![c] = @ + 1]
    /\ got' = [got EXCEPT ![c] = @ + 1]
    /\ sendCases' = deactivate(sendCases, i, send[p].n)
    /\ send' = [send EXCEPT ![p] = [at |-> "try", n |-> send[p].n - 1, i |-> next]]
    /\ UNCHANGED <<sub, inbox, sendLock, sends, present>>

\* The fast path: case i with TrySend.
TrySend(p) ==
    LET i == send[p].i IN
    /\ At(p, "try") /\ i <= send[p].n
    /\ \/ Put(p, i, i)
       \/ /\ buf[sendCases[i]] = Buffer
          /\ send' = [send EXCEPT ![p].i = i + 1]
          /\ UNCHANGED <<sub, inbox, sendCases, sendLock, buf, sends, present, got>>

\* Some channels are full: Send waits for one of them or for removeSub.
Block(p) ==
    /\ At(p, "try") /\ send[p].i > send[p].n /\ send[p].n > 0
    /\ send' = [send EXCEPT ![p].at = "select"]
    /\ UNCHANGED <<sub, inbox, sendCases, sendLock, buf, sends, present, got>>

Select(p) ==
    /\ At(p, "select")
    /\ \E i \in 1 .. send[p].n : Put(p, i, 1)

\* The select receives a channel from removeSub.
Interrupt(p, s) ==
    LET index == find(sendCases, ChanOf[s])
        n == send[p].n
    IN
    /\ At(p, "select") /\ sub[s] = "removing"
    /\ sub' = [sub EXCEPT ![s] = "gone"]
    /\ sendCases' = delete(sendCases, index)
    /\ send' = [send EXCEPT ![p] = [at |-> "try", n |-> IF index <= n THEN n - 1 ELSE n, i |-> 1]]
    /\ UNCHANGED <<inbox, sendLock, buf, sends, present, got>>

\* Every case has been sent: Send returns nsent, which is
\* the sum of got.
Return(p) ==
    /\ At(p, "try") /\ send[p].n = 0
    /\ sendLock' = TRUE
    /\ send' = [send EXCEPT ![p].at = "idle"]
    /\ UNCHANGED <<sub, inbox, sendCases, buf, sends, present, got>>

\* The subscriber takes a value from its channel.
Receive(c) ==
    /\ buf[c] > 0
    /\ buf' = [buf EXCEPT ![c] = @ - 1]
    /\ UNCHANGED <<sub, inbox, sendCases, sendLock, send, sends, present, got>>

SendStep(p) == TrySend(p) \/ Block(p) \/ Select(p) \/ Return(p)
RemoveStep(s) == RemoveNow(s) \/ \E p \in Sender : Interrupt(p, s)

Next ==
    \/ \E s \in Sub : Subscribe(s) \/ remove(s) \/ RemoveStep(s)
    \/ \E p \in Sender : Lock(p) \/ SendStep(p)
    \/ \E c \in Channel : Receive(c)

\* Goroutines that can go on do; receivers need not receive.
Fairness ==
    /\ \A p \in Sender : WF_vars(SendStep(p))
    /\ \A s \in Sub : SF_vars(RemoveStep(s))

Spec == Init /\ [][Next]_vars /\ Fairness

-----------------------------------------------------------------------------
(* Properties. *)

\* The variables keep their types; at most one Send holds the lock, and its
\* slice is never longer than sendCases.
TypeOK ==
    /\ sub \in [Sub -> {"new", "live", "removing", "gone"}]
    /\ inbox \in Seq(Channel) /\ sendCases \in Seq(Channel)
    /\ buf \in [Channel -> 0 .. Buffer]
    /\ \A p \in Sender : At(p, "idle") \/ send[p].n \in 0 .. Len(sendCases)
    /\ Cardinality({p \in Sender : ~At(p, "idle")}) = IF sendLock THEN 0 ELSE 1

Holder == CHOOSE p \in Sender : ~At(p, "idle")
ToSend == IF sendLock THEN 0 ELSE send[Holder].n

\* How often each channel is at one of the indexes I of a list.
Occurrences(cs, I) == [c \in Channel |-> Cardinality({i \in I : cs[i] = c})]

\* Feed keeps what Broadcast promises: the inbox, the slice and what lies
\* behind it are its three bags of channels.
B == INSTANCE Broadcast WITH
        inbox <- Occurrences(inbox, 1 .. Len(inbox)),
        active <- Occurrences(sendCases, 1 .. ToSend),
        sent <- Occurrences(sendCases, (ToSend + 1) .. Len(sendCases)),
        phase <- IF sendLock THEN "idle" ELSE "sending"

FeedBroadcasts == B!Spec

\* No call of Unsubscribe, or of Send, is under way.
NobodyRemoving == \A s \in Sub : sub[s] # "removing"
NobodySending == \A p \in Sender : At(p, "idle")

\* Unsubscribe returns although no subscriber ever receives: a blocked Send
\* does not hold it up.
UnsubscribeReturns == <>[]NobodyRemoving

=============================================================================
