--------------------------- MODULE BroadcastProofs ---------------------------
(***************************************************************************)
(* Proofs about Broadcast, for any number of subscriptions, channels and   *)
(* senders.                                                                *)
(***************************************************************************)
EXTENDS Broadcast, FiniteSetTheorems, TLAPS

\* Subscriptions made since the last Send began that are not being cancelled.
Newer == Listed \ (Removing \cup present)

\* The lists account for every subscription: there are as many entries of a
\* channel as subscriptions of it that are not gone, each waiting Unsubscribe
\* has one behind the inbox.
EntryInv ==
    \A c \in Channel :
        /\ inbox[c] + active[c] + sent[c] = Count(Listed, c)
        /\ Count(Removing, c) <= active[c] + sent[c]

\* The current Send: a channel behind the slice has got its value, no channel
\* gets more values than it had entries, and each entry of the inbox stands for a
\* subscription made since the Send began.
SendInv ==
    IF phase = "sending"
    THEN \A c \in Channel :
            /\ sent[c] <= got[c]
            /\ got[c] + active[c] <= Count(present, c)
            /\ inbox[c] <= Count(Newer, c)
    ELSE active = None

IInv ==
    /\ TypeOK /\ EntryInv /\ SendInv
    /\ \A s \in present : sub[s] # "new"

-----------------------------------------------------------------------------
(* Counting subscriptions of a channel. *)

\* Counts are natural numbers.
LEMMA CountType ==
    ASSUME NEW S \in SUBSET Sub, NEW c \in Channel
    PROVE  Count(S, c) \in Nat
<1>. {s \in S : ChanOf[s] = c} \subseteq Sub
  OBVIOUS
<1>. QED  BY BroadcastAssumption, FS_Subset, FS_CardinalityType DEF Count

\* Adding a subscription adds one to the count of its channel.
LEMMA CountAdd ==
    ASSUME NEW S \in SUBSET Sub, NEW s \in Sub, s \notin S, NEW c \in Channel
    PROVE  Count(S \cup {s}, c) = Count(S, c) + (IF ChanOf[s] = c THEN 1 ELSE 0)
<1>. DEFINE Of(T) == {x \in T : ChanOf[x] = c}
<1>1. IsFiniteSet(Of(S))
  BY BroadcastAssumption, FS_Subset, Of(S) \subseteq Sub
<1>2. CASE ChanOf[s] = c
  <2>1. Of(S \cup {s}) = Of(S) \cup {s}
    BY <1>2
  <2>2. Cardinality(Of(S) \cup {s}) = Cardinality(Of(S)) + 1
    BY <1>1, FS_AddElement
  <2>3. Count(S, c) = Cardinality(Of(S)) /\ Count(S \cup {s}, c) = Cardinality(Of(S \cup {s}))
    BY DEF Count
  <2>. HIDE DEF Of
  <2>. QED  BY <1>2, <2>1, <2>2, <2>3
<1>3. CASE ChanOf[s] # c
  <2>1. Of(S \cup {s}) = Of(S)
    BY <1>3
  <2>2. Count(S, c) \in Nat
    BY CountType
  <2>3. Count(S, c) = Cardinality(Of(S)) /\ Count(S \cup {s}, c) = Cardinality(Of(S \cup {s}))
    BY DEF Count
  <2>. HIDE DEF Of
  <2>. QED  BY <1>3, <2>1, <2>2, <2>3
<1>. QED  BY <1>2, <1>3

\* A part has no larger count than the whole.
LEMMA CountMono ==
    ASSUME NEW S \in SUBSET Sub, NEW T \in SUBSET S, NEW c \in Channel
    PROVE  Count(T, c) <= Count(S, c)
<1>1. /\ {s \in S : ChanOf[s] = c} \subseteq Sub
      /\ {s \in T : ChanOf[s] = c} \subseteq {s \in S : ChanOf[s] = c}
  OBVIOUS
<1>2. IsFiniteSet({s \in S : ChanOf[s] = c})
  BY <1>1, BroadcastAssumption, FS_Subset
<1>. QED  BY <1>1, <1>2, FS_Subset DEF Count

\* A set and what is left of a second one add up.
LEMMA CountSplit ==
    ASSUME NEW S \in SUBSET Sub, NEW T \in SUBSET Sub, NEW c \in Channel
    PROVE  Count(S, c) = Count(S \cap T, c) + Count(S \ T, c)
<1>. DEFINE Of(X) == {x \in X : ChanOf[x] = c}
<1>1. IsFiniteSet(Of(S)) /\ IsFiniteSet(Of(S \cap T)) /\ IsFiniteSet(Of(S \ T))
  BY BroadcastAssumption, FS_Subset, Of(S) \subseteq Sub, Of(S \cap T) \subseteq Sub,
     Of(S \ T) \subseteq Sub
<1>2. Of(S) = Of(S \cap T) \cup Of(S \ T) /\ Of(S \cap T) \cap Of(S \ T) = {}
  OBVIOUS
<1>3. Cardinality(Of(S \cap T) \cup Of(S \ T))
        = Cardinality(Of(S \cap T)) + Cardinality(Of(S \ T))
          - Cardinality(Of(S \cap T) \cap Of(S \ T))
  <2>. HIDE DEF Of
  <2>. QED  BY <1>1, FS_Union, Zenon
<1>4. Cardinality({}) = 0
  BY FS_EmptySet
<1>5. Count(S \cap T, c) \in Nat /\ Count(S \ T, c) \in Nat
  BY CountType
<1>6. /\ Count(S, c) = Cardinality(Of(S))
      /\ Count(S \cap T, c) = Cardinality(Of(S \cap T))
      /\ Count(S \ T, c) = Cardinality(Of(S \ T))
  BY DEF Count
<1>7. Cardinality(Of(S)) = Cardinality(Of(S \cap T)) + Cardinality(Of(S \ T))
                              - Cardinality({})
  BY <1>2, <1>3, Zenon
<1>. HIDE DEF Of
<1>. QED  BY <1>4, <1>5, <1>6, <1>7

\* Bags stay bags when an entry is added or taken out.
LEMMA Increment ==
    ASSUME NEW f \in [Channel -> Nat], NEW c \in Channel
    PROVE  [f EXCEPT ![c] = @ + 1] \in [Channel -> Nat]
OBVIOUS

LEMMA Decrement ==
    ASSUME NEW f \in [Channel -> Nat], NEW c \in Channel, f[c] > 0
    PROVE  [f EXCEPT ![c] = @ - 1] \in [Channel -> Nat]
OBVIOUS

-----------------------------------------------------------------------------
(* The sets of subscriptions after a step. *)

LEMMA SetsType ==
    /\ Listed \subseteq Sub /\ Removing \subseteq Sub /\ Removing \subseteq Listed
    /\ Newer \subseteq Sub
BY DEF Listed, Removing, Newer

LEMMA SubscribeSets ==
    ASSUME IInv, NEW s \in Sub, Subscribe(s)
    PROVE  /\ s \notin Listed /\ Listed' = Listed \cup {s} /\ Removing' = Removing
           /\ s \notin Newer
           /\ Newer' = Newer \cup {s}
BY DEF IInv, TypeOK, Subscribe, Listed, Removing, Newer

LEMMA CancelSets ==
    ASSUME IInv, NEW s \in Sub, Cancel(s)
    PROVE  /\ s \notin Listed' /\ Listed = Listed' \cup {s} /\ Removing' = Removing
           /\ Listed' \subseteq Sub /\ Newer' \subseteq Sub
           /\ s \notin Newer'
           /\ Newer = IF s \in present THEN Newer'
                             ELSE Newer' \cup {s}
BY DEF IInv, TypeOK, Cancel, Listed, Removing, Newer

LEMMA UnsubscribeSets ==
    ASSUME IInv, NEW s \in Sub, Unsubscribe(s)
    PROVE  /\ Listed' = Listed /\ s \notin Removing /\ Removing' = Removing \cup {s}
           /\ Removing' \subseteq Listed
           /\ s \notin Newer' /\ Newer' \subseteq Sub
           /\ Newer = IF s \in present THEN Newer'
                             ELSE Newer' \cup {s}
BY DEF IInv, TypeOK, Unsubscribe, Listed, Removing, Newer

LEMMA RemoveSets ==
    ASSUME IInv, NEW s \in Sub, Remove(s)
    PROVE  /\ s \notin Listed' /\ Listed = Listed' \cup {s} /\ Listed' \subseteq Sub
           /\ s \notin Removing' /\ Removing = Removing' \cup {s} /\ Removing' \subseteq Sub
           /\ Newer' = Newer
BY DEF IInv, TypeOK, Remove, Listed, Removing, Newer

\* Everything that is counted is a natural number.
LEMMA Nats ==
    ASSUME IInv, NEW c \in Channel
    PROVE  /\ inbox[c] \in Nat /\ active[c] \in Nat /\ sent[c] \in Nat /\ got[c] \in Nat
           /\ Count(Listed, c) \in Nat /\ Count(Removing, c) \in Nat
           /\ Count(Newer, c) \in Nat /\ Count(present, c) \in Nat
BY CountType, SetsType DEF IInv, TypeOK

\* A waiting Unsubscribe has an entry to strike out.
LEMMA RemovalHasEntry ==
    ASSUME IInv, NEW s \in Sub, sub[s] = "removing"
    PROVE  active[ChanOf[s]] > 0 \/ sent[ChanOf[s]] > 0
<1>. DEFINE c == ChanOf[s]  R == Removing \ {s}
<1>1. c \in Channel
  BY BroadcastAssumption
<1>2. R \in SUBSET Sub /\ s \notin R /\ Removing = R \cup {s}
  BY DEF Removing
<1>. HIDE DEF R
<1>3. Count(R \cup {s}, c) = Count(R, c) + 1 /\ Count(R, c) \in Nat
  BY <1>1, <1>2, CountAdd, CountType
<1>. HIDE DEF c
<1>4. Count(Removing, c) <= active[c] + sent[c]
  BY <1>1 DEF IInv, EntryInv
<1>5. active[c] > 0 \/ sent[c] > 0
  BY <1>1, <1>2, <1>3, <1>4, Nats
<1>. QED  BY <1>5 DEF c

-----------------------------------------------------------------------------
(* The invariant is inductive. *)

LEMMA InitInv == Init => IInv
<1>. SUFFICES ASSUME Init PROVE IInv
  OBVIOUS
<1>1. TypeOK
  BY DEF Init, TypeOK, None
<1>2. Listed = {} /\ Removing = {}
  BY DEF Init, Listed, Removing
<1>3. \A c \in Channel : Count({}, c) = 0
  BY FS_EmptySet DEF Count
<1>4. EntryInv
  BY <1>2, <1>3 DEF Init, EntryInv, None
<1>. QED  BY <1>1, <1>4 DEF Init, IInv, SendInv

\* What a step has to keep, channel by channel.
LEMMA StepSuffices ==
    ASSUME TypeOK', \A x \in present' : sub'[x] # "new",
           phase' # "sending" => active' = None,
           \A c \in Channel :
              /\ inbox'[c] + active'[c] + sent'[c] = Count(Listed', c)
              /\ Count(Removing', c) <= active'[c] + sent'[c]
              /\ phase' = "sending" => /\ sent'[c] <= got'[c]
                                      /\ got'[c] + active'[c] <= Count(present', c)
                                      /\ inbox'[c] <= Count(Newer', c)
    PROVE  IInv'
<1>1. EntryInv'
  BY DEF EntryInv
<1>2. SendInv'
  BY DEF SendInv
<1>. QED  BY <1>1, <1>2 DEF IInv

\* What the invariant says of a channel.
LEMMA Uses ==
    ASSUME IInv, NEW c \in Channel
    PROVE  /\ inbox[c] + active[c] + sent[c] = Count(Listed, c)
           /\ Count(Removing, c) <= active[c] + sent[c]
           /\ phase = "sending" => /\ sent[c] <= got[c]
                                  /\ got[c] + active[c] <= Count(present, c)
                                  /\ inbox[c] <= Count(Newer, c)
BY DEF IInv, EntryInv, SendInv

LEMMA SubscribeInv ==
    ASSUME IInv, NEW s \in Sub, Subscribe(s)
    PROVE  IInv'
<1>1. TypeOK'
  <2>1. inbox' \in [Channel -> Nat]
    BY Increment, BroadcastAssumption, Zenon DEF IInv, TypeOK, Subscribe
  <2>2. sub' \in [Sub -> {"new", "live", "removing", "gone"}]
    BY DEF IInv, TypeOK, Subscribe
  <2>. QED  BY <2>1, <2>2 DEF IInv, TypeOK, Subscribe
<1>2. \A x \in present' : sub'[x] # "new"
  BY DEF IInv, TypeOK, Subscribe
<1>3. UNCHANGED <<active, sent, phase, present, got>> /\ Removing' = Removing
  BY SubscribeSets, Zenon DEF Subscribe
<1>4. ASSUME NEW c \in Channel
      PROVE  /\ inbox'[c] + active'[c] + sent'[c] = Count(Listed', c)
             /\ Count(Removing', c) <= active'[c] + sent'[c]
             /\ phase' = "sending" => /\ sent'[c] <= got'[c]
                                     /\ got'[c] + active'[c] <= Count(present', c)
                                     /\ inbox'[c] <= Count(Newer', c)
  <2>. DEFINE d == IF ChanOf[s] = c THEN 1 ELSE 0
  <2>1. Count(Listed', c) = Count(Listed, c) + d
    BY SubscribeSets, SetsType, CountAdd
  <2>2. Count(Newer', c) = Count(Newer, c) + d
    BY SubscribeSets, SetsType, CountAdd
  <2>3. inbox'[c] = inbox[c] + d
    BY BroadcastAssumption DEF IInv, TypeOK, Subscribe
  <2>4. d \in Nat
    OBVIOUS
  <2>. HIDE DEF d
  <2>. QED  BY <1>3, <2>1, <2>2, <2>3, <2>4, Nats, Uses
<1>5. phase' # "sending" => active' = None
  BY <1>3 DEF IInv, SendInv
<1>. QED  BY <1>1, <1>2, <1>4, <1>5, StepSuffices

LEMMA CancelInv ==
    ASSUME IInv, NEW s \in Sub, Cancel(s)
    PROVE  IInv'
<1>1. TypeOK'
  <2>1. inbox' \in [Channel -> Nat]
    BY Decrement, BroadcastAssumption, Zenon DEF IInv, TypeOK, Cancel
  <2>2. sub' \in [Sub -> {"new", "live", "removing", "gone"}]
    BY DEF IInv, TypeOK, Cancel
  <2>. QED  BY <2>1, <2>2 DEF IInv, TypeOK, Cancel
<1>2. \A x \in present' : sub'[x] # "new"
  BY DEF IInv, TypeOK, Cancel
<1>3. UNCHANGED <<active, sent, phase, present, got>> /\ Removing' = Removing
  BY CancelSets, Zenon DEF Cancel
<1>4. ASSUME NEW c \in Channel
      PROVE  /\ inbox'[c] + active'[c] + sent'[c] = Count(Listed', c)
             /\ Count(Removing', c) <= active'[c] + sent'[c]
             /\ phase' = "sending" => /\ sent'[c] <= got'[c]
                                     /\ got'[c] + active'[c] <= Count(present', c)
                                     /\ inbox'[c] <= Count(Newer', c)
  <2>. DEFINE d == IF ChanOf[s] = c THEN 1 ELSE 0
  <2>1. Count(Listed, c) = Count(Listed', c) + d
    BY CancelSets, CountAdd
  <2>2. Count(Newer, c) <= Count(Newer', c) + d
    <3>1. Count(Newer', c) \in Nat
      BY CancelSets, CountType
    <3>2. CASE s \in present
      BY <3>1, <3>2, CancelSets
    <3>3. CASE s \notin present
      <4>1. Count(Newer' \cup {s}, c) = Count(Newer', c) + d
        BY CancelSets, CountAdd
      <4>. QED  BY <3>1, <3>3, <4>1, CancelSets
    <3>. QED  BY <3>2, <3>3
  <2>3. inbox'[c] = inbox[c] - d
    BY BroadcastAssumption DEF IInv, TypeOK, Cancel
  <2>4. d \in Nat /\ Count(Listed', c) \in Nat /\ Count(Newer', c) \in Nat
    BY CancelSets, CountType
  <2>. HIDE DEF d
  <2>. QED  BY <1>3, <2>1, <2>2, <2>3, <2>4, Nats, Uses
<1>5. phase' # "sending" => active' = None
  BY <1>3 DEF IInv, SendInv
<1>. QED  BY <1>1, <1>2, <1>4, <1>5, StepSuffices

LEMMA UnsubscribeInv ==
    ASSUME IInv, NEW s \in Sub, Unsubscribe(s)
    PROVE  IInv'
<1>1. TypeOK'
  BY DEF IInv, TypeOK, Unsubscribe
<1>2. \A x \in present' : sub'[x] # "new"
  BY DEF IInv, TypeOK, Unsubscribe
<1>3. UNCHANGED <<inbox, active, sent, phase, present, got>> /\ Listed' = Listed
  BY UnsubscribeSets, Zenon DEF Unsubscribe
<1>4. ASSUME NEW c \in Channel
      PROVE  /\ inbox'[c] + active'[c] + sent'[c] = Count(Listed', c)
             /\ Count(Removing', c) <= active'[c] + sent'[c]
             /\ phase' = "sending" => /\ sent'[c] <= got'[c]
                                     /\ got'[c] + active'[c] <= Count(present', c)
                                     /\ inbox'[c] <= Count(Newer', c)
  <2>1. Count(Removing', c) <= Count(Listed, c)
    BY UnsubscribeSets, SetsType, CountMono
  <2>2. Count(Newer', c) \in Nat /\ Count(Removing', c) \in Nat
    BY UnsubscribeSets, SetsType, CountType
  <2>3. CASE ChanOf[s] = c
    <3>1. inbox[c] = 0
      BY <2>3 DEF Unsubscribe
    <3>. QED  BY <1>3, <2>1, <2>2, <3>1, Nats, Uses
  <2>4. CASE ChanOf[s] # c
    <3>1. Count(Removing', c) = Count(Removing, c)
      <4>1. Count(Removing \cup {s}, c) = Count(Removing, c) + 0
        BY <2>4, UnsubscribeSets, SetsType, CountAdd
      <4>. QED  BY <4>1, UnsubscribeSets, Nats, SMTT(40)
    <3>2. Count(Newer', c) = Count(Newer, c)
      <4>1. Count(Newer' \cup {s}, c) = Count(Newer', c) + 0
        BY <2>4, UnsubscribeSets, CountAdd
      <4>2. CASE s \in present
        BY <4>2, UnsubscribeSets
      <4>3. CASE s \notin present
        <5>1. Newer = Newer' \cup {s}
          BY <4>3, UnsubscribeSets
        <5>2. Count(Newer, c) = Count(Newer' \cup {s}, c)
          BY <5>1, Zenon
        <5>. QED  BY <2>2, <4>1, <5>2
      <4>. QED  BY <4>2, <4>3
    <3>. QED  BY <1>3, <3>1, <3>2, Nats, Uses
  <2>. QED  BY <2>3, <2>4
<1>5. phase' # "sending" => active' = None
  BY <1>3 DEF IInv, SendInv
<1>. QED  BY <1>1, <1>2, <1>4, <1>5, StepSuffices

LEMMA RemoveInv ==
    ASSUME IInv, NEW s \in Sub, Remove(s)
    PROVE  IInv'
<1>. DEFINE x == ChanOf[s]
<1>1. x \in Channel /\ UNCHANGED <<inbox, phase, present, got>> /\ Newer' = Newer
  BY BroadcastAssumption, RemoveSets, Zenon DEF Remove
\* There is an entry of the channel to strike out.
<1>2. active[x] + sent[x] > 0
  <2>1. Count(Removing' \cup {s}, x) = Count(Removing', x) + 1 /\ Count(Removing', x) \in Nat
    BY <1>1, RemoveSets, CountAdd, CountType
  <2>2. Count(Removing, x) = Count(Removing', x) + 1
    BY <2>1, RemoveSets, Zenon
  <2>. HIDE DEF x
  <2>. QED  BY <1>1, <2>1, <2>2, Nats, Uses
<1>3. TypeOK'
  <2>1. active' \in [Channel -> Nat] /\ sent' \in [Channel -> Nat]
    <3>1. CASE active[x] > 0
      BY <1>1, <3>1, Decrement DEF IInv, TypeOK, Remove
    <3>2. CASE active[x] = 0
      <4>1. sent[x] > 0
        <5>. HIDE DEF x
        <5>. QED  BY <1>1, <1>2, <3>2, Nats
      <4>. QED  BY <1>1, <3>2, <4>1, Decrement DEF IInv, TypeOK, Remove
    <3>. QED  BY <1>1, <3>1, <3>2 DEF IInv, TypeOK
  <2>2. sub' \in [Sub -> {"new", "live", "removing", "gone"}]
    BY DEF IInv, TypeOK, Remove
  <2>. QED  BY <1>1, <2>1, <2>2 DEF IInv, TypeOK
<1>4. ASSUME NEW c \in Channel
      PROVE  /\ inbox'[c] + active'[c] + sent'[c] = Count(Listed', c)
             /\ Count(Removing', c) <= active'[c] + sent'[c]
             /\ phase' = "sending" => /\ sent'[c] <= got'[c]
                                     /\ got'[c] + active'[c] <= Count(present', c)
                                     /\ inbox'[c] <= Count(Newer', c)
  <2>. DEFINE d == IF ChanOf[s] = c THEN 1 ELSE 0
  <2>1. Count(Listed, c) = Count(Listed', c) + d
    BY RemoveSets, CountAdd
  <2>2. Count(Removing, c) = Count(Removing', c) + d
    BY RemoveSets, CountAdd
  <2>3. \/ active'[c] = active[c] - d /\ sent'[c] = sent[c]
        \/ active'[c] = active[c] /\ sent'[c] = sent[c] - d
    BY <1>1 DEF IInv, TypeOK, Remove
  <2>4. d \in Nat /\ Count(Listed', c) \in Nat /\ Count(Removing', c) \in Nat
    BY RemoveSets, CountType
  <2>5. active'[c] \in Nat /\ sent'[c] \in Nat
    BY <1>3 DEF TypeOK
  <2>6. Count(Newer', c) = Count(Newer, c) /\ Count(present', c) = Count(present, c)
    BY <1>1
  <2>7. /\ inbox'[c] = inbox[c] /\ got'[c] = got[c] /\ phase' = phase
        /\ inbox[c] \in Nat /\ active[c] \in Nat /\ sent[c] \in Nat /\ got[c] \in Nat
        /\ Count(Newer, c) \in Nat /\ Count(present, c) \in Nat
    BY <1>1, Nats
  <2>. HIDE DEF d, x
  <2>8. /\ inbox'[c] + active'[c] + sent'[c] = Count(Listed', c)
        /\ Count(Removing', c) <= active'[c] + sent'[c]
    <3>1. /\ inbox[c] + active[c] + sent[c] = Count(Listed, c)
          /\ Count(Removing, c) <= active[c] + sent[c]
      BY Uses
    <3>2. inbox'[c] + active'[c] + sent'[c] = Count(Listed', c)
      <4>1. inbox[c] + active[c] + sent[c] = Count(Listed', c) + d
        BY <2>1, <3>1
      <4>2. inbox[c] + active'[c] + sent'[c] = inbox[c] + active[c] + sent[c] - d
        BY <2>3, <2>4, <2>7
      <4>3. inbox[c] + active'[c] + sent'[c] = Count(Listed', c)
        BY <2>4, <2>5, <2>7, <4>1, <4>2
      <4>4. inbox'[c] = inbox[c]
        BY <2>7
      <4>. QED  BY <4>3, <4>4, Zenon
    <3>3. Count(Removing', c) <= active'[c] + sent'[c]
      BY <2>2, <2>3, <2>4, <2>5, <2>7, <3>1
    <3>. QED  BY <3>2, <3>3
  <2>9. phase' = "sending" => /\ sent'[c] <= got'[c]
                             /\ got'[c] + active'[c] <= Count(present', c)
                             /\ inbox'[c] <= Count(Newer', c)
    BY <2>3, <2>4, <2>5, <2>6, <2>7, Uses
  <2>. QED  BY <2>8, <2>9
<1>5. phase' # "sending" => active' = None
  BY <1>1 DEF IInv, SendInv, Remove, None
<1>6. \A y \in present' : sub'[y] # "new"
  BY DEF IInv, TypeOK, Remove
<1>. QED  BY <1>3, <1>4, <1>5, <1>6, StepSuffices

LEMMA BeginInv ==
    ASSUME IInv, Begin
    PROVE  IInv'
<1>1. Listed' = Listed /\ Removing' = Removing /\ present' = Listed /\ phase' = "sending"
  BY DEF Begin, Listed, Removing
<1>2. TypeOK'
  <2>1. active' \in [Channel -> Nat]
    BY DEF IInv, TypeOK, Begin
  <2>. QED  BY <2>1, SetsType DEF IInv, TypeOK, Begin, None
<1>3. \A x \in present' : sub'[x] # "new"
  BY DEF Begin, Listed
<1>4. ASSUME NEW c \in Channel
      PROVE  /\ inbox'[c] + active'[c] + sent'[c] = Count(Listed', c)
             /\ Count(Removing', c) <= active'[c] + sent'[c]
             /\ phase' = "sending" => /\ sent'[c] <= got'[c]
                                     /\ got'[c] + active'[c] <= Count(present', c)
                                     /\ inbox'[c] <= Count(Newer', c)
  <2>1. inbox'[c] = 0 /\ active'[c] = sent[c] + inbox[c] /\ sent'[c] = 0 /\ got'[c] = 0
    BY DEF Begin, None
  <2>2. active[c] = 0
    BY DEF IInv, SendInv, Begin, None
  <2>3. Count(Newer', c) \in Nat
    <3>1. Newer' \subseteq Sub
      BY <1>1, SetsType DEF Newer
    <3>. QED  BY <3>1, CountType
  <2>. QED  BY <1>1, <2>1, <2>2, <2>3, Nats, Uses
<1>. QED  BY <1>1, <1>2, <1>3, <1>4, StepSuffices

LEMMA DeliverInv ==
    ASSUME IInv, NEW x \in Channel, Deliver(x)
    PROVE  IInv'
<1>1. /\ UNCHANGED <<sub, inbox, phase, present>> /\ phase = "sending"
      /\ Listed' = Listed /\ Removing' = Removing /\ Newer' = Newer
  BY DEF Deliver, Listed, Removing, Newer
<1>2. TypeOK'
  <2>1. /\ active' \in [Channel -> Nat] /\ sent' \in [Channel -> Nat]
        /\ got' \in [Channel -> Nat]
    BY Increment, Decrement DEF IInv, TypeOK, Deliver
  <2>. QED  BY <1>1, <2>1 DEF IInv, TypeOK
<1>3. \A y \in present' : sub'[y] # "new"
  BY <1>1, SMTT(40) DEF IInv
<1>4. ASSUME NEW c \in Channel
      PROVE  /\ inbox'[c] + active'[c] + sent'[c] = Count(Listed', c)
             /\ Count(Removing', c) <= active'[c] + sent'[c]
             /\ phase' = "sending" => /\ sent'[c] <= got'[c]
                                     /\ got'[c] + active'[c] <= Count(present', c)
                                     /\ inbox'[c] <= Count(Newer', c)
  <2>. DEFINE d == IF x = c THEN 1 ELSE 0
  <2>1. active'[c] = active[c] - d /\ sent'[c] = sent[c] + d /\ got'[c] = got[c] + d
    BY DEF IInv, TypeOK, Deliver
  <2>2. d \in Nat
    OBVIOUS
  <2>. HIDE DEF d
  <2>. QED  BY <1>1, <2>1, <2>2, Nats, Uses
<1>. QED  BY <1>1, <1>2, <1>3, <1>4, StepSuffices

LEMMA EndInv ==
    ASSUME IInv, End
    PROVE  IInv'
<1>1. /\ UNCHANGED <<sub, inbox, active, sent, present, got>> /\ phase' = "idle"
      /\ active = None
  BY DEF End
<1>2. TypeOK' /\ EntryInv'
  BY <1>1, Zenon DEF IInv, TypeOK, EntryInv, Listed, Removing
<1>. QED  BY <1>1, <1>2 DEF IInv, SendInv

\* One step keeps the invariant, whatever it is.
LEMMA NextInv == IInv /\ [Next]_vars => IInv'
<1>. SUFFICES ASSUME IInv, [Next]_vars PROVE IInv'
  OBVIOUS
<1>1. CASE UNCHANGED vars
  BY <1>1, Zenon DEF IInv, TypeOK, EntryInv, SendInv, Listed, Removing, Newer, vars
<1>2. CASE Next
  BY <1>2, SubscribeInv, CancelInv, UnsubscribeInv, RemoveInv, BeginInv, DeliverInv,
     EndInv DEF Next
<1>. QED  BY <1>1, <1>2

-----------------------------------------------------------------------------
(* The theorems. *)

LEMMA Invariance == Spec => []IInv
BY InitInv, NextInv, PTL DEF Spec

\* The lists of a feed keep their types: no removal takes out of a bag what is
\* not in it (delete in remove and Send).
THEOREM BagsKeepTypes == Spec => []TypeOK
<1>1. IInv => TypeOK
  BY DEF IInv
<1>. QED  BY <1>1, Invariance, PTL

\* An Unsubscribe that waits for the lock or for the Send in progress finds its
\* channel in sendCases (remove), also when a channel is subscribed repeatedly.
THEOREM RemovalsFindTheirEntry == Spec => []RemovalFindsEntry
<1>1. IInv => RemovalFindsEntry
  BY DEF IInv, EntryInv, RemovalFindsEntry
<1>. QED  BY <1>1, Invariance, PTL

\* Send reaches every subscription that stays and none of them twice.
THEOREM SendReachesEachOnce == Spec => EachSubscriptionOnce
<1>1. ASSUME IInv, [Next]_vars, phase = "sending", phase' = "idle", NEW c \in Channel
      PROVE  Count(present \cap Listed, c) <= got[c] /\ got[c] <= Count(present, c)
  <2>1. active[c] = 0
    BY <1>1 DEF Next, Subscribe, Cancel, Unsubscribe, Remove, Begin, Deliver, End, None, vars
  <2>2. Count(Listed, c) = Count(Listed \cap present, c) + Count(Listed \ present, c)
    <3>1. Listed \in SUBSET Sub /\ present \in SUBSET Sub
      BY <1>1, SetsType DEF IInv, TypeOK
    <3>. QED  BY <3>1, CountSplit, Zenon
  <2>3. Count(Newer, c) <= Count(Listed \ present, c)
    BY SetsType, CountMono, Newer \subseteq Listed \ present, Listed \ present \subseteq Sub
       DEF Newer
  <2>4. present \cap Listed = Listed \cap present
    OBVIOUS
  <2>5. Count(Listed \cap present, c) \in Nat /\ Count(Listed \ present, c) \in Nat
    BY SetsType, CountType, Listed \cap present \subseteq Sub, Listed \ present \subseteq Sub
  <2>6. Count(present \cap Listed, c) = Count(Listed \cap present, c)
    BY <2>4, Zenon
  <2>7. /\ inbox[c] \in Nat /\ sent[c] \in Nat /\ got[c] \in Nat
        /\ Count(Newer, c) \in Nat /\ Count(present, c) \in Nat /\ Count(Listed, c) \in Nat
    BY <1>1, Nats
  <2>8. /\ inbox[c] + active[c] + sent[c] = Count(Listed, c) /\ sent[c] <= got[c]
        /\ got[c] + active[c] <= Count(present, c) /\ inbox[c] <= Count(Newer, c)
    BY <1>1, Uses
  <2>. DEFINE both == Count(Listed \cap present, c)
              rest == Count(Listed \ present, c)
  <2>9. both <= got[c]
    <3>1. Count(Listed, c) = both + rest /\ Count(Newer, c) <= rest /\ both \in Nat /\ rest \in Nat
      BY <2>2, <2>3, <2>5
    <3>. HIDE DEF both, rest
    <3>. QED  BY <2>1, <2>7, <2>8, <3>1
  <2>10. got[c] <= Count(present, c)
    BY <2>1, <2>7, <2>8
  <2>. QED  BY <2>6, <2>9, <2>10
<1>2. IInv /\ [Next]_vars =>
        [phase = "sending" /\ phase' = "idle" =>
           \A c \in Channel : /\ Count(present \cap Listed, c) <= got[c]
                              /\ got[c] <= Count(present, c)]_vars
  BY <1>1
<1>. QED  BY <1>2, Invariance, PTL DEF Spec, EachSubscriptionOnce

\* Nothing is sent on a channel after its last Unsubscribe.
THEOREM SilenceAfterUnsubscribe == Spec => NothingAfterUnsubscribe
<1>1. ASSUME IInv, [Next]_vars, NEW c \in Channel, got'[c] > got[c]
      PROVE  Count(Listed, c) > 0
  <2>1. Deliver(c) \/ (\E x \in Channel : x # c /\ Deliver(x)) \/ got'[c] = got[c] \/ got'[c] = 0
    BY <1>1 DEF Next, Subscribe, Cancel, Unsubscribe, Remove, Begin, Deliver, End, None, vars
  <2>2. active[c] > 0
    BY <1>1, <2>1, Nats DEF Deliver, IInv, TypeOK
  <2>. QED  BY <1>1, <2>2, Nats, Uses
<1>2. IInv /\ [Next]_vars =>
        [\A c \in Channel : got'[c] > got[c] => Count(Listed, c) > 0]_vars
  BY <1>1
<1>. QED  BY <1>2, Invariance, PTL DEF Spec, NothingAfterUnsubscribe

=============================================================================
