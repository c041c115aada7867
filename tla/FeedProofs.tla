----------------------------- MODULE FeedProofs -----------------------------
(***************************************************************************)
(* Feed implements Broadcast, for any senders, channels and subscriptions: *)
(* what BroadcastProofs shows of the bags holds of the lists in feed.go.   *)
(***************************************************************************)
EXTENDS Feed, FiniteSetTheorems, SequenceTheorems, WellFoundedInduction, TLAPS

\* What the constants have to satisfy.
Sound == IsFiniteSet(Sub) /\ ChanOf \in [Sub -> Channel]

-----------------------------------------------------------------------------
(* Lists. *)

\* The natural numbers have a well-founded order.
LEMMA OrderOnNat ==
    \E R : IsWellFoundedOn(R, Nat) /\ \A x, y \in Nat : y < x => <<y, x>> \in R
  <1> DEFINE R == OpToRel(<, Nat)
  <1>1. IsWellFoundedOn(R, Nat)
    BY NatLessThanWellFounded, Zenon
  <1>2. \A x, y \in Nat : y < x => <<y, x>> \in R
    BY DEF OpToRel
  <1> HIDE DEF R
  <1> QED
    BY <1>1, <1>2, Zenon

\* A set of natural numbers has a least element.
LEMMA LeastNat ==
    ASSUME NEW T, T \subseteq Nat, T # {}
    PROVE  \E m \in T : \A k \in T : m <= k
  <1>1. PICK R : IsWellFoundedOn(R, Nat) /\ \A x, y \in Nat : y < x => <<y, x>> \in R
    BY OrderOnNat
  <1>2. PICK m \in T : \A y \in T : ~ (<<y, m>> \in R)
    BY <1>1, WFMin, Zenon
  <1>3. \A k \in T : ~(k < m)
    BY <1>1, <1>2, Zenon
  <1> QED
    BY <1>3

\* find returns the first index of a channel, or 0 if there is none.
LEMMA FindFirst ==
    ASSUME NEW s \in Seq(Channel), NEW c
    PROVE  IF \E i \in 1 .. Len(s) : s[i] = c
           THEN /\ find(s, c) \in 1 .. Len(s) /\ s[find(s, c)] = c
                /\ \A i \in 1 .. Len(s) : s[i] = c => find(s, c) <= i
           ELSE find(s, c) = 0
  <1> DEFINE I == {i \in DOMAIN s : s[i] = c}
  <1>1. find(s, c) = IF I = {} THEN 0 ELSE CHOOSE i \in I : \A j \in I : i <= j
    BY Zenon DEF find
  <1>3. DOMAIN s = 1 .. Len(s) /\ Len(s) \in Nat
    BY LenProperties
  <1>2. ASSUME I # {} PROVE find(s, c) \in I /\ \A i \in I : find(s, c) <= i
    <2>1. I \subseteq Nat
      BY <1>3
    <2>2. \E m \in I : \A i \in I : m <= i
      BY <1>2, <2>1, LeastNat, Zenon
    <2> HIDE DEF I
    <2> QED
      BY <1>1, <1>2, <2>2
  <1>4. I = {} => find(s, c) = 0
    BY <1>1, Zenon
  <1> QED
    BY <1>2, <1>3, <1>4

\* What is left of a list when the element at k is deleted.
LEMMA Deleted ==
    ASSUME NEW s \in Seq(Channel), NEW k \in 1 .. Len(s)
    PROVE  /\ delete(s, k) \in Seq(Channel) /\ Len(delete(s, k)) = Len(s) - 1
           /\ \A i \in 1 .. Len(s) - 1 : delete(s, k)[i] = IF i < k THEN s[i] ELSE s[i + 1]
  <1> DEFINE u == SubSeq(s, 1, k - 1)  v == SubSeq(s, k + 1, Len(s))
  <1>1. Len(s) \in Nat /\ k \in Nat /\ k >= 1 /\ k <= Len(s) /\ \A i \in 1 .. Len(s) : s[i] \in Channel
    BY LenProperties
  <1>2. u \in Seq(Channel) /\ Len(u) = k - 1 /\ \A i \in 1 .. k - 1 : u[i] = s[i]
    <2>1. 1 \in Int /\ k - 1 \in Int /\ \A i \in 1 .. k - 1 : s[i] \in Channel
      BY <1>1
    <2>2. /\ SubSeq(s, 1, k - 1) \in Seq(Channel)
          /\ Len(SubSeq(s, 1, k - 1)) = IF 1 <= k - 1 THEN (k - 1) - 1 + 1 ELSE 0
          /\ \A i \in 1 .. (k - 1) - 1 + 1 : SubSeq(s, 1, k - 1)[i] = s[1 + i - 1]
      BY <2>1, SubSeqProperties
    <2> QED
      BY <1>1, <2>2
  <1>3. v \in Seq(Channel) /\ Len(v) = Len(s) - k /\ \A i \in 1 .. Len(s) - k : v[i] = s[k + i]
    <2>1. k + 1 \in Int /\ Len(s) \in Int /\ \A i \in k + 1 .. Len(s) : s[i] \in Channel
      BY <1>1
    <2>2. /\ SubSeq(s, k + 1, Len(s)) \in Seq(Channel)
          /\ Len(SubSeq(s, k + 1, Len(s))) = IF k + 1 <= Len(s) THEN Len(s) - (k + 1) + 1 ELSE 0
          /\ \A i \in 1 .. Len(s) - (k + 1) + 1 : SubSeq(s, k + 1, Len(s))[i] = s[(k + 1) + i - 1]
      BY <2>1, SubSeqProperties
    <2>3. Len(v) = Len(s) - k
      BY <1>1, <2>2
    <2>4. \A i \in 1 .. Len(s) - k : v[i] = s[k + i]
      BY <1>1, <2>2
    <2> QED
      BY <2>2, <2>3, <2>4
  <1>4. delete(s, k) = u \o v
    BY DEF delete
  <1> HIDE DEF u, v
  <1>5. /\ u \o v \in Seq(Channel) /\ Len(u \o v) = Len(s) - 1
        /\ \A i \in 1 .. Len(s) - 1 : (u \o v)[i] = IF i <= k - 1 THEN u[i] ELSE v[i - (k - 1)]
    <2>1. /\ u \o v \in Seq(Channel) /\ Len(u \o v) = Len(u) + Len(v)
          /\ \A i \in 1 .. Len(u) + Len(v) : (u \o v)[i] = IF i <= Len(u) THEN u[i] ELSE v[i - Len(u)]
      BY <1>2, <1>3, ConcatProperties, Zenon
    <2>2. Len(u) + Len(v) = Len(s) - 1
      BY <1>1, <1>2, <1>3
    <2> QED
      BY <1>2, <2>1, <2>2
  <1>6. \A i \in 1 .. Len(s) - 1 : (u \o v)[i] = IF i < k THEN s[i] ELSE s[i + 1]
    <2> SUFFICES ASSUME NEW i \in 1 .. Len(s) - 1 PROVE (u \o v)[i] = IF i < k THEN s[i] ELSE s[i + 1]
      BY Zenon
    <2>1. CASE i < k
      BY <1>1, <1>2, <1>5, <2>1
    <2>2. CASE ~(i < k)
      <3>1. i - (k - 1) \in 1 .. Len(s) - k /\ k + (i - (k - 1)) = i + 1
        BY <1>1, <2>2
      <3> QED
        BY <1>1, <1>3, <1>5, <2>2, <3>1
    <2> QED
      BY <2>1, <2>2, Zenon
  <1> QED
    BY <1>4, <1>5, <1>6, Zenon

\* deactivate exchanges two elements.
LEMMA Deactivated ==
    ASSUME NEW s \in Seq(Channel), NEW i \in 1 .. Len(s), NEW n \in 1 .. Len(s)
    PROVE  /\ deactivate(s, i, n) \in Seq(Channel) /\ Len(deactivate(s, i, n)) = Len(s)
           /\ \A j \in 1 .. Len(s) : deactivate(s, i, n)[j] = IF j = n THEN s[i] ELSE IF j = i THEN s[n] ELSE s[j]
  <1> DEFINE u == [s EXCEPT ![i] = s[n]]
  <1>1. s[i] \in Channel /\ s[n] \in Channel
    BY LenProperties
  <1>2. u \in Seq(Channel) /\ Len(u) = Len(s) /\ \A j \in 1 .. Len(s) : u[j] = IF j = i THEN s[n] ELSE s[j]
    BY <1>1, ExceptSeq
  <1>3. deactivate(s, i, n) = [u EXCEPT ![n] = s[i]]
    BY DEF deactivate
  <1> HIDE DEF u
  <1>4. /\ [u EXCEPT ![n] = s[i]] \in Seq(Channel) /\ Len([u EXCEPT ![n] = s[i]]) = Len(u)
        /\ \A j \in 1 .. Len(u) : [u EXCEPT ![n] = s[i]][j] = IF j = n THEN s[i] ELSE u[j]
    BY <1>1, <1>2, ExceptSeq
  <1> QED
    BY <1>2, <1>3, <1>4

-----------------------------------------------------------------------------
(* Bags: how often each channel is at an index of I. *)

\* Occurrences counts, and depends only on what is at the indexes.
LEMMA OccType ==
    ASSUME NEW s, NEW I, IsFiniteSet(I)
    PROVE  Occurrences(s, I) \in [Channel -> Nat]
  <1>1. \A c \in Channel : Cardinality({i \in I : s[i] = c}) \in Nat
    <2> SUFFICES ASSUME NEW c \in Channel PROVE Cardinality({i \in I : s[i] = c}) \in Nat
      OBVIOUS
    <2>1. {i \in I : s[i] = c} \subseteq I
      OBVIOUS
    <2> QED
      BY <2>1, FS_Subset, FS_CardinalityType
  <1> QED
    BY <1>1 DEF Occurrences

LEMMA OccSame ==
    ASSUME NEW s, NEW t, NEW I, \A i \in I : s[i] = t[i]
    PROVE  Occurrences(s, I) = Occurrences(t, I)
  <1>1. \A c \in Channel : {i \in I : s[i] = c} = {i \in I : t[i] = c}
    OBVIOUS
  <1> QED
    BY <1>1 DEF Occurrences

LEMMA OccEmpty ==
    ASSUME NEW s
    PROVE  Occurrences(s, {}) = [c \in Channel |-> 0]
  <1>1. \A c : {i \in {} : s[i] = c} = {}
    OBVIOUS
  <1> QED
    BY <1>1, FS_EmptySet DEF Occurrences

\* One more index.
LEMMA OccAdd ==
    ASSUME NEW s, NEW I, IsFiniteSet(I), NEW k, k \notin I, s[k] \in Channel
    PROVE  \A c \in Channel :
              Occurrences(s, I \cup {k})[c] = Occurrences(s, I)[c] + (IF c = s[k] THEN 1 ELSE 0)
  <1> SUFFICES ASSUME NEW c \in Channel
               PROVE  Occurrences(s, I \cup {k})[c] = Occurrences(s, I)[c] + (IF c = s[k] THEN 1 ELSE 0)
    OBVIOUS
  <1> DEFINE Of(J) == {i \in J : s[i] = c}
  <1>1. Occurrences(s, I \cup {k})[c] = Cardinality(Of(I \cup {k})) /\ Occurrences(s, I)[c] = Cardinality(Of(I))
    BY DEF Occurrences
  <1>2. IsFiniteSet(Of(I)) /\ Cardinality(Of(I)) \in Nat
    <2>1. Of(I) \subseteq I
      OBVIOUS
    <2> QED
      BY <2>1, FS_Subset, FS_CardinalityType
  <1>3. CASE s[k] = c
    <2>1. Of(I \cup {k}) = Of(I) \cup {k} /\ k \notin Of(I)
      BY <1>3
    <2>2. Cardinality(Of(I) \cup {k}) = Cardinality(Of(I)) + 1
      BY <1>2, <2>1, FS_AddElement, Zenon
    <2> HIDE DEF Of
    <2> QED
      BY <1>1, <1>2, <1>3, <2>1, <2>2, Zenon
  <1>4. CASE s[k] # c
    <2>1. Of(I \cup {k}) = Of(I)
      BY <1>4
    <2> HIDE DEF Of
    <2> QED
      BY <1>1, <1>2, <1>4, <2>1
  <1> QED
    BY <1>3, <1>4

\* Two disjoint sets of indexes.
LEMMA OccUnion ==
    ASSUME NEW s, NEW I, NEW J, IsFiniteSet(I), IsFiniteSet(J), I \cap J = {}
    PROVE  \A c \in Channel : Occurrences(s, I \cup J)[c] = Occurrences(s, I)[c] + Occurrences(s, J)[c]
  <1> SUFFICES ASSUME NEW c \in Channel
               PROVE  Occurrences(s, I \cup J)[c] = Occurrences(s, I)[c] + Occurrences(s, J)[c]
    OBVIOUS
  <1> DEFINE Of(K) == {i \in K : s[i] = c}
  <1>1. /\ Occurrences(s, I \cup J)[c] = Cardinality(Of(I \cup J))
        /\ Occurrences(s, I)[c] = Cardinality(Of(I)) /\ Occurrences(s, J)[c] = Cardinality(Of(J))
    BY DEF Occurrences
  <1>2. /\ IsFiniteSet(Of(I)) /\ Cardinality(Of(I)) \in Nat
        /\ IsFiniteSet(Of(J)) /\ Cardinality(Of(J)) \in Nat
    <2>1. Of(I) \subseteq I /\ Of(J) \subseteq J
      OBVIOUS
    <2> QED
      BY <2>1, FS_Subset, FS_CardinalityType
  <1>3. Of(I \cup J) = Of(I) \cup Of(J) /\ Of(I) \cap Of(J) = {}
    OBVIOUS
  <1> HIDE DEF Of
  <1>4. Cardinality(Of(I) \cup Of(J)) = Cardinality(Of(I)) + Cardinality(Of(J)) - Cardinality(Of(I) \cap Of(J))
    BY <1>2, FS_Union
  <1>5. Cardinality({}) = 0
    BY FS_EmptySet
  <1>6. Cardinality(Of(I \cup J)) = Cardinality(Of(I)) + Cardinality(Of(J)) - Cardinality({})
    BY <1>3, <1>4, Zenon
  <1> QED
    BY <1>1, <1>2, <1>5, <1>6

\* The elements of t from a to b are in s at indexes that are d higher.
Shifted(t, s, a, b, d) ==
    a \in Int /\ b \in Int /\ d \in Int /\ \A i \in a .. b : t[i] = s[i + d]

LEMMA OccShift ==
    ASSUME NEW s, NEW t, NEW a, NEW b, NEW d, Shifted(t, s, a, b, d)
    PROVE  Occurrences(t, a .. b) = Occurrences(s, a + d .. b + d)
  <1> USE DEF Shifted
  <1>1. ASSUME NEW c \in Channel
        PROVE  Cardinality({i \in a .. b : t[i] = c}) = Cardinality({i \in a + d .. b + d : s[i] = c})
    <2> DEFINE S == {i \in a .. b : t[i] = c}  T == {i \in a + d .. b + d : s[i] = c}
               f == [i \in S |-> i + d]
    <2>1. IsFiniteSet(S)
      BY FS_Interval, FS_Subset, S \subseteq a .. b, Zenon
    <2>2. f \in [S -> T]
      OBVIOUS
    <2>3. \A i, j \in S : f[i] = f[j] => i = j
      OBVIOUS
    <2>4. \A j \in T : \E i \in S : f[i] = j
      <3> SUFFICES ASSUME NEW j \in T PROVE \E i \in S : f[i] = j
        OBVIOUS
      <3>1. j - d \in S
        <4>1. j - d \in a .. b /\ (j - d) + d = j
          OBVIOUS
        <4> QED
          BY <4>1
      <3> QED
        BY <3>1
    <2> HIDE DEF S, T, f
    <2>7. DOMAIN f = S
      BY <2>2
    <2>5. f \in Bijection(S, T)
      BY <2>2, <2>3, <2>4, <2>7, ZenonT(40) DEF Bijection, Injection, Surjection, IsInjective
    <2>6. Cardinality(T) = Cardinality(S)
      BY <2>1, <2>5, FS_Bijection DEF ExistsBijection
    <2> QED
      BY <2>6 DEF S, T
  <1> QED
    BY <1>1 DEF Occurrences

\* A bag with one x more, and one less.
More(f, x) == [f EXCEPT ![x] = @ + 1]
Less(f, x) == [f EXCEPT ![x] = @ - 1]

LEMMA BagEqual ==
    ASSUME NEW f \in [Channel -> Nat], NEW g \in [Channel -> Nat], \A c \in Channel : f[c] = g[c]
    PROVE  f = g
  OBVIOUS

LEMMA BagMore ==
    ASSUME NEW f \in [Channel -> Nat], NEW g \in [Channel -> Nat], NEW x \in Channel,
           \A c \in Channel : g[c] = f[c] + (IF c = x THEN 1 ELSE 0)
    PROVE  g = More(f, x) /\ f = Less(g, x)
  BY DEF More, Less

LEMMA OccOne ==
    ASSUME NEW s, NEW I, IsFiniteSet(I), NEW k, k \notin I, s[k] \in Channel
    PROVE  /\ Occurrences(s, I \cup {k}) = More(Occurrences(s, I), s[k])
           /\ Occurrences(s, I) = Less(Occurrences(s, I \cup {k}), s[k])
  <1> DEFINE f == Occurrences(s, I)  g == Occurrences(s, I \cup {k})  x == s[k]
  <1>1. IsFiniteSet(I \cup {k})
    BY FS_AddElement
  <1>2. f \in [Channel -> Nat] /\ g \in [Channel -> Nat] /\ x \in Channel
    BY <1>1, OccType
  <1>3. \A c \in Channel : g[c] = f[c] + (IF c = x THEN 1 ELSE 0)
    BY OccAdd
  <1> HIDE DEF f, g, x
  <1>4. g = More(f, x) /\ f = Less(g, x)
    BY <1>2, <1>3, BagMore, ZenonT(40)
  <1> QED
    BY <1>4 DEF f, g, x

\* Every interval is finite.
LEMMA Intervals == \A a, b \in Int : IsFiniteSet(a .. b)
  BY FS_Interval

-----------------------------------------------------------------------------
(* What the operations on lists do to the bags. *)

\* Append in Subscribe.
LEMMA AppendOcc ==
    ASSUME NEW s \in Seq(Channel), NEW x \in Channel
    PROVE  Occurrences(Append(s, x), 1 .. Len(Append(s, x))) = More(Occurrences(s, 1 .. Len(s)), x)
  <1> DEFINE t == Append(s, x)  n == Len(s)  k == n + 1  I == 1 .. n  J == 1 .. Len(t)
  <1>1. n \in Nat /\ Len(t) = n + 1 /\ t[k] = x /\ \A i \in I : s[i] = t[i]
    BY AppendProperties, LenProperties
  <1>2. J = I \cup {k} /\ k \notin I
    BY <1>1
  <1>3. IsFiniteSet(I)
    BY <1>1, FS_Interval
  <1> HIDE DEF t, n, k, I, J
  <1>4. Occurrences(s, I) = Occurrences(t, I)
    BY <1>1, OccSame
  <1>5. Occurrences(t, I \cup {k}) = More(Occurrences(t, I), t[k])
    <2>1. t[k] \in Channel
      BY <1>1
    <2> QED
      BY <1>2, <1>3, <2>1, OccOne, ZenonT(40)
  <1>6. Occurrences(t, J) = More(Occurrences(s, I), x)
    BY <1>1, <1>2, <1>4, <1>5, Zenon
  <1> QED
    BY <1>6, Zenon DEF t, n, I, J

\* The concatenation in Send.
LEMMA ConcatOcc ==
    ASSUME NEW s \in Seq(Channel), NEW t \in Seq(Channel)
    PROVE  \A c \in Channel : Occurrences(s \o t, 1 .. Len(s \o t))[c]
                                 = Occurrences(s, 1 .. Len(s))[c] + Occurrences(t, 1 .. Len(t))[c]
  <1> DEFINE u == s \o t  m == Len(s)  n == Len(t)  A == 1 .. m  N == 1 .. n  C == 1 + m .. n + m  U == 1 .. Len(u)
  <1>1. /\ m \in Nat /\ n \in Nat /\ Len(u) = m + n
        /\ \A i \in 1 .. m + n : u[i] = IF i <= m THEN s[i] ELSE t[i - m]
    BY ConcatProperties, LenProperties
  <1> HIDE DEF u, m, n
  <1>2. U = A \cup C /\ A \cap C = {}
    BY <1>1
  <1>3. IsFiniteSet(A) /\ IsFiniteSet(C)
    BY <1>1, FS_Interval
  <1>4. Occurrences(u, A) = Occurrences(s, A)
    <2>1. \A i \in A : u[i] = s[i]
      BY <1>1
    <2> HIDE DEF A
    <2> QED
      BY <2>1, OccSame
  <1>5. Occurrences(t, N) = Occurrences(u, C)
    <2>1. \A i \in 1 .. n : t[i] = u[i + m]
      <3> SUFFICES ASSUME NEW i \in 1 .. n PROVE t[i] = u[i + m]
        OBVIOUS
      <3>1. i + m \in 1 .. m + n /\ ~(i + m <= m) /\ (i + m) - m = i
        BY <1>1
      <3> QED
        BY <1>1, <3>1
    <2>2. Shifted(t, u, 1, n, m)
      BY <1>1, <2>1 DEF Shifted
    <2> QED
      BY <2>2, OccShift
  <1> HIDE DEF A, N, C, U
  <1>6. \A c \in Channel : Occurrences(u, A \cup C)[c] = Occurrences(u, A)[c] + Occurrences(u, C)[c]
    BY <1>2, <1>3, OccUnion
  <1>7. \A c \in Channel : Occurrences(u, U)[c] = Occurrences(s, A)[c] + Occurrences(t, N)[c]
    BY <1>2, <1>4, <1>5, <1>6, Zenon
  <1> QED
    BY <1>7, Zenon DEF U, A, N, u, m, n

\* Deleting the element at k takes it out of the bag of the part that it is in.
LEMMA DeleteInside ==
    ASSUME NEW s \in Seq(Channel), NEW k \in 1 .. Len(s), NEW a \in 1 .. k, NEW b \in k .. Len(s)
    PROVE  Occurrences(delete(s, k), a .. b - 1) = Less(Occurrences(s, a .. b), s[k])
  <1> DEFINE t == delete(s, k)  m == Len(s)
             L == a .. k - 1  M == k .. b - 1  H == k + 1 .. (b - 1) + 1  New == a .. b - 1  Old == a .. b
  <1>1. /\ m \in Nat /\ k \in Int /\ a \in Int /\ b \in Int /\ 1 <= a /\ a <= k /\ k <= b /\ b <= m
        /\ s[k] \in Channel
    BY LenProperties
  <1>2. \A i \in 1 .. m - 1 : t[i] = IF i < k THEN s[i] ELSE s[i + 1]
    BY Deleted
  <1> HIDE DEF t, m
  <1>3. k - 1 \in Int /\ b - 1 \in Int /\ k + 1 \in Int /\ (b - 1) + 1 \in Int /\ 1 \in Int
    BY <1>1
  <1>4. IsFiniteSet(L) /\ IsFiniteSet(M) /\ IsFiniteSet(H)
    BY <1>1, <1>3, Intervals, Zenon
  <1>5. New = L \cup M /\ L \cap M = {}
    BY <1>1
  <1>6. Old = (L \cup H) \cup {k} /\ L \cap H = {} /\ k \notin L \cup H
    BY <1>1
  <1>7. \A i \in L : t[i] = s[i]
    BY <1>1, <1>2
  <1>8. Occurrences(t, M) = Occurrences(s, H)
    <2>1. \A i \in k .. b - 1 : t[i] = s[i + 1]
      BY <1>1, <1>2
    <2>2. Shifted(t, s, k, b - 1, 1)
      BY <1>1, <1>3, <2>1, ZenonT(40) DEF Shifted
    <2> QED
      BY <2>2, OccShift
  <1> HIDE DEF L, M, H, New, Old
  <1>9. Occurrences(t, L) = Occurrences(s, L)
    BY <1>7, OccSame
  <1>10. IsFiniteSet(L \cup H) /\ IsFiniteSet(L \cup M)
    BY <1>4, FS_Union, Zenon
  <1>11. Occurrences(t, L \cup M) = Occurrences(s, L \cup H)
    <2>1. \A c \in Channel : Occurrences(t, L \cup M)[c] = Occurrences(t, L)[c] + Occurrences(t, M)[c]
      BY <1>4, <1>5, OccUnion
    <2>2. \A c \in Channel : Occurrences(s, L \cup H)[c] = Occurrences(s, L)[c] + Occurrences(s, H)[c]
      BY <1>4, <1>6, OccUnion
    <2>3. Occurrences(t, L \cup M) \in [Channel -> Nat] /\ Occurrences(s, L \cup H) \in [Channel -> Nat]
      BY <1>10, OccType, Zenon
    <2>4. \A c \in Channel : Occurrences(t, L \cup M)[c] = Occurrences(s, L \cup H)[c]
      BY <1>8, <1>9, <2>1, <2>2, Zenon
    <2> QED
      BY <2>3, <2>4, BagEqual, Zenon
  <1>12. Occurrences(s, L \cup H) = Less(Occurrences(s, (L \cup H) \cup {k}), s[k])
    BY <1>1, <1>6, <1>10, OccOne, ZenonT(40)
  <1>13. Occurrences(t, New) = Less(Occurrences(s, Old), s[k])
    BY <1>5, <1>6, <1>11, <1>12, Zenon
  <1> QED
    BY <1>13, Zenon DEF t, New, Old

\* What lies before and behind the deleted element stays.
LEMMA DeleteBehind ==
    ASSUME NEW s \in Seq(Channel), NEW k \in 1 .. Len(s), NEW n \in 0 .. k - 1
    PROVE  Occurrences(delete(s, k), 1 .. n) = Occurrences(s, 1 .. n)
  <1> DEFINE t == delete(s, k)  m == Len(s)  I == 1 .. n
  <1>1. m \in Nat /\ k \in Int /\ n \in Int /\ 1 <= k /\ k <= m /\ 0 <= n /\ n < k
    BY LenProperties
  <1>2. \A i \in 1 .. m - 1 : t[i] = IF i < k THEN s[i] ELSE s[i + 1]
    BY Deleted
  <1> HIDE DEF t, m
  <1>3. \A i \in I : t[i] = s[i]
    BY <1>1, <1>2
  <1> HIDE DEF I
  <1> QED
    BY <1>3, OccSame DEF t, I

LEMMA DeleteBefore ==
    ASSUME NEW s \in Seq(Channel), NEW k \in 1 .. Len(s), NEW n \in k .. Len(s)
    PROVE  Occurrences(delete(s, k), n .. Len(s) - 1) = Occurrences(s, n + 1 .. Len(s))
  <1> DEFINE t == delete(s, k)  m == Len(s)
  <1>1. m \in Nat /\ k \in Int /\ n \in Int /\ 1 <= k /\ k <= m /\ k <= n /\ n <= m
    BY LenProperties
  <1>2. \A i \in 1 .. m - 1 : t[i] = IF i < k THEN s[i] ELSE s[i + 1]
    BY Deleted
  <1> HIDE DEF t, m
  <1>3. \A i \in n .. m - 1 : t[i] = s[i + 1]
    BY <1>1, <1>2
  <1>4. m - 1 \in Int /\ 1 \in Int /\ (m - 1) + 1 = m
    BY <1>1
  <1>5. Occurrences(t, n .. m - 1) = Occurrences(s, n + 1 .. (m - 1) + 1)
    <2>1. Shifted(t, s, n, m - 1, 1)
      BY <1>1, <1>3, <1>4, ZenonT(40) DEF Shifted
    <2> QED
      BY <2>1, OccShift
  <1>6. Occurrences(t, n .. m - 1) = Occurrences(s, n + 1 .. m)
    BY <1>4, <1>5, Zenon
  <1> QED
    BY <1>6, Zenon DEF t, m

\* deactivate moves the element at i from the first n to those behind.
LEMMA DeactivateOcc ==
    ASSUME NEW s \in Seq(Channel), NEW n \in 1 .. Len(s), NEW i \in 1 .. n
    PROVE  /\ Occurrences(deactivate(s, i, n), 1 .. n - 1) = Less(Occurrences(s, 1 .. n), s[i])
           /\ Occurrences(deactivate(s, i, n), n .. Len(s)) = More(Occurrences(s, n + 1 .. Len(s)), s[i])
  <1> DEFINE t == deactivate(s, i, n)  m == Len(s)
             I == 1 .. n  H == n + 1 .. m  J == n .. m  M == 1 .. n - 1  K == I \ {i}
  <1>1. /\ m \in Nat /\ n \in Int /\ i \in Int /\ 1 <= i /\ i <= n /\ n <= m
        /\ s[i] \in Channel /\ s[n] \in Channel /\ i \in 1 .. m
    BY LenProperties
  <1>2. \A j \in 1 .. m : t[j] = IF j = n THEN s[i] ELSE IF j = i THEN s[n] ELSE s[j]
    BY <1>1, Deactivated
  <1> HIDE DEF t, m
  <1>3. n + 1 \in Int /\ n - 1 \in Int /\ 1 \in Int /\ m \in Int
    BY <1>1
  <1>4. IsFiniteSet(I) /\ IsFiniteSet(H) /\ IsFiniteSet(M)
    BY <1>1, <1>3, Intervals, Zenon
  <1>5. Occurrences(t, M) = Less(Occurrences(s, I), s[i])
    <2>1. I = K \cup {i} /\ i \notin K /\ K \subseteq I
      BY <1>1
    <2>2. IsFiniteSet(K)
      BY <1>4, <2>1, FS_Subset, Zenon
    <2>3. Occurrences(s, K) = Less(Occurrences(s, I), s[i])
      <3> HIDE DEF I, K
      <3>1. Occurrences(s, K) = Less(Occurrences(s, K \cup {i}), s[i])
        BY <1>1, <2>1, <2>2, OccOne, Zenon
      <3> QED
        BY <2>1, <3>1, Zenon
    \* The first n - 1 elements are the first n without the one at i, in another order.
    <2>4. Occurrences(t, M) = Occurrences(s, K)
      <3>1. CASE i = n
        <4>1. M = K /\ \A j \in K : t[j] = s[j]
          BY <1>1, <1>2, <3>1
        <4> HIDE DEF M, K
        <4> QED
          BY <4>1, OccSame, ZenonT(40)
      <3>2. CASE i # n
        <4> DEFINE L == M \ {i}
        <4>1. M = L \cup {i} /\ i \notin L /\ K = L \cup {n} /\ n \notin L /\ L \subseteq M
          BY <1>1, <3>2
        <4>2. \A j \in L : t[j] = s[j]
          BY <1>1, <1>2
        <4>3. t[i] = s[n]
          BY <1>1, <1>2, <3>2, ZenonT(40)
        <4> HIDE DEF L, M, K
        <4>4. IsFiniteSet(L)
          BY <1>4, <4>1, FS_Subset, ZenonT(40)
        <4>5. Occurrences(t, L) = Occurrences(s, L)
          BY <4>2, OccSame
        <4>6. Occurrences(t, L \cup {i}) = More(Occurrences(t, L), t[i])
          BY <1>1, <4>1, <4>3, <4>4, OccOne, ZenonT(40)
        <4>7. Occurrences(s, L \cup {n}) = More(Occurrences(s, L), s[n])
          BY <1>1, <4>1, <4>4, OccOne, ZenonT(40)
        <4> QED
          BY <4>1, <4>3, <4>5, <4>6, <4>7, Zenon
      <3> QED
        BY <3>1, <3>2
    <2> HIDE DEF I, K, M
    <2> QED
      BY <2>3, <2>4, Zenon
  <1>6. Occurrences(t, J) = More(Occurrences(s, H), s[i])
    <2>1. J = H \cup {n} /\ n \notin H
      BY <1>1
    <2>2. t[n] = s[i]
      BY <1>1, <1>2
    <2>3. \A j \in H : t[j] = s[j]
      BY <1>1, <1>2
    <2> HIDE DEF J, H
    <2>4. Occurrences(t, H) = Occurrences(s, H)
      BY <2>3, OccSame
    <2>5. t[n] \in Channel
      BY <1>1, <2>2
    <2>6. Occurrences(t, H \cup {n}) = More(Occurrences(t, H), t[n])
      BY <1>4, <2>1, <2>5, OccOne, ZenonT(40)
    <2> QED
      BY <2>1, <2>2, <2>4, <2>6, Zenon
  <1> QED
    BY <1>5, <1>6, Zenon DEF t, m, I, H, J, M

\* A channel is counted exactly if it is there.
LEMMA OccNone ==
    ASSUME NEW s, NEW a \in Int, NEW b \in Int, NEW c \in Channel
    PROVE  /\ Occurrences(s, a .. b)[c] \in Nat
           /\ Occurrences(s, a .. b)[c] = 0 <=> \A i \in a .. b : s[i] # c
  <1> DEFINE J == a .. b  I == {i \in J : s[i] = c}
  <1>1. IsFiniteSet(J)
    BY FS_Interval
  <1> HIDE DEF J
  <1>2. IsFiniteSet(I)
    BY <1>1, FS_Subset, I \subseteq J
  <1>3. Occurrences(s, J)[c] = Cardinality(I)
    BY DEF Occurrences
  <1>4. Cardinality(I) \in Nat /\ (Cardinality(I) = 0 <=> I = {})
    BY <1>2, FS_EmptySet, FS_CardinalityType
  <1> QED
    BY <1>3, <1>4 DEF J

-----------------------------------------------------------------------------
(* The refinement mapping, and what is needed of Feed itself. *)

In == Occurrences(inbox, 1 .. Len(inbox))
Act == Occurrences(sendCases, 1 .. ToSend)
Sent == Occurrences(sendCases, (ToSend + 1) .. Len(sendCases))
Phase == IF sendLock THEN "idle" ELSE "sending"

\* There is an entry for Unsubscribe to strike out.
HasEntry(s) == Act[ChanOf[s]] > 0 \/ Sent[ChanOf[s]] > 0

Busy(p) == send[p].at # "idle"

\* Exactly one Send is busy while the lock is taken, and its slice is a part of
\* sendCases.
FInv ==
    /\ sub \in [Sub -> {"new", "live", "removing", "gone"}]
    /\ inbox \in Seq(Channel) /\ sendCases \in Seq(Channel)
    /\ sendLock \in BOOLEAN
    /\ send \in [Sender -> [at : {"idle", "try", "select"}, n : Nat, i : Nat \ {0}]]
    /\ \A p \in Sender : Busy(p) => sendLock = FALSE /\ send[p].n <= Len(sendCases)
    /\ \A p, q \in Sender : Busy(p) /\ Busy(q) => p = q
    /\ sendLock = FALSE => \E p \in Sender : Busy(p)

\* The Send that is busy is the holder of the lock.
LEMMA HolderIs ==
    ASSUME FInv, NEW p \in Sender, Busy(p)
    PROVE  /\ ToSend = send[p].n /\ sendLock = FALSE /\ Phase = "sending"
           /\ ToSend \in 0 .. Len(sendCases) /\ Len(sendCases) \in Nat
  <1>1. Holder = p
    BY Zenon DEF FInv, Holder, Busy, At
  <1>2. sendLock = FALSE /\ send[p].n \in Nat /\ send[p].n <= Len(sendCases) /\ Len(sendCases) \in Nat
    BY LenProperties DEF FInv
  <1> QED
    BY <1>1, <1>2 DEF ToSend, Phase

LEMMA HolderNext ==
    ASSUME FInv', NEW p \in Sender, Busy(p)'
    PROVE  ToSend' = send'[p].n /\ sendLock' = FALSE /\ Phase' = "sending"
  <1>1. Holder' = p
    BY Zenon DEF FInv, Holder, Busy, At
  <1>2. sendLock' = FALSE
    BY DEF FInv
  <1> QED
    BY <1>1, <1>2 DEF ToSend, Phase

\* Between two calls of Send everything lies behind the slice.
LEMMA Unlocked ==
    ASSUME FInv, sendLock = TRUE
    PROVE  /\ ToSend = 0 /\ Phase = "idle" /\ Act = [c \in Channel |-> 0]
           /\ Sent = Occurrences(sendCases, 1 .. Len(sendCases))
  <1>1. ToSend = 0 /\ Phase = "idle"
    BY DEF ToSend, Phase
  <1>2. 1 .. 0 = {} /\ 0 + 1 = 1
    OBVIOUS
  <1>3. Act = Occurrences(sendCases, {})
    BY <1>1, <1>2, Zenon DEF Act
  <1>4. Sent = Occurrences(sendCases, 1 .. Len(sendCases))
    BY <1>1, <1>2, Zenon DEF Sent
  <1> QED
    BY <1>1, <1>3, <1>4, OccEmpty, ZenonT(40)

LEMMA Unmoved ==
    ASSUME UNCHANGED <<sendCases, sendLock, send>>
    PROVE  Act' = Act /\ Sent' = Sent /\ Phase' = Phase
  BY DEF Act, Sent, Phase, ToSend, Holder, At

\* The bags are bags.
LEMMA BagTypes ==
    ASSUME FInv
    PROVE  In \in [Channel -> Nat] /\ Act \in [Channel -> Nat] /\ Sent \in [Channel -> Nat]
  <1>1. Len(inbox) \in Int /\ Len(sendCases) \in Int /\ ToSend \in Int
    <2>1. Len(inbox) \in Int /\ Len(sendCases) \in Int
      BY LenProperties DEF FInv
    <2>2. CASE sendLock = TRUE
      BY <2>1, <2>2 DEF ToSend
    <2>3. CASE sendLock = FALSE
      <3>1. PICK p \in Sender : Busy(p)
        BY <2>3 DEF FInv
      <3>2. ToSend \in 0 .. Len(sendCases)
        BY <3>1, HolderIs, Zenon
      <3> QED
        BY <2>1, <3>2
    <2> QED
      BY <2>1, <2>2, <2>3, Zenon DEF FInv
  <1>2. IsFiniteSet(1 .. Len(inbox)) /\ IsFiniteSet(1 .. ToSend) /\ IsFiniteSet((ToSend + 1) .. Len(sendCases))
    <2>1. 1 \in Int /\ ToSend + 1 \in Int
      BY <1>1
    <2> QED
      BY <1>1, <2>1, Intervals, Zenon
  <1> QED
    BY <1>2, OccType DEF In, Act, Sent


-----------------------------------------------------------------------------
(* Every step of Feed is a step of Broadcast, and keeps FInv. *)

LEMMA SubscribeSim ==
    ASSUME Sound, FInv, NEW s \in Sub, Subscribe(s)
    PROVE  FInv' /\ B!Subscribe(s)
  <1>1. ChanOf[s] \in Channel /\ inbox' \in Seq(Channel)
    BY AppendProperties, ZenonT(40) DEF Sound, FInv, Subscribe
  <1>2. FInv'
    BY <1>1 DEF FInv, Subscribe, Busy
  <1>3. In' = More(In, ChanOf[s])
    BY <1>1, AppendOcc DEF In, FInv, Subscribe
  <1>4. Act' = Act /\ Sent' = Sent /\ Phase' = Phase
    BY Unmoved DEF Subscribe
  <1> QED
    BY <1>2, <1>3, <1>4, ZenonT(40) DEF In, Act, Sent, Phase, More, Subscribe, B!Subscribe

\* remove strikes the channel out of the inbox, or finds it elsewhere later.
LEMMA removeSim ==
    ASSUME Sound, FInv, NEW s \in Sub, remove(s)
    PROVE  FInv' /\ (B!Cancel(s) \/ B!Unsubscribe(s))
  <1> DEFINE c == ChanOf[s]  k == find(inbox, c)
  <1>1. c \in Channel /\ Len(inbox) \in Nat /\ inbox \in Seq(Channel)
    BY LenProperties DEF Sound, FInv
  <1>2. Act' = Act /\ Sent' = Sent /\ Phase' = Phase
    BY Unmoved, ZenonT(40) DEF remove
  <1>3. In[c] \in Nat /\ (In[c] = 0 <=> \A i \in 1 .. Len(inbox) : inbox[i] # c)
    BY <1>1, OccNone DEF In
  <1>4. CASE k # 0
    <2>1. inbox' = delete(inbox, k) /\ sub' = [sub EXCEPT ![s] = "gone"] /\ sub[s] = "live"
      BY <1>4, Zenon DEF remove
    <2>2. k \in 1 .. Len(inbox) /\ inbox[k] = c
      BY <1>1, <1>4, FindFirst, Zenon
    <2> HIDE DEF c, k
    <2>3. Len(inbox') = Len(inbox) - 1 /\ inbox' \in Seq(Channel)
      BY <1>1, <2>1, <2>2, Deleted, Zenon
    <2>4. In' = Less(In, c)
      <3>1. 1 \in 1 .. k /\ Len(inbox) \in k .. Len(inbox)
        BY <1>1, <2>2
      <3>2. Occurrences(delete(inbox, k), 1 .. Len(inbox) - 1) = Less(Occurrences(inbox, 1 .. Len(inbox)), inbox[k])
        BY <1>1, <2>2, <3>1, DeleteInside, ZenonT(40)
      <3> QED
        BY <2>1, <2>2, <2>3, <3>2, Zenon DEF In
    <2>5. In[c] > 0
      BY <1>3, <2>2
    <2>6. FInv'
      BY <2>1, <2>3, ZenonT(40) DEF FInv, remove, Busy
    <2>7. B!Cancel(s)
      BY <1>2, <2>1, <2>4, <2>5, ZenonT(40) DEF c, In, Act, Sent, Phase, Less, remove, B!Cancel
    <2> QED
      BY <2>6, <2>7, Zenon
  <1>5. CASE k = 0
    <2>1. inbox' = inbox /\ sub' = [sub EXCEPT ![s] = "removing"] /\ sub[s] = "live"
      BY <1>5 DEF remove
    <2>2. In[c] = 0
      BY <1>1, <1>3, <1>5, FindFirst, SMTT(40)
    <2>3. In' = In
      BY <2>1 DEF In
    <2>4. FInv'
      BY <2>1, Zenon DEF FInv, remove, Busy
    <2>5. B!Unsubscribe(s)
      BY <1>2, <2>1, <2>2, <2>3, Zenon DEF In, Act, Sent, Phase, remove, B!Unsubscribe
    <2> QED
      BY <2>4, <2>5
  <1> QED
    BY <1>4, <1>5, ZenonT(40)

\* Deleting a case, whether a Send is under way or not: n is the length of its
\* slice, 0 between two calls.
LEMMA RemovalSim ==
    ASSUME Sound, FInv, NEW s \in Sub, HasEntry(s),
           ToSend \in 0 .. Len(sendCases)
    PROVE  LET c == ChanOf[s]
               k == find(sendCases, c)
               t == delete(sendCases, k)
               n == IF k <= ToSend THEN ToSend - 1 ELSE ToSend
               act == Occurrences(t, 1 .. n)
               sen == Occurrences(t, n + 1 .. Len(t))
           IN  /\ c \in Channel /\ k \in 1 .. Len(sendCases)
               /\ t \in Seq(Channel) /\ Len(t) = Len(sendCases) - 1
               /\ \/ Act[c] > 0 /\ act = Less(Act, c) /\ sen = Sent
                  \/ Act[c] = 0 /\ act = Act /\ sen = Less(Sent, c)
  <1> DEFINE c == ChanOf[s]
             k == find(sendCases, c)
             t == delete(sendCases, k)
             n == IF k <= ToSend THEN ToSend - 1 ELSE ToSend
             act == Occurrences(t, 1 .. n)
             sen == Occurrences(t, n + 1 .. Len(t))
             N == ToSend
             L == Len(sendCases)
  <1>1. c \in Channel /\ (Act[c] > 0 \/ Sent[c] > 0)
    BY DEF Sound, HasEntry
  <1>2. sendCases \in Seq(Channel) /\ L \in Nat /\ N \in 0 .. L
    BY LenProperties DEF FInv
  <1>3. /\ Act[c] \in Nat /\ (Act[c] = 0 <=> \A i \in 1 .. N : sendCases[i] # c)
        /\ Sent[c] \in Nat /\ (Sent[c] = 0 <=> \A i \in N + 1 .. L : sendCases[i] # c)
    <2> HIDE DEF c, N, L
    <2>1. 1 \in Int /\ N \in Int /\ N + 1 \in Int /\ L \in Int
      BY <1>2
    <2>2. Act = Occurrences(sendCases, 1 .. N) /\ Sent = Occurrences(sendCases, N + 1 .. L)
      BY DEF Act, Sent, N, L
    <2>3. /\ Occurrences(sendCases, 1 .. N)[c] \in Nat
          /\ Occurrences(sendCases, 1 .. N)[c] = 0 <=> \A i \in 1 .. N : sendCases[i] # c
      BY <1>1, <2>1, OccNone, SMTT(40)
    <2>4. /\ Occurrences(sendCases, N + 1 .. L)[c] \in Nat
          /\ Occurrences(sendCases, N + 1 .. L)[c] = 0 <=> \A i \in N + 1 .. L : sendCases[i] # c
      BY <1>1, <2>1, OccNone, SMTT(40)
    <2> QED
      BY <2>2, <2>3, <2>4, Zenon
  <1> HIDE DEF c
  <1>4. /\ k \in 1 .. L /\ sendCases[k] = c
        /\ \A i \in 1 .. L : sendCases[i] = c => k <= i
    <2>1. \E i \in 1 .. L : sendCases[i] = c
      BY <1>1, <1>2, <1>3, SMTT(40)
    <2> QED
      BY <1>2, <2>1, FindFirst, ZenonT(40)
  <1> HIDE DEF k
  <1>5. t \in Seq(Channel) /\ Len(t) = L - 1
    BY <1>2, <1>4, Deleted, ZenonT(40)
  <1>6. CASE k <= N
    <2>1. N \in k .. L /\ 1 \in 1 .. k /\ n = N - 1 /\ n + 1 = N
      BY <1>2, <1>4, <1>6, SMTT(40)
    <2>2. Occurrences(t, 1 .. N - 1) = Less(Occurrences(sendCases, 1 .. N), sendCases[k])
      BY <1>2, <1>4, <2>1, DeleteInside, ZenonT(40)
    <2>3. Occurrences(t, N .. L - 1) = Occurrences(sendCases, N + 1 .. L)
      BY <1>2, <1>4, <2>1, DeleteBefore, ZenonT(40)
    <2>4. Act[c] > 0
      BY <1>2, <1>3, <1>4, <1>6, SMTT(40)
    <2> HIDE DEF t, n
    <2>5. act = Less(Act, c)
      BY <1>4, <2>1, <2>2, Zenon DEF Act
    <2>6. sen = Sent
      BY <1>5, <2>1, <2>3, ZenonT(40) DEF Sent
    <2> QED
      BY <1>1, <1>4, <1>5, <2>4, <2>5, <2>6, ZenonT(40) DEF c, k, t, n
  <1>7. CASE ~(k <= N)
    <2>1. N \in 0 .. k - 1 /\ N + 1 \in 1 .. k /\ L \in k .. L /\ n = N
      BY <1>2, <1>4, <1>7, SMTT(40)
    <2>2. Occurrences(t, 1 .. N) = Occurrences(sendCases, 1 .. N)
      BY <1>2, <1>4, <2>1, DeleteBehind, ZenonT(40)
    <2>3. Occurrences(t, N + 1 .. L - 1) = Less(Occurrences(sendCases, N + 1 .. L), sendCases[k])
      BY <1>2, <1>4, <2>1, DeleteInside, ZenonT(40)
    <2>4. Act[c] = 0
      BY <1>2, <1>3, <1>4, <1>7, SMTT(40)
    <2> HIDE DEF t, n
    <2>5. act = Act
      BY <2>1, <2>2, Zenon DEF Act
    <2>6. sen = Less(Sent, c)
      BY <1>4, <1>5, <2>1, <2>3, ZenonT(40) DEF Sent
    <2> QED
      BY <1>1, <1>4, <1>5, <2>4, <2>5, <2>6, ZenonT(40) DEF c, k, t, n
  <1> QED
    BY <1>6, <1>7, Zenon

LEMMA RemoveNowSim ==
    ASSUME Sound, FInv, NEW s \in Sub, HasEntry(s), RemoveNow(s)
    PROVE  FInv' /\ B!Remove(s)
  <1> DEFINE c == ChanOf[s]
             k == find(sendCases, c)
             t == delete(sendCases, k)
  <1>1. sendLock = TRUE /\ sendLock' = TRUE /\ sendCases' = t /\ send' = send
    BY DEF RemoveNow, FInv
  <1>2. sub[s] = "removing" /\ sub' = [sub EXCEPT ![s] = "gone"]
    BY DEF RemoveNow
  <1>3. ToSend = 0 /\ ToSend' = 0 /\ Phase' = Phase
    BY <1>1 DEF ToSend, Phase
  <1>4. Len(sendCases) \in Nat
    BY LenProperties DEF FInv
  <1>5. /\ c \in Channel /\ k \in 1 .. Len(sendCases)
        /\ t \in Seq(Channel) /\ Len(t) = Len(sendCases) - 1
        /\ \/ Act[c] > 0 /\ Act' = Less(Act, c) /\ Sent' = Sent
           \/ Act[c] = 0 /\ Act' = Act /\ Sent' = Less(Sent, c)
    <2>1. ToSend \in 0 .. Len(sendCases)
      BY <1>3, <1>4, SMTT(40)
    <2> DEFINE n == IF k <= ToSend THEN ToSend - 1 ELSE ToSend
               act == Occurrences(t, 1 .. n)
               sen == Occurrences(t, n + 1 .. Len(t))
    <2>2. /\ c \in Channel /\ k \in 1 .. Len(sendCases)
          /\ t \in Seq(Channel) /\ Len(t) = Len(sendCases) - 1
          /\ \/ Act[c] > 0 /\ act = Less(Act, c) /\ sen = Sent
             \/ Act[c] = 0 /\ act = Act /\ sen = Less(Sent, c)
      BY <1>2, <2>1, RemovalSim, ZenonT(40)
    <2> HIDE DEF c, k, t
    <2>3. n = 0
      BY <1>3, <2>2
    <2> HIDE DEF n
    <2>4. act = Act' /\ sen = Sent'
      BY <1>1, <1>3, <2>3, ZenonT(40) DEF Act, Sent
    <2> QED
      BY <2>2, <2>4, Zenon
  <1> HIDE DEF k, t
  <1>6. FInv'
    BY <1>1, <1>2, <1>5, ZenonT(40) DEF FInv, RemoveNow, Busy
  <1>7. In' = In
    BY Zenon DEF RemoveNow, In
  <1>8. B!Remove(s)
    BY <1>2, <1>3, <1>5, <1>7, ZenonT(40) DEF In, Act, Sent, Phase, Less, RemoveNow, B!Remove
  <1> QED
    BY <1>6, <1>8, ZenonT(40)

\* A blocked Send hears of the Unsubscribe and shortens its slice.
LEMMA InterruptSim ==
    ASSUME Sound, FInv, NEW s \in Sub, HasEntry(s), NEW p \in Sender, Interrupt(p, s)
    PROVE  FInv' /\ B!Remove(s)
  <1> DEFINE c == ChanOf[s]
             k == find(sendCases, c)
             t == delete(sendCases, k)
             n == IF k <= ToSend THEN ToSend - 1 ELSE ToSend
             act == Occurrences(t, 1 .. n)
             sen == Occurrences(t, n + 1 .. Len(t))
  <1>1. Busy(p)
    BY DEF Interrupt, At, Busy
  <1>2. /\ ToSend = send[p].n /\ sendLock = FALSE /\ Phase = "sending"
        /\ ToSend \in 0 .. Len(sendCases) /\ Len(sendCases) \in Nat
    BY <1>1, HolderIs, Zenon
  <1>3. /\ sub[s] = "removing" /\ sub' = [sub EXCEPT ![s] = "gone"]
        /\ sendCases' = t /\ sendLock' = FALSE /\ inbox' = inbox
        /\ send' = [send EXCEPT ![p] = [at |-> "try", n |-> n, i |-> 1]]
    BY <1>2, SMTT(40) DEF Interrupt
  <1>4. /\ c \in Channel /\ k \in 1 .. Len(sendCases)
        /\ t \in Seq(Channel) /\ Len(t) = Len(sendCases) - 1
        /\ \/ Act[c] > 0 /\ act = Less(Act, c) /\ sen = Sent
           \/ Act[c] = 0 /\ act = Act /\ sen = Less(Sent, c)
    BY <1>2, RemovalSim, ZenonT(40)
  <1> HIDE DEF c, k, t
  <1>5. n \in 0 .. Len(t)
    BY <1>2, <1>4
  <1>6. /\ send' \in [Sender -> [at : {"idle", "try", "select"}, n : Nat, i : Nat \ {0}]]
        /\ send'[p].at = "try" /\ send'[p].n = n
        /\ \A q \in Sender : q # p => send'[q] = send[q]
    <2>1. send[p] \in [at : {"idle", "try", "select"}, n : Nat, i : Nat \ {0}] /\ n \in Nat
      BY <1>4, <1>5, LenProperties, SMTT(40) DEF FInv
    <2> HIDE DEF n
    <2> QED
      BY <1>3, <2>1, SMTT(40) DEF FInv
  <1> HIDE DEF n
  <1>7. \A q \in Sender : q # p => ~Busy(q)
    BY <1>1 DEF FInv
  <1>8. FInv'
    <2>1. sub' \in [Sub -> {"new", "live", "removing", "gone"}]
      BY <1>3 DEF FInv
    <2>2. \A q \in Sender : Busy(q)' => q = p
      BY <1>6, <1>7, ZenonT(40) DEF Busy
    <2>3. Busy(p)' /\ send'[p].n <= Len(sendCases')
      BY <1>3, <1>4, <1>5, <1>6, SMTT(40) DEF Busy
    <2> QED
      BY <1>3, <1>4, <1>6, <2>1, <2>2, <2>3, ZenonT(40) DEF FInv
  <1>9. ToSend' = n /\ Phase' = Phase
    <2>1. Busy(p)'
      BY <1>6 DEF Busy
    <2> QED
      BY <1>2, <1>6, <1>8, <2>1, HolderNext, ZenonT(40)
  <1>10. act = Act' /\ sen = Sent'
    BY <1>3, <1>9, Zenon DEF Act, Sent
  <1>11. \/ Act[c] > 0 /\ Act' = Less(Act, c) /\ Sent' = Sent
         \/ Act[c] = 0 /\ Act' = Act /\ Sent' = Less(Sent, c)
    <2> HIDE DEF act, sen
    <2> QED
      BY <1>4, <1>10, Zenon
  <1>12. In' = In
    BY <1>3, ZenonT(40) DEF In
  <1>13. B!Remove(s)
    <2>1. UNCHANGED <<present, got>>
      BY DEF Interrupt
    <2> QED
      BY <1>3, <1>9, <1>11, <1>12, <2>1, ZenonT(40) DEF c, In, Act, Sent, Phase, Less, B!Remove
  <1> QED
    BY <1>8, <1>13, ZenonT(40)

\* Send takes the lock and starts with every channel of sendCases and the inbox.
LEMMA LockSim ==
    ASSUME Sound, FInv, NEW p \in Sender, Lock(p)
    PROVE  FInv' /\ B!Begin
  <1> DEFINE t == sendCases \o inbox
  <1>1. /\ sendLock = TRUE /\ sendLock' = FALSE /\ sendCases' = t /\ inbox' = <<>>
        /\ send' = [send EXCEPT ![p] = [at |-> "try", n |-> Len(sendCases'), i |-> 1]]
        /\ sub' = sub /\ ~Busy(p)
    BY DEF Lock, FInv, Busy, At
  <1>2. inbox \in Seq(Channel) /\ sendCases \in Seq(Channel)
    BY DEF FInv
  <1>3. t \in Seq(Channel) /\ Len(t) \in Nat
    BY <1>2, ConcatProperties, LenProperties, ZenonT(40)
  <1>4. /\ ToSend = 0 /\ Phase = "idle" /\ Act = [c \in Channel |-> 0]
        /\ Sent = Occurrences(sendCases, 1 .. Len(sendCases))
    BY <1>1, Unlocked
  <1>5. \A c \in Channel : Occurrences(t, 1 .. Len(t))[c] = Sent[c] + In[c]
    BY <1>2, <1>4, ConcatOcc, ZenonT(40) DEF In
  <1> HIDE DEF t
  <1>6. /\ send' \in [Sender -> [at : {"idle", "try", "select"}, n : Nat, i : Nat \ {0}]]
        /\ send'[p].at = "try" /\ send'[p].n = Len(t)
        /\ \A q \in Sender : q # p => send'[q] = send[q]
    BY <1>1, <1>3, SMTT(40) DEF FInv
  <1>7. \A q \in Sender : ~Busy(q)
    BY <1>1, SMTT(40) DEF FInv
  <1>8. FInv'
    <2>1. sub' \in [Sub -> {"new", "live", "removing", "gone"}]
      BY <1>1 DEF FInv
    <2>2. \A q \in Sender : Busy(q)' => q = p
      BY <1>6, <1>7, ZenonT(40) DEF Busy
    <2>3. Busy(p)' /\ send'[p].n <= Len(sendCases')
      BY <1>1, <1>3, <1>6 DEF Busy
    <2>4. inbox' \in Seq(Channel)
      BY <1>1
    <2> QED
      BY <1>1, <1>3, <1>6, <2>1, <2>2, <2>3, <2>4, ZenonT(40) DEF FInv
  <1>9. ToSend' = Len(t) /\ Phase' = "sending"
    <2>1. Busy(p)'
      BY <1>6 DEF Busy
    <2> QED
      BY <1>6, <1>8, <2>1, HolderNext, Zenon
  <1>10. Act' = [c \in Channel |-> Sent[c] + In[c]]
    <2>1. Act' = Occurrences(t, 1 .. Len(t))
      BY <1>1, <1>9, Zenon DEF Act
    <2>2. Act' = [c \in Channel |-> Act'[c]]
      BY DEF Act, Occurrences
    <2> QED
      BY <1>5, <2>1, <2>2, SMTT(40)
  <1>11. Sent' = [c \in Channel |-> 0] /\ In' = [c \in Channel |-> 0]
    <2>1. Len(t) + 1 .. Len(t) = {} /\ 1 .. Len(<<>>) = {}
      BY <1>3
    <2>2. Sent' = Occurrences(t, {}) /\ In' = Occurrences(<<>>, {})
      BY <1>1, <1>9, <2>1, Zenon DEF Sent, In
    <2> QED
      BY <2>2, OccEmpty, SMTT(40)
  <1>12. present' = B!Listed /\ got' = B!None
    BY DEF Lock, B!Listed, B!None
  <1>13. B!Begin
    BY <1>1, <1>4, <1>9, <1>10, <1>11, <1>12, ZenonT(40) DEF In, Act, Sent, Phase, B!Begin, B!None
  <1> QED
    BY <1>8, <1>13, ZenonT(40)

\* A value sent: the case moves behind the slice.
LEMMA PutSim ==
    ASSUME Sound, FInv, NEW p \in Sender, Busy(p), NEW i \in 1 .. send[p].n,
           NEW next \in Nat \ {0}, Put(p, i, next)
    PROVE  FInv' /\ \E c \in Channel : B!Deliver(c)
  <1> DEFINE c == sendCases[i]  n == send[p].n  L == Len(sendCases)  t == deactivate(sendCases, i, n)
  <1>1. /\ ToSend = n /\ sendLock = FALSE /\ Phase = "sending" /\ n \in 1 .. L /\ L \in Nat
    <2>1. ToSend = n /\ sendLock = FALSE /\ Phase = "sending" /\ ToSend \in 0 .. L /\ L \in Nat
      BY HolderIs, Zenon
    <2> QED
      BY <2>1
  <1>2. /\ sendCases' = t /\ sendLock' = FALSE /\ inbox' = inbox /\ sub' = sub
        /\ send' = [send EXCEPT ![p] = [at |-> "try", n |-> n - 1, i |-> next]]
    BY <1>1, SMTT(40) DEF Put
  <1>3. sendCases \in Seq(Channel) /\ i \in 1 .. L
    BY <1>1 DEF FInv
  <1>4. c \in Channel
    BY <1>3, SMTT(40)
  <1>5. /\ Occurrences(t, 1 .. n - 1) = Less(Occurrences(sendCases, 1 .. n), c)
        /\ Occurrences(t, n .. L) = More(Occurrences(sendCases, n + 1 .. L), c)
    BY <1>1, <1>3, DeactivateOcc, ZenonT(40)
  <1>6. t \in Seq(Channel) /\ Len(t) = L
    BY <1>1, <1>3, Deactivated, ZenonT(40)
  <1>7. Act[c] > 0
    <2>1. 1 \in Int /\ n \in Int
      BY <1>1
    <2>2. Act = Occurrences(sendCases, 1 .. n)
      BY <1>1, Zenon DEF Act
    <2> QED
      BY <1>4, <2>1, <2>2, OccNone, SMTT(40)
  <1>8. n - 1 \in Nat /\ n - 1 <= L /\ (n - 1) + 1 = n
    BY <1>1
  <1> HIDE DEF t, n, L
  <1>9. /\ send' \in [Sender -> [at : {"idle", "try", "select"}, n : Nat, i : Nat \ {0}]]
        /\ send'[p].at = "try" /\ send'[p].n = n - 1
        /\ \A q \in Sender : q # p => send'[q] = send[q]
    BY <1>2, <1>8, ZenonT(40) DEF FInv
  <1>10. \A q \in Sender : q # p => ~Busy(q)
    BY DEF FInv
  <1>11. FInv'
    <2>1. sub' \in [Sub -> {"new", "live", "removing", "gone"}] /\ inbox' \in Seq(Channel)
      BY <1>2 DEF FInv
    <2>2. \A q \in Sender : Busy(q)' => q = p
      BY <1>9, <1>10, ZenonT(40) DEF Busy
    <2>3. Busy(p)' /\ send'[p].n <= Len(sendCases')
      BY <1>2, <1>6, <1>8, <1>9, ZenonT(40) DEF Busy
    <2> QED
      BY <1>2, <1>6, <1>9, <2>1, <2>2, <2>3, Zenon DEF FInv
  <1>12. ToSend' = n - 1 /\ Phase' = Phase
    <2>1. Busy(p)'
      BY <1>9 DEF Busy
    <2> QED
      BY <1>1, <1>9, <1>11, <2>1, HolderNext, ZenonT(40)
  <1>13. Act' = Less(Act, c) /\ Sent' = More(Sent, c)
    <2>1. Act' = Occurrences(t, 1 .. n - 1) /\ Act = Occurrences(sendCases, 1 .. n)
      BY <1>1, <1>2, <1>12, Zenon DEF Act
    <2>2. Sent' = Occurrences(t, n .. L) /\ Sent = Occurrences(sendCases, n + 1 .. L)
      BY <1>1, <1>2, <1>6, <1>8, <1>12, ZenonT(40) DEF Sent, L
    <2> QED
      BY <1>5, <2>1, <2>2, Zenon
  <1>14. In' = In
    BY <1>2, ZenonT(40) DEF In
  <1>15. B!Deliver(c)
    <2>1. got' = [got EXCEPT ![c] = @ + 1] /\ UNCHANGED <<sub, present>>
      BY Zenon DEF Put
    <2> QED
      BY <1>1, <1>7, <1>12, <1>13, <1>14, <2>1, ZenonT(40) DEF In, Act, Sent, Phase, More, Less, B!Deliver
  <1> QED
    BY <1>4, <1>11, <1>15, ZenonT(40)

\* Moving on to the next case and blocking change nothing that Broadcast sees.
LEMMA MoveOnSim ==
    ASSUME FInv, NEW p \in Sender, Busy(p),
           send' \in [Sender -> [at : {"idle", "try", "select"}, n : Nat, i : Nat \ {0}]],
           send'[p].at # "idle", send'[p].n = send[p].n,
           \A q \in Sender : q # p => send'[q] = send[q],
           UNCHANGED <<sub, inbox, sendCases, sendLock, present, got>>
    PROVE  FInv' /\ UNCHANGED B!vars
  <1>1. /\ ToSend = send[p].n /\ sendLock = FALSE /\ Phase = "sending"
    BY HolderIs, Zenon
  <1>3. \A q \in Sender : Busy(q)' <=> Busy(q)
    BY DEF Busy
  <1>4. \A q \in Sender : send'[q].n = send[q].n
    OBVIOUS
  <1>5. FInv'
    BY <1>3, <1>4 DEF FInv
  <1>6. ToSend' = ToSend /\ Phase' = Phase
    BY <1>1, <1>3, <1>5, HolderNext, ZenonT(40)
  <1>7. Act' = Act /\ Sent' = Sent /\ In' = In
    BY <1>6 DEF Act, Sent, In
  <1> QED
    BY <1>5, <1>6, <1>7, ZenonT(40) DEF In, Act, Sent, Phase, B!vars

LEMMA TrySendSim ==
    ASSUME Sound, FInv, NEW p \in Sender, TrySend(p)
    PROVE  FInv' /\ ((\E c \in Channel : B!Deliver(c)) \/ UNCHANGED B!vars)
  <1> DEFINE i == send[p].i
  <1>1. Busy(p) /\ i \in Nat \ {0} /\ i \in 1 .. send[p].n /\ i + 1 \in Nat \ {0}
    BY DEF TrySend, At, Busy, FInv
  <1>2. CASE Put(p, i, i)
    BY <1>1, <1>2, PutSim, ZenonT(40)
  <1>3. CASE /\ send' = [send EXCEPT ![p].i = i + 1]
             /\ UNCHANGED <<sub, inbox, sendCases, sendLock, buf, sends, present, got>>
    <2>1. /\ send' \in [Sender -> [at : {"idle", "try", "select"}, n : Nat, i : Nat \ {0}]]
          /\ send'[p].at = send[p].at /\ send'[p].n = send[p].n
          /\ \A q \in Sender : q # p => send'[q] = send[q]
      BY <1>1, <1>3, Zenon DEF FInv
    <2>2. send'[p].at # "idle"
      BY <1>1, <2>1 DEF Busy
    <2> QED
      BY <1>1, <1>3, <2>1, <2>2, MoveOnSim, ZenonT(40)
  <1> QED
    BY <1>2, <1>3 DEF TrySend

LEMMA BlockSim ==
    ASSUME FInv, NEW p \in Sender, Block(p)
    PROVE  FInv' /\ UNCHANGED B!vars
  <1>1. Busy(p)
    BY DEF Block, At, Busy
  <1>2. /\ send' \in [Sender -> [at : {"idle", "try", "select"}, n : Nat, i : Nat \ {0}]]
        /\ send'[p].at # "idle" /\ send'[p].n = send[p].n
        /\ \A q \in Sender : q # p => send'[q] = send[q]
    BY Zenon DEF Block, FInv
  <1> QED
    BY <1>1, <1>2, MoveOnSim, ZenonT(40) DEF Block

\* Send returns when the slice is empty.
LEMMA ReturnSim ==
    ASSUME FInv, NEW p \in Sender, Return(p)
    PROVE  FInv' /\ B!End
  <1>1. Busy(p) /\ send[p].n = 0 /\ sendLock' = TRUE
    BY DEF Return, At, Busy
  <1>2. ToSend = 0 /\ Phase = "sending" /\ ToSend' = 0 /\ Phase' = "idle"
    BY <1>1, HolderIs, Zenon DEF ToSend, Phase
  <1>3. /\ send' \in [Sender -> [at : {"idle", "try", "select"}, n : Nat, i : Nat \ {0}]]
        /\ send'[p].at = "idle" /\ \A q \in Sender : q # p => send'[q] = send[q]
    BY ZenonT(40) DEF FInv, Return
  <1>4. \A q \in Sender : ~Busy(q)'
    <2>1. \A q \in Sender : Busy(q) => q = p
      BY <1>1 DEF FInv
    <2> QED
      BY <1>3, <2>1 DEF Busy
  <1>5. FInv'
    BY <1>1, <1>3, <1>4, ZenonT(40) DEF FInv, Return
  <1>6. Act' = Act /\ Sent' = Sent /\ In' = In
    BY <1>2 DEF Act, Sent, In, Return
  <1>7. Act = [c \in Channel |-> 0]
    <2>1. Act = Occurrences(sendCases, {})
      BY <1>2, 1 .. 0 = {}, Zenon DEF Act
    <2> QED
      BY <2>1, OccEmpty
  <1>8. B!End
    BY <1>2, <1>6, <1>7, ZenonT(40) DEF In, Act, Sent, Phase, Return, B!End, B!None
  <1> QED
    BY <1>5, <1>8

-----------------------------------------------------------------------------
(* The refinement. *)

\* Init of Feed is Init of Broadcast.
LEMMA InitSim ==
    ASSUME Sound, Init
    PROVE  FInv /\ B!Init
  <1>1. FInv
    BY DEF Init, FInv, Busy
  <1>2. sendLock = TRUE /\ inbox = <<>> /\ sendCases = <<>>
    BY DEF Init
  <1>3. /\ Phase = "idle" /\ Act = [c \in Channel |-> 0]
        /\ Sent = Occurrences(sendCases, 1 .. Len(sendCases))
    BY <1>1, <1>2, Unlocked, ZenonT(40)
  <1>4. Sent = [c \in Channel |-> 0] /\ In = [c \in Channel |-> 0]
    <2>1. 1 .. Len(<<>>) = {}
      OBVIOUS
    <2>2. Sent = Occurrences(<<>>, {}) /\ In = Occurrences(<<>>, {})
      BY <1>2, <1>3, <2>1, Zenon DEF In
    <2> QED
      BY <2>2, OccEmpty
  <1>5. B!Init
    BY <1>3, <1>4 DEF Init, In, Act, Sent, Phase, B!Init, B!None
  <1> QED
    BY <1>1, <1>5, ZenonT(40)

LEMMA NextSim ==
    ASSUME Sound, FInv, [Next]_vars, \A s \in Sub : sub[s] = "removing" => HasEntry(s)
    PROVE  FInv' /\ [B!Next]_(B!vars)
  <1>1. ASSUME NEW s \in Sub, Subscribe(s) PROVE FInv' /\ B!Next
    BY <1>1, SubscribeSim DEF B!Next
  <1>2. ASSUME NEW s \in Sub, remove(s) PROVE FInv' /\ B!Next
    BY <1>2, removeSim DEF B!Next
  <1>3. ASSUME NEW s \in Sub, RemoveNow(s) PROVE FInv' /\ B!Next
    <2>1. HasEntry(s)
      BY <1>3 DEF RemoveNow
    <2> QED
      BY <1>3, <2>1, RemoveNowSim, ZenonT(40) DEF B!Next
  <1>4. ASSUME NEW s \in Sub, NEW p \in Sender, Interrupt(p, s) PROVE FInv' /\ B!Next
    <2>1. HasEntry(s)
      BY <1>4 DEF Interrupt
    <2> QED
      BY <1>4, <2>1, InterruptSim, ZenonT(40) DEF B!Next
  <1>5. ASSUME NEW p \in Sender, Lock(p) PROVE FInv' /\ B!Next
    BY <1>5, LockSim, ZenonT(40) DEF B!Next
  <1>6. ASSUME NEW p \in Sender, TrySend(p) PROVE FInv' /\ (B!Next \/ UNCHANGED B!vars)
    BY <1>6, TrySendSim DEF B!Next
  <1>7. ASSUME NEW p \in Sender, Block(p) PROVE FInv' /\ UNCHANGED B!vars
    BY <1>7, BlockSim, ZenonT(40)
  <1>8. ASSUME NEW p \in Sender, Select(p) PROVE FInv' /\ B!Next
    <2>1. Busy(p)
      BY <1>8 DEF Select, At, Busy
    <2>2. PICK i \in 1 .. send[p].n : Put(p, i, 1)
      BY <1>8 DEF Select
    <2>3. 1 \in Nat \ {0}
      OBVIOUS
    <2> QED
      BY <2>1, <2>2, <2>3, PutSim, ZenonT(40) DEF B!Next
  <1>9. ASSUME NEW p \in Sender, Return(p) PROVE FInv' /\ B!Next
    BY <1>9, ReturnSim, ZenonT(40) DEF B!Next
  <1>10. ASSUME UNCHANGED <<sub, inbox, sendCases, sendLock, send, present, got>>
         PROVE  FInv' /\ UNCHANGED B!vars
    <2>1. FInv'
      BY <1>10, ZenonT(40) DEF FInv, Busy
    <2>2. Act' = Act /\ Sent' = Sent /\ Phase' = Phase /\ In' = In
      BY <1>10, Unmoved, ZenonT(40) DEF In
    <2> QED
      BY <1>10, <2>1, <2>2, ZenonT(40) DEF In, Act, Sent, Phase, B!vars
  <1>11. ASSUME NEW c \in Channel, Receive(c) PROVE FInv' /\ UNCHANGED B!vars
    BY <1>10, <1>11, ZenonT(40) DEF Receive
  <1>12. CASE UNCHANGED vars
    BY <1>10, <1>12, ZenonT(40) DEF vars
  <1> QED
    BY <1>1, <1>2, <1>3, <1>4, <1>5, <1>6, <1>7, <1>8, <1>9, <1>11, <1>12, ZenonT(40)
       DEF Next, SendStep, RemoveStep

BP == INSTANCE BroadcastProofs WITH
        inbox <- Occurrences(inbox, 1 .. Len(inbox)),
        active <- Occurrences(sendCases, 1 .. ToSend),
        sent <- Occurrences(sendCases, (ToSend + 1) .. Len(sendCases)),
        phase <- IF sendLock THEN "idle" ELSE "sending"

\* An Unsubscribe that waits finds its channel in sendCases: Broadcast's invariant
\* says that the bags hold an entry for it.
LEMMA RemovalFinds ==
    ASSUME Sound, BP!IInv, NEW s \in Sub, sub[s] = "removing"
    PROVE  HasEntry(s)
  BY BP!RemovalHasEntry, ZenonT(40) DEF Sound, IsFiniteSet, BP!IsFiniteSet, Act, Sent, HasEntry

\* The two instances are of the same module.
LEMMA SameInit == B!Init <=> BP!Init
  BY ZenonT(40) DEF B!Init, BP!Init, B!None, BP!None

LEMMA SameNext == [B!Next]_(B!vars) => [BP!Next]_(BP!vars)
  BY ZenonT(40) DEF B!Next, BP!Next, B!vars, BP!vars, B!Subscribe, BP!Subscribe, B!Cancel, BP!Cancel,
         B!Unsubscribe, BP!Unsubscribe, B!Remove, BP!Remove, B!Deliver, BP!Deliver,
         B!Begin, BP!Begin, B!End, BP!End, B!None, BP!None, B!Listed, BP!Listed

LEMMA BroadcastInit ==
    ASSUME Sound, BP!Init
    PROVE  BP!IInv
  BY BP!InitInv, ZenonT(40) DEF Sound, IsFiniteSet, BP!IsFiniteSet

LEMMA BroadcastNext ==
    ASSUME Sound, BP!IInv, [BP!Next]_(BP!vars)
    PROVE  BP!IInv'
  BY BP!NextInv, ZenonT(40) DEF Sound, IsFiniteSet, BP!IsFiniteSet

\* Feed does what Broadcast promises (feed.go: Subscribe, remove, Send), for any
\* number of subscriptions, channels and senders: its lists never lose or double an
\* entry, and every removal finds the one it looks for.
THEOREM FeedImplementsBroadcast ==
    ASSUME Sound
    PROVE  Spec => FeedBroadcasts
  <1>1. Init => FInv /\ BP!IInv /\ B!Init
    BY InitSim, SameInit, BroadcastInit, ZenonT(40)
  <1>2. FInv /\ BP!IInv /\ [Next]_vars => FInv' /\ BP!IInv' /\ [B!Next]_(B!vars)
    BY NextSim, RemovalFinds, SameNext, BroadcastNext, ZenonT(40)
  <1> QED
    BY <1>1, <1>2, PTL DEF Spec, FeedBroadcasts, B!Spec
====
