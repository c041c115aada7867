-------------------------- MODULE BlockChainProofs --------------------------
(***************************************************************************)
(* Proofs about BlockChain, for any tree of blocks and any transactions in *)
(* them: after every import, however the importer and the miner verify and *)
(* write, the numbers and the lookups follow the chain of the head, and    *)
(* the head is a heaviest block; and through any number of crashes the     *)
(* head stays complete.                                                    *)
(***************************************************************************)
EXTENDS BlockChain, FiniteSetTheorems, FunctionTheorems, TLAPS

-----------------------------------------------------------------------------
(* The tree of blocks.                                                     *)

\* The order of the natural numbers, as a well-founded relation.
LEMMA OrderOnNat ==
    \E R : IsWellFoundedOn(R, Nat) /\ \A x, y \in Nat : y < x => <<y, x>> \in R
  <1> DEFINE R == OpToRel(<, Nat)
  <1>1. IsWellFoundedOn(R, Nat)
    BY NatLessThanWellFounded, Zenon
  <1>2. \A x, y \in Nat : y < x => <<y, x>> \in R
    BY DEF OpToRel
  <1> HIDE DEF R
  <1> QED
    BY <1>1, <1>2, Zenon

\* A set of natural numbers has a least element.
LEMMA LeastNat ==
    ASSUME NEW T, T \subseteq Nat, T # {}
    PROVE  \E m \in T : \A k \in T : m <= k
  <1>1. PICK R : IsWellFoundedOn(R, Nat) /\ \A x, y \in Nat : y < x => <<y, x>> \in R
    BY OrderOnNat
  <1>2. PICK m \in T : \A y \in T : ~ (<<y, m>> \in R)
    BY <1>1, WFMin, Zenon
  <1>3. \A k \in T : ~(k < m)
    BY <1>1, <1>2, Zenon
  <1>4. \A k \in T : m <= k
    BY <1>3
  <1> QED
    BY <1>4

\* What a block adds to its parent's number and chain.
LEMMA Links ==
    /\ Genesis \in Block /\ None \notin Block
    /\ Number(Genesis) = 0 /\ Chain(Genesis) = {Genesis}
    /\ \A b \in Block : Number(b) \in Nat
    /\ \A b \in Block \ {Genesis} :
          /\ Parent[b] \in Block
          /\ Number(b) = Number(Parent[b]) + 1
          /\ Chain(b) = {b} \cup Chain(Parent[b])
  <1>1. Genesis \in Block /\ None \notin Block /\ Parent \in [Block \ {Genesis} -> Block]
    BY ChainAssumption
  <1>2. \A b \in Block : /\ Number(b) \in Nat
                         /\ b = Genesis => Number(b) = 0 /\ Chain(b) = {b}
                         /\ b # Genesis => /\ Number(b) = Number(Parent[b]) + 1
                                           /\ Chain(b) = {b} \cup Chain(Parent[b])
    BY TreeAssumption
  <1> QED
    BY <1>1, <1>2

\* Induction along the tree.
LEMMA TreeInduction ==
    ASSUME NEW S, Genesis \in S, \A b \in Block \ {Genesis} : Parent[b] \in S => b \in S
    PROVE  Block \subseteq S
  <1> SUFFICES ASSUME NEW x \in Block, x \notin S PROVE FALSE
    OBVIOUS
  <1> DEFINE Bad == {b \in Block : b \notin S}
             T == {n \in Nat : \E b \in Bad : Number(b) = n}
  <1>1. T \subseteq Nat /\ Number(x) \in T
    BY Links
  <1>2. PICK m \in T : \A k \in T : m <= k
    BY <1>1, LeastNat, Zenon
  <1>3. PICK b \in Bad : Number(b) = m
    BY <1>2
  <1>4. b \in Block \ {Genesis} /\ Parent[b] \notin S
    BY <1>3
  <1>5. /\ Parent[b] \in Block /\ Number(Parent[b]) \in Nat /\ m \in Nat
        /\ m = Number(Parent[b]) + 1
    BY <1>3, <1>4, Links
  <1>6. Number(Parent[b]) \in T
    BY <1>4, <1>5
  <1> QED
    BY <1>2, <1>5, <1>6

\* A chain ends at its block, which has the highest number, and holds its ancestors' chains.
LEMMA ChainFacts ==
    ASSUME NEW b \in Block
    PROVE  /\ Chain(b) \subseteq Block /\ b \in Chain(b) /\ Genesis \in Chain(b)
           /\ \A c \in Chain(b) : Number(c) <= Number(b) /\ Chain(c) \subseteq Chain(b)
           /\ \A c \in Chain(b) : Number(c) = Number(b) => c = b
  <1> DEFINE S == {x \in Block :
                     /\ Chain(x) \subseteq Block /\ x \in Chain(x) /\ Genesis \in Chain(x)
                     /\ \A c \in Chain(x) : Number(c) <= Number(x) /\ Chain(c) \subseteq Chain(x)
                     /\ \A c \in Chain(x) : Number(c) = Number(x) => c = x}
  <1>1. Genesis \in S
    <2>1. Genesis \in Block /\ Number(Genesis) = 0 /\ Chain(Genesis) = {Genesis}
      BY Links
    <2>2. \A c \in Chain(Genesis) : c = Genesis
      BY <2>1
    <2> QED
      BY <2>1, <2>2
  <1>2. ASSUME NEW x \in Block \ {Genesis}, Parent[x] \in S PROVE x \in S
    <2>1. /\ Parent[x] \in Block /\ Number(x) \in Nat /\ Number(Parent[x]) \in Nat
          /\ Number(x) = Number(Parent[x]) + 1
          /\ Chain(x) = {x} \cup Chain(Parent[x])
      BY Links
    <2>2. /\ Chain(Parent[x]) \subseteq Block /\ Genesis \in Chain(Parent[x])
          /\ \A c \in Chain(Parent[x]) :
                Number(c) <= Number(Parent[x]) /\ Chain(c) \subseteq Chain(Parent[x])
      BY <1>2
    <2>3. \A c \in Chain(Parent[x]) : Number(c) \in Nat
      BY <2>2, Links
    <2>4. Chain(x) \subseteq Block /\ x \in Chain(x) /\ Genesis \in Chain(x)
      BY <2>1, <2>2
    <2>5. \A c \in Chain(x) : c = x \/ c \in Chain(Parent[x])
      BY <2>1
    <2>6. \A c \in Chain(x) : Number(c) <= Number(x) /\ (Number(c) = Number(x) => c = x)
      BY <2>1, <2>2, <2>3, <2>5
    <2>7. \A c \in Chain(x) : Chain(c) \subseteq Chain(x)
      BY <2>1, <2>2, <2>5
    <2> QED
      BY <2>4, <2>6, <2>7
  <1> HIDE DEF S
  <1>3. b \in S
    BY <1>1, <1>2, TreeInduction
  <1> QED
    BY <1>3 DEF S

\* A chain has one block of each number up to its own.
LEMMA OneOfEach ==
    ASSUME NEW b \in Block
    PROVE  /\ \A n \in 0 .. Number(b) : \E c \in Chain(b) : Number(c) = n
           /\ \A c, d \in Chain(b) : Number(c) = Number(d) => c = d
  <1> DEFINE S == {x \in Block :
                     /\ \A n \in 0 .. Number(x) : \E c \in Chain(x) : Number(c) = n
                     /\ \A c, d \in Chain(x) : Number(c) = Number(d) => c = d}
  <1>1. Genesis \in S
    BY Links
  <1>2. ASSUME NEW x \in Block \ {Genesis}, Parent[x] \in S PROVE x \in S
    <2>1. /\ Parent[x] \in Block /\ Number(x) \in Nat /\ Number(Parent[x]) \in Nat
          /\ Number(x) = Number(Parent[x]) + 1
          /\ Chain(x) = {x} \cup Chain(Parent[x])
      BY Links
    <2>2. /\ \A n \in 0 .. Number(Parent[x]) : \E c \in Chain(Parent[x]) : Number(c) = n
          /\ \A c, d \in Chain(Parent[x]) : Number(c) = Number(d) => c = d
      BY <1>2
    <2>3. \A c \in Chain(x) : c = x \/ (c \in Chain(Parent[x]) /\ Number(c) # Number(x))
      <3>1. \A c \in Chain(Parent[x]) : Number(c) \in Nat /\ Number(c) <= Number(Parent[x])
        BY <2>1, ChainFacts, Links
      <3> QED
        BY <2>1, <3>1
    <2>4. \A c, d \in Chain(x) : Number(c) = Number(d) => c = d
      BY <2>2, <2>3
    <2>5. ASSUME NEW n \in 0 .. Number(x) PROVE \E c \in Chain(x) : Number(c) = n
      <3>1. CASE n = Number(x)
        BY <2>1, <3>1
      <3>2. CASE n # Number(x)
        <4>1. n \in 0 .. Number(Parent[x])
          BY <2>1, <3>2
        <4> QED
          BY <4>1, <2>1, <2>2
      <3> QED
        BY <3>1, <3>2
    <2> QED
      BY <2>4, <2>5
  <1> HIDE DEF S
  <1>3. b \in S
    BY <1>1, <1>2, TreeInduction
  <1> QED
    BY <1>3 DEF S

\* What two chains share is a chain.
LEMMA Shared ==
    ASSUME NEW b \in Block, NEW c \in Block
    PROVE  \E f \in Block : f \in Chain(b) /\ f \in Chain(c) /\ Chain(b) \cap Chain(c) = Chain(f)
  <1> DEFINE S == {x \in Block : \E f \in Block : /\ f \in Chain(x) /\ f \in Chain(c)
                                                  /\ Chain(x) \cap Chain(c) = Chain(f)}
  <1>1. Genesis \in S
    <2>1. Chain(Genesis) = {Genesis} /\ Genesis \in Chain(c) /\ Genesis \in Block
      BY Links, ChainFacts
    <2> QED
      BY <2>1
  <1>2. ASSUME NEW x \in Block \ {Genesis}, Parent[x] \in S PROVE x \in S
    <2>1. Parent[x] \in Block /\ Chain(x) = {x} \cup Chain(Parent[x])
      BY Links
    <2>2. PICK f \in Block : /\ f \in Chain(Parent[x]) /\ f \in Chain(c)
                             /\ Chain(Parent[x]) \cap Chain(c) = Chain(f)
      BY <1>2
    <2>3. CASE x \in Chain(c)
      <3>1. Chain(x) \subseteq Chain(c) /\ x \in Chain(x)
        BY <2>3, ChainFacts
      <3>2. Chain(x) \cap Chain(c) = Chain(x)
        BY <3>1
      <3> QED
        BY <3>1, <3>2, <2>3
    <2>4. CASE x \notin Chain(c)
      <3>1. Chain(x) \cap Chain(c) = Chain(f) /\ f \in Chain(x)
        BY <2>1, <2>2, <2>4
      <3> QED
        BY <3>1, <2>2
    <2> QED
      BY <2>3, <2>4
  <1> HIDE DEF S
  <1>3. b \in S
    BY <1>1, <1>2, TreeInduction
  <1> QED
    BY <1>3 DEF S

-----------------------------------------------------------------------------
(* A branch and its list, the newest first.                                *)

Above(b, k) == {c \in Chain(b) : Number(c) > k}

\* A chain has as many blocks above a number as there are numbers.
LEMMA CountAbove ==
    ASSUME NEW b \in Block, NEW k \in Nat, k <= Number(b)
    PROVE  IsFiniteSet(Above(b, k)) /\ Cardinality(Above(b, k)) = Number(b) - k
  <1> DEFINE I == k + 1 .. Number(b)
             g == [c \in Above(b, k) |-> Number(c)]
  <1>1. /\ Number(b) \in Nat /\ \A c \in Chain(b) : Number(c) \in Nat /\ Number(c) <= Number(b)
    BY Links, ChainFacts
  <1>2. g \in [Above(b, k) -> I]
    BY <1>1 DEF Above
  <1>3. \A c, d \in Above(b, k) : g[c] = g[d] => c = d
    BY OneOfEach DEF Above
  <1>4. \A n \in I : \E c \in Above(b, k) : g[c] = n
    BY <1>1, OneOfEach DEF Above
  <1>5. g \in Bijection(Above(b, k), I)
    BY <1>2, <1>3, <1>4, Fun_IsBij, Zenon
  <1>6. IsFiniteSet(I) /\ Cardinality(I) = Number(b) - k
    BY <1>1, FS_Interval, SMTT(40)
  <1>7. ExistsBijection(I, Above(b, k))
    BY <1>5, Fun_ExistsBijSymmetric DEF ExistsBijection
  <1> HIDE DEF I, g
  <1> QED
    BY <1>6, <1>7, FS_Bijection

\* The blocks a reorganisation adds are those above the last common one.
LEMMA Branch ==
    ASSUME NEW old \in Block, NEW new \in Block
    PROVE  \E f \in Block : /\ f \in Chain(old) /\ f \in Chain(new)
                            /\ Number(f) <= Number(new) /\ Number(f) <= Number(old)
                            /\ Chain(new) \ Chain(old) = Above(new, Number(f))
  <1>1. PICK f \in Block : f \in Chain(new) /\ f \in Chain(old) /\ Chain(new) \cap Chain(old) = Chain(f)
    BY Shared, Zenon
  <1>2. Number(f) <= Number(new) /\ Number(f) <= Number(old)
    BY <1>1, ChainFacts
  <1>3. ASSUME NEW c \in Chain(new) PROVE c \in Chain(old) <=> ~(Number(c) > Number(f))
    <2>1. c \in Block /\ Number(c) \in Nat /\ Number(f) \in Nat
      BY ChainFacts, Links
    <2>2. c \in Chain(old) => ~(Number(c) > Number(f))
      BY <1>1, <2>1, ChainFacts
    <2>3. ASSUME Number(c) <= Number(f) PROVE c \in Chain(old)
      <3>1. PICK d \in Chain(f) : Number(d) = Number(c)
        BY <2>1, <2>3, OneOfEach
      <3>2. d \in Chain(new)
        BY <1>1, ChainFacts
      <3>3. d = c
        BY <3>1, <3>2, OneOfEach
      <3> QED
        BY <1>1, <3>1, <3>3
    <2> QED
      BY <2>1, <2>2, <2>3
  <1>4. Chain(new) \ Chain(old) = Above(new, Number(f))
    BY <1>3 DEF Above
  <1> QED
    BY <1>1, <1>2, <1>4

\* NewestFirst lists a branch: only and all of its blocks.
LEMMA Listed ==
    ASSUME NEW old \in Block, NEW new \in Block, NEW added, added = Chain(new) \ Chain(old)
    PROVE  /\ Cardinality(added) \in Nat
           /\ \A i \in 1 .. Cardinality(added) : NewestFirst(added, i) \in added
           /\ \A c \in added : \E i \in 1 .. Cardinality(added) : NewestFirst(added, i) = c
  <1>1. PICK f \in Block : /\ f \in Chain(new) /\ Number(f) <= Number(new)
                           /\ added = Above(new, Number(f))
    BY Branch, ZenonT(40)
  <1>2. Number(f) \in Nat /\ Number(new) \in Nat
        /\ \A c \in added : c \in Block /\ Number(c) \in Nat /\ Number(f) < Number(c) /\ Number(c) <= Number(new)
    BY <1>1, Links, ChainFacts DEF Above
  <1>3. Cardinality(added) = Number(new) - Number(f)
    BY <1>1, <1>2, CountAbove, Zenon
  <1>4. ASSUME NEW c \in added
        PROVE  Cardinality({d \in added : Number(d) > Number(c)}) = Number(new) - Number(c)
    <2>1. {d \in added : Number(d) > Number(c)} = Above(new, Number(c))
      <3>1. \A d \in Chain(new) : Number(d) \in Nat
        BY ChainFacts, Links
      <3> QED
        BY <1>1, <1>2, <3>1 DEF Above
    <2> QED
      BY <1>2, <2>1, CountAbove
  <1>5. ASSUME NEW i \in 1 .. Cardinality(added)
        PROVE  \E c \in added : Cardinality({d \in added : Number(d) > Number(c)}) = i - 1
    <2>1. Number(new) + 1 - i \in 0 .. Number(new) /\ Number(new) + 1 - i > Number(f)
      BY <1>2, <1>3
    <2>2. PICK c \in Chain(new) : Number(c) = Number(new) + 1 - i
      BY <2>1, OneOfEach
    <2>3. c \in added
      BY <1>1, <2>1, <2>2 DEF Above
    <2>4. Number(new) - Number(c) = i - 1
      BY <1>2, <1>3, <2>2
    <2> QED
      BY <1>4, <2>3, <2>4
  <1>6. \A i \in 1 .. Cardinality(added) :
           /\ NewestFirst(added, i) \in added
           /\ Cardinality({d \in added : Number(d) > Number(NewestFirst(added, i))}) = i - 1
    BY <1>5, Zenon DEF NewestFirst
  <1>7. ASSUME NEW c \in added
        PROVE  \E i \in 1 .. Cardinality(added) : NewestFirst(added, i) = c
    <2> DEFINE i == Number(new) - Number(c) + 1
               x == NewestFirst(added, i)
    <2>1. i \in 1 .. Cardinality(added)
      BY <1>2, <1>3
    <2>2. x \in added /\ Cardinality({d \in added : Number(d) > Number(x)}) = i - 1
      BY <1>6, <2>1, Zenon
    <2>3. Number(new) - Number(x) = i - 1
      BY <1>4, <2>2, Zenon
    <2>4. Number(x) = Number(c)
      BY <1>2, <2>2, <2>3
    <2>5. x = c
      BY <1>1, <2>2, <2>4, OneOfEach DEF Above
    <2> QED
      BY <2>1, <2>5
  <1>8. Cardinality(added) \in Nat
    BY <1>1, <1>2, <1>3
  <1> QED
    BY <1>8, <1>6, <1>7, Zenon

-----------------------------------------------------------------------------
(* Writes, in groups.                                                      *)

Partial(D, R) == UNION {[S -> R] : S \in SUBSET D}

Tables == {"hdr", "body", "td", "state"}

Writes == [add : SUBSET Tables, del : SUBSET Tables, blk : Block,
           canon : Partial(Numbers, Block \cup {None}), lookup : Partial(Tx, Block \cup {None}),
           head : Partial({"block", "header", "fast"}, Block), then : {"continue", "load", "panic"}]

Groups == Seq(Writes) \ {<<>>}

\* The groups s have the write w.
Among(s, w) == \E i \in DOMAIN s : \E j \in DOMAIN s[i] : s[i][j] = w

\* The writes of two lists of groups, one after the other.
LEMMA AmongConcat ==
    ASSUME NEW r \in Seq(Groups), NEW s \in Seq(Groups)
    PROVE  /\ r \o s \in Seq(Groups)
           /\ \A w : Among(r \o s, w) <=> Among(r, w) \/ Among(s, w)
  <1> DEFINE n == Len(r)
  <1>1. /\ r \o s \in Seq(Groups) /\ n \in Nat /\ Len(s) \in Nat
        /\ DOMAIN (r \o s) = 1 .. n + Len(s) /\ DOMAIN r = 1 .. n /\ DOMAIN s = 1 .. Len(s)
        /\ \A i \in 1 .. n : (r \o s)[i] = r[i]
        /\ \A i \in 1 .. Len(s) : (r \o s)[n + i] = s[i]
    <2> HIDE DEF Groups
    <2> QED
      OBVIOUS
  <1> HIDE DEF n
  <1>2. ASSUME NEW w, Among(r \o s, w) PROVE Among(r, w) \/ Among(s, w)
    <2>1. PICK i \in DOMAIN (r \o s) : \E j \in DOMAIN (r \o s)[i] : (r \o s)[i][j] = w
      BY <1>2 DEF Among
    <2>2. CASE i \in 1 .. n
      BY <1>1, <2>1, <2>2, ZenonT(40) DEF Among
    <2>3. CASE i \notin 1 .. n
      <3>1. i - n \in 1 .. Len(s) /\ n + (i - n) = i
        BY <1>1, <2>1, <2>3
      <3> QED
        BY <1>1, <2>1, <3>1 DEF Among
    <2> QED
      BY <2>2, <2>3
  <1>3. ASSUME NEW w, Among(r, w) PROVE Among(r \o s, w)
    <2>1. PICK i \in DOMAIN r : \E j \in DOMAIN r[i] : r[i][j] = w
      BY <1>3 DEF Among
    <2>2. i \in DOMAIN (r \o s) /\ (r \o s)[i] = r[i]
      BY <1>1, <2>1
    <2> QED
      BY <2>1, <2>2 DEF Among
  <1>4. ASSUME NEW w, Among(s, w) PROVE Among(r \o s, w)
    <2>1. PICK i \in DOMAIN s : \E j \in DOMAIN s[i] : s[i][j] = w
      BY <1>4 DEF Among
    <2>2. n + i \in DOMAIN (r \o s) /\ (r \o s)[n + i] = s[i]
      BY <1>1, <2>1
    <2> QED
      BY <2>1, <2>2 DEF Among
  <1> QED
    BY <1>1, <1>2, <1>3, <1>4, Zenon

\* The last group sets the head to t, and does so last.
Due(s, t) ==
    /\ s # <<>>
    /\ \E j \in DOMAIN s[Len(s)] :
          /\ "block" \in DOMAIN s[Len(s)][j].head /\ s[Len(s)][j].head["block"] = t
          /\ \A k \in DOMAIN s[Len(s)] : k > j => "block" \notin DOMAIN s[Len(s)][k].head

\* The groups s set the head to no block.
Headless(s) == \A i \in DOMAIN s : \A j \in DOMAIN s[i] : "block" \notin DOMAIN s[i][j].head

\* Doing the first write: it is one of them, the others are left.
LEMMA RestFacts ==
    ASSUME wal \in Seq(Groups), wal # <<>>
    PROVE  /\ Rest \in Seq(Groups)
           /\ Head(Head(wal)) \in Writes /\ Among(wal, Head(Head(wal)))
           /\ \A v : Among(Rest, v) => Among(wal, v)
           /\ \A v : Among(wal, v) => v = Head(Head(wal)) \/ Among(Rest, v)
           /\ \A t : Due(wal, t) =>
                  \/ Due(Rest, t)
                  \/ /\ Headless(Rest)
                     /\ "block" \in DOMAIN Head(Head(wal)).head
                     /\ Head(Head(wal)).head["block"] = t
  <1> DEFINE g == Head(wal)
             w == Head(g)
  <1>1. /\ g \in Groups /\ g = wal[1] /\ Tail(wal) \in Seq(Groups)
        /\ Len(wal) \in Nat \ {0} /\ DOMAIN wal = 1 .. Len(wal) /\ Len(Tail(wal)) = Len(wal) - 1
        /\ DOMAIN Tail(wal) = 1 .. Len(wal) - 1
        /\ \A i \in 1 .. Len(wal) - 1 : Tail(wal)[i] = wal[i + 1]
    <2> HIDE DEF Groups
    <2> QED
      OBVIOUS
  <1>2. g \in Seq(Writes) /\ g # <<>>
    BY <1>1 DEF Groups
  <1>3. /\ w \in Writes /\ w = g[1] /\ Tail(g) \in Seq(Writes)
        /\ Len(g) \in Nat \ {0} /\ DOMAIN g = 1 .. Len(g) /\ Len(Tail(g)) = Len(g) - 1
        /\ DOMAIN Tail(g) = 1 .. Len(g) - 1
        /\ \A i \in 1 .. Len(g) - 1 : Tail(g)[i] = g[i + 1]
    <2> HIDE DEF Writes, g
    <2> QED
      BY <1>2
  <1>4. 1 \in DOMAIN wal /\ 1 \in DOMAIN wal[1] /\ wal[1][1] = w
    BY <1>1, <1>3
  <1>5. Among(wal, w)
    BY <1>4, ZenonT(40) DEF Among
  <1> HIDE DEF g, w
  <1>6. CASE Len(g) = 1
    <2>1. Rest = Tail(wal)
      BY <1>6 DEF Rest, g
    <2>2. ASSUME NEW v, Among(Rest, v) PROVE Among(wal, v)
      <3>1. PICK i \in 1 .. Len(wal) - 1 : \E j \in DOMAIN wal[i + 1] : wal[i + 1][j] = v
        BY <1>1, <2>1, <2>2 DEF Among
      <3>2. i + 1 \in DOMAIN wal
        BY <1>1
      <3> QED
        BY <3>1, <3>2 DEF Among
    <2>3. ASSUME NEW v, Among(wal, v) PROVE v = w \/ Among(Rest, v)
      <3>1. PICK i \in DOMAIN wal : \E j \in DOMAIN wal[i] : wal[i][j] = v
        BY <2>3 DEF Among
      <3>2. CASE i = 1
        BY <1>1, <1>3, <1>6, <3>1, <3>2, SMTT(40)
      <3>3. CASE i # 1
        <4>1. i - 1 \in 1 .. Len(wal) - 1 /\ Tail(wal)[i - 1] = wal[i]
          BY <1>1, <3>3
        <4> QED
          BY <1>1, <2>1, <3>1, <4>1 DEF Among
      <3> QED
        BY <3>2, <3>3
    <2>4. ASSUME NEW t, Due(wal, t)
          PROVE  Due(Rest, t) \/ (Headless(Rest) /\ "block" \in DOMAIN w.head /\ w.head["block"] = t)
      <3>1. CASE Len(wal) = 1
        <4>1. wal[Len(wal)] = g /\ DOMAIN g = {1}
          BY <1>1, <1>3, <1>6, <3>1
        <4>2. "block" \in DOMAIN w.head /\ w.head["block"] = t
          BY <1>3, <2>4, <4>1, Zenon DEF Due
        <4>3. DOMAIN Rest = {}
          BY <1>1, <2>1, <3>1
        <4> QED
          BY <4>2, <4>3 DEF Headless
      <3>2. CASE Len(wal) # 1
        <4>0. Len(wal) - 1 \in 1 .. Len(wal) - 1 /\ (Len(wal) - 1) + 1 = Len(wal)
          BY <1>1, <3>2
        <4>1. /\ Len(Rest) = Len(wal) - 1 /\ Rest[Len(Rest)] = wal[Len(wal)] /\ Rest # <<>>
          BY <1>1, <2>1, <4>0, SMTT(40)
        <4> QED
          BY <2>4, <4>1 DEF Due
      <3> QED
        BY <3>1, <3>2
    <2> QED
      BY <1>1, <1>3, <1>5, <2>1, <2>2, <2>3, <2>4, ZenonT(40) DEF g, w
  <1>7. CASE Len(g) # 1
    <2>1. Rest = <<Tail(g)>> \o Tail(wal)
      BY <1>7 DEF Rest, g
    <2>2. Tail(g) \in Groups
      <3>1. Len(Tail(g)) # 0
        BY <1>3, <1>7
      <3>2. Len(<<>>) = 0
        OBVIOUS
      <3>3. Tail(g) # <<>>
        BY <3>1, <3>2, Zenon
      <3> QED
        BY <1>3, <3>3, Zenon DEF Groups
    <2>3. /\ Rest \in Seq(Groups) /\ Len(Rest) = Len(wal) /\ DOMAIN Rest = 1 .. Len(wal)
          /\ Rest[1] = Tail(g) /\ \A i \in 2 .. Len(wal) : Rest[i] = wal[i]
      <3> HIDE DEF Groups
      <3> QED
        BY <1>1, <2>1, <2>2
    <2>4. ASSUME NEW v, Among(Rest, v) PROVE Among(wal, v)
      <3>1. PICK i \in 1 .. Len(wal) : \E j \in DOMAIN Rest[i] : Rest[i][j] = v
        BY <2>3, <2>4 DEF Among
      <3>2. CASE i = 1
        <4>1. PICK j \in 1 .. Len(g) - 1 : g[j + 1] = v
          BY <1>3, <2>3, <3>1, <3>2, ZenonT(40)
        <4>2. j + 1 \in DOMAIN wal[1] /\ wal[1][j + 1] = v /\ 1 \in DOMAIN wal
          BY <1>1, <1>3, <4>1
        <4> QED
          BY <4>2 DEF Among
      <3>3. CASE i # 1
        <4>1. i \in DOMAIN wal /\ Rest[i] = wal[i]
          BY <1>1, <2>3, <3>3
        <4> QED
          BY <3>1, <4>1 DEF Among
      <3> QED
        BY <3>2, <3>3
    <2>5. ASSUME NEW v, Among(wal, v) PROVE v = w \/ Among(Rest, v)
      <3>0. PICK i \in DOMAIN wal : \E j \in DOMAIN wal[i] : wal[i][j] = v
        BY <2>5 DEF Among
      <3>1. PICK j \in DOMAIN wal[i] : wal[i][j] = v
        BY <3>0
      <3>2. CASE i = 1 /\ j = 1
        BY <1>4, <3>1, <3>2
      <3>3. CASE i = 1 /\ j # 1
        <4>1. j - 1 \in DOMAIN Rest[1] /\ Rest[1][j - 1] = v /\ 1 \in DOMAIN Rest
          BY <1>1, <1>3, <2>3, <3>1, <3>3
        <4> QED
          BY <4>1 DEF Among
      <3>4. CASE i # 1
        <4>1. i \in DOMAIN Rest /\ Rest[i] = wal[i]
          BY <1>1, <2>3, <3>4
        <4> QED
          BY <3>1, <4>1 DEF Among
      <3> QED
        BY <3>2, <3>3, <3>4
    <2>6. ASSUME NEW t, Due(wal, t)
          PROVE  Due(Rest, t) \/ (Headless(Rest) /\ "block" \in DOMAIN w.head /\ w.head["block"] = t)
      <3>0. Rest # <<>>
        BY <1>1, <2>3
      <3>1. CASE Len(wal) = 1
        <4>1. /\ wal[Len(wal)] = g /\ Rest[Len(Rest)] = Tail(g)
          BY <1>1, <2>3, <3>1
        <4>2. PICK j \in 1 .. Len(g) :
                 /\ "block" \in DOMAIN g[j].head /\ g[j].head["block"] = t
                 /\ \A k \in 1 .. Len(g) : k > j => "block" \notin DOMAIN g[k].head
          BY <1>3, <2>6, <4>1, Zenon DEF Due
        <4>3. CASE j = 1
          <5>1. ASSUME NEW v, Among(Rest, v) PROVE "block" \notin DOMAIN v.head
            <6>0. PICK i \in 1 .. Len(wal) : \E k \in DOMAIN Rest[i] : Rest[i][k] = v
              BY <2>3, <5>1 DEF Among
            <6>1. PICK k \in DOMAIN Rest[i] : Rest[i][k] = v
              BY <6>0
            <6>2. i = 1 /\ k \in 1 .. Len(g) - 1 /\ v = g[k + 1]
              BY <1>3, <2>3, <3>1, <6>1
            <6>3. k + 1 \in 1 .. Len(g) /\ k + 1 > j
              BY <1>3, <4>3, <6>2
            <6> QED
              BY <4>2, <6>2, <6>3
          <5> QED
            BY <1>3, <4>2, <4>3, <5>1, ZenonT(40) DEF Headless, Among
        <4>4. CASE j # 1
          <5>1. j - 1 \in 1 .. Len(g) - 1 /\ Tail(g)[j - 1] = g[j]
            BY <1>3, <4>4
          <5>2. ASSUME NEW k \in 1 .. Len(g) - 1, k > j - 1 PROVE "block" \notin DOMAIN Tail(g)[k].head
            BY <1>3, <4>2, <5>2
          <5>3. \A k \in DOMAIN Tail(g) : k > j - 1 => "block" \notin DOMAIN Tail(g)[k].head
            BY <1>3, <5>2
          <5>4. j - 1 \in DOMAIN Tail(g)
            BY <1>3, <5>1
          <5> QED
            BY <3>0, <4>1, <4>2, <5>1, <5>3, <5>4, Zenon DEF Due
        <4> QED
          BY <4>3, <4>4
      <3>2. CASE Len(wal) # 1
        <4>1. Rest[Len(Rest)] = wal[Len(wal)]
          BY <1>1, <2>3, <3>2
        <4> QED
          BY <2>6, <3>0, <4>1 DEF Due
      <3> QED
        BY <3>1, <3>2
    <2> QED
      BY <1>3, <1>5, <2>3, <2>4, <2>5, <2>6, ZenonT(40) DEF g, w
  <1> QED
    BY <1>6, <1>7

-----------------------------------------------------------------------------
(* The writes of an import.                                                *)

\* A function on part of D is a partial function on D.
LEMMA IntoPartial ==
    ASSUME NEW D, NEW R, NEW S \in SUBSET D, NEW f \in [S -> R]
    PROVE  f \in Partial(D, R)
  BY DEF Partial

\* A write made of typed parts is typed.
LEMMA Made ==
    ASSUME NEW add \in SUBSET Tables, NEW b \in Block,
           NEW canon \in Partial(Numbers, Block \cup {None}),
           NEW lookup \in Partial(Tx, Block \cup {None}),
           NEW head \in Partial({"block", "header", "fast"}, Block)
    PROVE  Write(add, {}, b, canon, lookup, head) \in Writes
  <1> DEFINE C == Partial(Numbers, Block \cup {None})
             L == Partial(Tx, Block \cup {None})
             H == Partial({"block", "header", "fast"}, Block)
  <1>1. canon \in C /\ lookup \in L /\ head \in H
    OBVIOUS
  <1>2. Writes = [add : SUBSET Tables, del : SUBSET Tables, blk : Block, canon : C,
                  lookup : L, head : H, then : {"continue", "load", "panic"}]
    BY DEF Writes
  <1> HIDE DEF C, L, H
  <1> QED
    BY <1>1, <1>2 DEF Write

\* Writing nothing is a partial function.
LEMMA NothingWritten == \A D, R : Nothing \in Partial(D, R)
  <1> SUFFICES ASSUME NEW D, NEW R PROVE Nothing \in Partial(D, R)
    OBVIOUS
  <1>1. Nothing \in [{} -> R]
    BY DEF Nothing
  <1> QED
    BY <1>1, IntoPartial, Zenon

HeadNames == {"block", "header", "fast"}

\* The writes are typed.
LEMMA Kinds ==
    ASSUME NEW b \in Block
    PROVE  /\ Put({"td"}, b) \in Writes
           /\ WriteCanonicalHash(b) \in Writes
           /\ \A h \in HeadNames : WriteHead(h, b) \in Writes
           /\ WriteTxLookupEntries(b) \in Writes
           /\ Batch(b, TRUE) \in Writes /\ Batch(b, FALSE) \in Writes
           /\ \A S \in SUBSET Tx : DeleteTxLookupEntries(S) \in Writes
  <1> DEFINE T == {"hdr", "body", "state"}
  <1>1. {} \in SUBSET Tables /\ {"td"} \in SUBSET Tables /\ T \in SUBSET Tables
    BY DEF Tables
  <1> HIDE DEF T
  <1>2. [n \in {Number(b)} |-> b] \in Partial(Numbers, Block \cup {None})
    <2>1. {Number(b)} \in SUBSET Numbers
      BY DEF Numbers
    <2>2. [n \in {Number(b)} |-> b] \in [{Number(b)} -> Block \cup {None}]
      OBVIOUS
    <2> QED
      BY <2>1, <2>2, IntoPartial, SMTT(40)
  <1>3. ASSUME NEW h \in HeadNames PROVE [k \in {h} |-> b] \in Partial({"block", "header", "fast"}, Block)
    <2>1. {h} \in SUBSET {"block", "header", "fast"} /\ [k \in {h} |-> b] \in [{h} -> Block]
      BY DEF HeadNames
    <2> QED
      BY <2>1, IntoPartial
  <1>4. [t \in Txs[b] |-> b] \in Partial(Tx, Block \cup {None})
    <2>1. Txs[b] \in SUBSET Tx
      BY ChainAssumption
    <2>2. [t \in Txs[b] |-> b] \in [Txs[b] -> Block \cup {None}]
      OBVIOUS
    <2> QED
      BY <2>1, <2>2, IntoPartial, Zenon
  <1>5. ASSUME NEW S \in SUBSET Tx PROVE [t \in S |-> None] \in Partial(Tx, Block \cup {None})
    <2>1. [t \in S |-> None] \in [S -> Block \cup {None}]
      OBVIOUS
    <2> QED
      BY <2>1, IntoPartial
  <1>6. Put({"td"}, b) \in Writes /\ WriteCanonicalHash(b) \in Writes
    BY <1>1, <1>2, NothingWritten, Made, Zenon DEF Put, WriteCanonicalHash
  <1>7. ASSUME NEW h \in HeadNames PROVE WriteHead(h, b) \in Writes
    BY <1>1, <1>3, NothingWritten, Made, Zenon DEF WriteHead
  <1>8. WriteTxLookupEntries(b) \in Writes
    BY <1>1, <1>4, NothingWritten, Made, ZenonT(40) DEF WriteTxLookupEntries
  <1>9. Batch(b, TRUE) \in Writes /\ Batch(b, FALSE) \in Writes
    <2>1. /\ Batch(b, TRUE) = Write(T, {}, b, Nothing, [t \in Txs[b] |-> b], Nothing)
          /\ Batch(b, FALSE) = Write(T, {}, b, Nothing, Nothing, Nothing)
      BY DEF Batch, T
    <2> QED
      BY <1>1, <1>4, <2>1, NothingWritten, Made, ZenonT(40)
  <1>10. ASSUME NEW S \in SUBSET Tx PROVE DeleteTxLookupEntries(S) \in Writes
    <2>1. Genesis \in Block
      BY Links, SMTT(40)
    <2> QED
      BY <1>1, <1>5, <2>1, NothingWritten, Made, ZenonT(40) DEF DeleteTxLookupEntries
  <1> QED
    BY <1>6, <1>7, <1>8, <1>9, <1>10, Zenon

\* What a number n names, and where a transaction x is found, when t is the head.
Numbered(t, n, v) == \/ v \in Chain(t) /\ Number(v) = n
                     \/ v = None /\ n > Number(t)

Found(t, x, v) == \/ v \in Chain(t) /\ x \in Txs[v]
                  \/ v = None /\ \A c \in Chain(t) : x \notin Txs[c]

\* A write that agrees with t as the head.
Good(w, t) ==
    /\ w.then = "continue"
    /\ w.blk \in Block /\ ("hdr" \in w.add => Number(w.blk) <= Number(t))
    /\ \A n \in DOMAIN w.canon : Numbered(t, n, w.canon[n])
    /\ \A x \in DOMAIN w.lookup : Found(t, x, w.lookup[x])

\* The writes of an import that agree with t as the head.
LEMMA GoodWrites ==
    ASSUME NEW t \in Block
    PROVE  /\ \A c \in Block : Good(Put({"td"}, c), t)
           /\ \A c \in Block : Number(c) <= Number(t) => Good(Batch(c, FALSE), t)
           /\ \A c \in Chain(t) : /\ Good(WriteCanonicalHash(c), t) /\ Good(WriteTxLookupEntries(c), t)
                                  /\ \A h \in HeadNames : Good(WriteHead(h, c), t)
                                  /\ Good(Batch(c, TRUE), t)
           /\ \A S : (\A x \in S, c \in Chain(t) : x \notin Txs[c]) => Good(DeleteTxLookupEntries(S), t)
  <1>1. /\ \A c \in Chain(t) : c \in Block /\ Number(c) <= Number(t)
        /\ Genesis \in Block
    BY ChainFacts, Links
  <1>2. ASSUME NEW c \in Block PROVE Good(Put({"td"}, c), t)
    BY SMTT(40) DEF Good, Put, Write, Nothing
  <1>3. ASSUME NEW c \in Block, Number(c) <= Number(t) PROVE Good(Batch(c, FALSE), t)
    BY <1>3, ZenonT(40) DEF Good, Batch, Write, Nothing
  <1>4. ASSUME NEW c \in Chain(t) PROVE Good(WriteCanonicalHash(c), t)
    BY <1>1, SMTT(40) DEF Good, WriteCanonicalHash, Write, Nothing, Numbered
  <1>5. ASSUME NEW c \in Chain(t) PROVE Good(WriteTxLookupEntries(c), t)
    BY <1>1, ZenonT(40) DEF Good, WriteTxLookupEntries, Write, Nothing, Found
  <1>6. ASSUME NEW c \in Chain(t), NEW h \in HeadNames PROVE Good(WriteHead(h, c), t)
    BY <1>1, SMTT(40) DEF Good, WriteHead, Write, Nothing
  <1>7. ASSUME NEW c \in Chain(t) PROVE Good(Batch(c, TRUE), t)
    BY <1>1, ZenonT(40) DEF Good, Batch, Write, Nothing, Found
  <1>8. ASSUME NEW S, \A x \in S, c \in Chain(t) : x \notin Txs[c]
        PROVE  Good(DeleteTxLookupEntries(S), t)
    BY <1>1, <1>8, ZenonT(40) DEF Good, DeleteTxLookupEntries, Write, Nothing, Found
  <1> QED
    BY <1>2, <1>3, <1>4, <1>5, <1>6, <1>7, <1>8, ZenonT(40)

\* Which writes set the head, number a block or record a transaction.
LEMMA Entries ==
    /\ \A b : Number(b) \in DOMAIN WriteCanonicalHash(b).canon
    /\ \A b : DOMAIN WriteTxLookupEntries(b).lookup = Txs[b] /\ DOMAIN Batch(b, TRUE).lookup = Txs[b]
    /\ \A S : DOMAIN DeleteTxLookupEntries(S).lookup = S
    /\ \A b : "block" \in DOMAIN WriteHead("block", b).head /\ WriteHead("block", b).head["block"] = b
    /\ \A b : /\ "block" \notin DOMAIN WriteHead("header", b).head
              /\ "block" \notin DOMAIN WriteHead("fast", b).head
              /\ "block" \notin DOMAIN Put({"td"}, b).head
              /\ "block" \notin DOMAIN Batch(b, FALSE).head
  BY ZenonT(40) DEF WriteCanonicalHash, WriteTxLookupEntries, Batch, DeleteTxLookupEntries, WriteHead, Put,
         Write, Nothing

-----------------------------------------------------------------------------
(* Insertions and reorganisations.                                         *)

InsertWrites(b) == {WriteCanonicalHash(b), WriteHead("block", b),
                    WriteHead("header", b), WriteHead("fast", b)}

\* insert numbers the block, then makes it the head.
LEMMA InsertGroup ==
    ASSUME NEW b \in Block, NEW canonical
    PROVE  /\ Insert(b, canonical) \in Seq(Writes)
           /\ 1 \in DOMAIN Insert(b, canonical) /\ Insert(b, canonical)[1] = WriteCanonicalHash(b)
           /\ 2 \in DOMAIN Insert(b, canonical) /\ Insert(b, canonical)[2] = WriteHead("block", b)
           /\ \A j \in DOMAIN Insert(b, canonical) :
                 /\ Insert(b, canonical)[j] \in InsertWrites(b)
                 /\ j > 2 => Insert(b, canonical)[j] \in {WriteHead("header", b), WriteHead("fast", b)}
  <1> DEFINE x == WriteCanonicalHash(b)
             y == WriteHead("block", b)
             z == WriteHead("header", b)
             u == WriteHead("fast", b)
  <1>1. x \in Writes /\ y \in Writes /\ z \in Writes /\ u \in Writes
    BY Kinds, ZenonT(40) DEF HeadNames
  <1>2. Insert(b, canonical) = <<x, y>> \o (IF canonical THEN <<>> ELSE <<z, u>>)
    BY DEF Insert
  <1>3. InsertWrites(b) = {x, y, z, u}
    BY DEF InsertWrites
  <1> HIDE DEF x, y, z, u, Writes
  <1>4. CASE canonical
    <2>1. Insert(b, canonical) = <<x, y>>
      BY <1>1, <1>2, <1>4, SMTT(40)
    <2> QED
      BY <1>1, <1>3, <2>1 DEF x, y
  <1>5. CASE ~canonical
    <2> DEFINE I == <<x, y>> \o <<z, u>>
    <2>1. Insert(b, canonical) = I
      BY <1>2, <1>5, ZenonT(40)
    <2>2. /\ I \in Seq(Writes) /\ DOMAIN I = 1 .. 4
          /\ I[1] = x /\ I[2] = y /\ I[3] = z /\ I[4] = u
      BY <1>1, SMTT(40)
    <2> HIDE DEF I
    <2>3. ASSUME NEW j \in DOMAIN I
          PROVE  I[j] \in InsertWrites(b) /\ (j > 2 => I[j] \in {z, u})
      <3>1. j = 1 \/ j = 2 \/ j = 3 \/ j = 4
        BY <2>2
      <3> QED
        BY <1>3, <2>2, <3>1, SMTT(40)
    <2>4. 1 \in DOMAIN I /\ 2 \in DOMAIN I
      BY <2>2, SMTT(40)
    <2> QED
      BY <2>1, <2>2, <2>3, <2>4, ZenonT(40) DEF x, y, z, u
  <1> QED
    BY <1>4, <1>5, SMTT(40)

\* The group in which reorg inserts a block.
ReorgGroup(b, canonical) == Insert(b, canonical) \o <<WriteTxLookupEntries(b)>>

\* The writes with which reorg inserts a block.
LEMMA GroupOfReorg ==
    ASSUME NEW b \in Block, NEW canonical
    PROVE  /\ ReorgGroup(b, canonical) \in Groups
           /\ \A j \in DOMAIN ReorgGroup(b, canonical) :
                 ReorgGroup(b, canonical)[j] \in InsertWrites(b) \cup {WriteTxLookupEntries(b)}
           /\ \E j \in DOMAIN ReorgGroup(b, canonical) : ReorgGroup(b, canonical)[j] = WriteCanonicalHash(b)
           /\ \E j \in DOMAIN ReorgGroup(b, canonical) : ReorgGroup(b, canonical)[j] = WriteTxLookupEntries(b)
  <1> DEFINE I == Insert(b, canonical)
             v == WriteTxLookupEntries(b)
             G == ReorgGroup(b, canonical)
             n == Len(I)
  <1>1. I \in Seq(Writes) /\ v \in Writes
    BY InsertGroup, Kinds, Zenon
  <1>2. 1 \in DOMAIN I /\ I[1] = WriteCanonicalHash(b) /\ \A j \in DOMAIN I : I[j] \in InsertWrites(b)
    BY InsertGroup
  <1>3. G = I \o <<v>>
    BY DEF ReorgGroup
  <1> HIDE DEF I, v, G
  <1>4. /\ G \in Seq(Writes) /\ n \in Nat /\ DOMAIN I = 1 .. n /\ DOMAIN G = 1 .. n + 1
        /\ \A j \in 1 .. n : G[j] = I[j]
        /\ G[n + 1] = v
    <2> HIDE DEF Writes
    <2> QED
      BY <1>1, <1>3
  <1> HIDE DEF n
  <1>5. ASSUME NEW j \in DOMAIN G PROVE G[j] \in InsertWrites(b) \cup {v}
    <2>1. CASE j \in 1 .. n
      BY <1>2, <1>4, <2>1, ZenonT(40)
    <2>2. CASE j \notin 1 .. n
      <3>1. j = n + 1
        BY <1>4, <2>2, SMTT(40)
      <3> QED
        BY <1>4, <3>1, SMTT(40)
    <2> QED
      BY <2>1, <2>2, SMTT(40)
  <1>6. 1 \in DOMAIN G /\ G[1] = WriteCanonicalHash(b) /\ n + 1 \in DOMAIN G
    BY <1>2, <1>4, SMTT(40)
  <1>7. G # <<>>
    BY <1>4, <1>6
  <1> QED
    BY <1>4, <1>5, <1>6, <1>7, SMTT(40) DEF Groups, G, v

Added(old, new) == Chain(new) \ Chain(old)
Dropped(old, new) ==
    (UNION {Txs[b] : b \in Chain(old) \ Chain(new)}) \ (UNION {Txs[b] : b \in Added(old, new)})

\* A reorganisation inserts the blocks that are added, and drops the lookups.
LEMMA ReorgWrites ==
    ASSUME NEW old \in Block, NEW new \in Block
    PROVE  /\ Reorg(old, new) \in Seq(Groups)
           /\ \A w : Among(Reorg(old, new), w) =>
                 \/ \E c \in Added(old, new) : w \in InsertWrites(c) \cup {WriteTxLookupEntries(c)}
                 \/ w = DeleteTxLookupEntries(Dropped(old, new))
           /\ \A c \in Added(old, new) : /\ Among(Reorg(old, new), WriteCanonicalHash(c))
                                         /\ Among(Reorg(old, new), WriteTxLookupEntries(c))
           /\ Among(Reorg(old, new), DeleteTxLookupEntries(Dropped(old, new)))
  <1> DEFINE A == Added(old, new)
             m == Cardinality(A)
             c(i) == NewestFirst(A, i)
             R == [i \in 1 .. m |-> ReorgGroup(c(i), db.canon[Number(c(i))] = c(i))]
             d == DeleteTxLookupEntries(Dropped(old, new))
             D == <<<<d>>>>
  <1>1. Reorg(old, new) = R \o D
    BY SMTT(40) DEF Reorg, Added, Dropped, ReorgGroup
  <1>2. /\ m \in Nat
        /\ \A i \in 1 .. m : c(i) \in A
        /\ \A b \in A : \E i \in 1 .. m : c(i) = b
    BY Listed, SMTT(40) DEF Added
  <1>3. \A b \in A : b \in Block
    BY ChainFacts DEF Added
  <1>4. Dropped(old, new) \in SUBSET Tx
    <2>1. \A b \in Chain(old) : Txs[b] \subseteq Tx
      BY ChainFacts, ChainAssumption
    <2> QED
      BY <2>1 DEF Dropped
  <1>5. d \in Writes
    BY <1>4, Kinds, Links, ZenonT(40)
  <1> HIDE DEF m, A, c, d
  <1>6. \A i \in 1 .. m : ReorgGroup(c(i), db.canon[Number(c(i))] = c(i)) \in Groups
    BY <1>2, <1>3, GroupOfReorg, Zenon
  <1>7. R \in Seq(Groups) /\ DOMAIN R = 1 .. m
    <2> HIDE DEF Groups
    <2> QED
      BY <1>2, <1>6, SMTT(40)
  <1>8. \A i \in 1 .. m : R[i] = ReorgGroup(c(i), db.canon[Number(c(i))] = c(i))
    BY SMTT(40)
  <1>9. D \in Seq(Groups) /\ \A w : Among(D, w) <=> w = d
    <2>1. <<d>> \in Groups /\ DOMAIN <<d>> = {1} /\ <<d>>[1] = d
      <3> HIDE DEF Writes
      <3> QED
        BY <1>5, SMTT(40) DEF Groups
    <2> DEFINE e == <<d>>
    <2>2. e \in Groups /\ DOMAIN e = {1} /\ e[1] = d
      BY <2>1, SMTT(40)
    <2> HIDE DEF e, Groups
    <2>3. <<e>> \in Seq(Groups) /\ DOMAIN <<e>> = {1} /\ <<e>>[1] = e
      BY <2>2, SMTT(40)
    <2>4. D = <<e>>
      BY DEF e
    <2> QED
      BY <2>2, <2>3, <2>4, ZenonT(40) DEF Among
  <1> HIDE DEF R, D
  <1>10. /\ R \o D \in Seq(Groups)
         /\ \A w : Among(R \o D, w) <=> Among(R, w) \/ w = d
    BY <1>7, <1>9, AmongConcat, SMTT(40)
  <1>11. ASSUME NEW w, Among(R, w)
         PROVE  \E b \in A : w \in InsertWrites(b) \cup {WriteTxLookupEntries(b)}
    <2>1. PICK i \in 1 .. m : \E j \in DOMAIN R[i] : R[i][j] = w
      BY <1>7, <1>11, SMTT(40) DEF Among
    <2>2. c(i) \in A /\ c(i) \in Block
      BY <1>2, <1>3, SMTT(40)
    <2>3. \A j \in DOMAIN R[i] : R[i][j] \in InsertWrites(c(i)) \cup {WriteTxLookupEntries(c(i))}
      BY <1>8, <2>2, GroupOfReorg, ZenonT(40)
    <2> QED
      BY <2>1, <2>2, <2>3, ZenonT(40)
  <1>12. ASSUME NEW b \in A
         PROVE  Among(R, WriteCanonicalHash(b)) /\ Among(R, WriteTxLookupEntries(b))
    <2>1. PICK i \in 1 .. m : c(i) = b
      BY <1>2, SMTT(40)
    <2>2. b \in Block /\ R[i] = ReorgGroup(b, db.canon[Number(b)] = b) /\ i \in DOMAIN R
      BY <1>3, <1>7, <1>8, <2>1, ZenonT(40)
    <2> DEFINE k == db.canon[Number(b)] = b
    <2>3. R[i] = ReorgGroup(b, k)
      BY <2>2, SMTT(40)
    <2> HIDE DEF k
    <2>4. \E j \in DOMAIN ReorgGroup(b, k) : ReorgGroup(b, k)[j] = WriteCanonicalHash(b)
      BY <2>2, GroupOfReorg, ZenonT(40)
    <2>5. \E j \in DOMAIN ReorgGroup(b, k) : ReorgGroup(b, k)[j] = WriteTxLookupEntries(b)
      BY <2>2, GroupOfReorg, ZenonT(40)
    <2> QED
      BY <2>2, <2>3, <2>4, <2>5, ZenonT(40) DEF Among
  <1> QED
    BY <1>1, <1>10, <1>11, <1>12, ZenonT(40) DEF A, d

-----------------------------------------------------------------------------
(* The state while t becomes the head.                                     *)

\* With the writes s done, t is the head block: they agree with t, and so does what is
\* on disk and not written again, the numbers c, the lookups l and the blocks hdr.
Settles(s, c, l, hdr, head, t) ==
    /\ \A i \in DOMAIN s : \A j \in DOMAIN s[i] : Good(s[i][j], t)
    /\ \A n \in Numbers : \/ Numbered(t, n, c[n])
                          \/ \E i \in DOMAIN s : \E j \in DOMAIN s[i] : n \in DOMAIN s[i][j].canon
    /\ \A x \in Tx : \/ Found(t, x, l[x])
                     \/ \E i \in DOMAIN s : \E j \in DOMAIN s[i] : x \in DOMAIN s[i][j].lookup
    /\ \A b \in hdr : Number(b) <= Number(t)
    /\ Due(s, t) \/ (head = t /\ Headless(s))

\* Settles, in terms of the writes alone.
LEMMA SettlesAmong ==
    ASSUME NEW s, NEW c, NEW l, NEW hdr, NEW head, NEW t
    PROVE  /\ Headless(s) <=> \A w : Among(s, w) => "block" \notin DOMAIN w.head
           /\ Settles(s, c, l, hdr, head, t) <=>
                /\ \A w : Among(s, w) => Good(w, t)
                /\ \A n \in Numbers : Numbered(t, n, c[n]) \/ \E w : Among(s, w) /\ n \in DOMAIN w.canon
                /\ \A x \in Tx : Found(t, x, l[x]) \/ \E w : Among(s, w) /\ x \in DOMAIN w.lookup
                /\ \A b \in hdr : Number(b) <= Number(t)
                /\ Due(s, t) \/ (head = t /\ Headless(s))
  <1>1. (\A i \in DOMAIN s : \A j \in DOMAIN s[i] : Good(s[i][j], t)) <=> \A w : Among(s, w) => Good(w, t)
    BY Zenon DEF Among
  <1>2. ASSUME NEW n
        PROVE  (\E i \in DOMAIN s : \E j \in DOMAIN s[i] : n \in DOMAIN s[i][j].canon)
                 <=> \E w : Among(s, w) /\ n \in DOMAIN w.canon
    BY Zenon DEF Among
  <1>3. ASSUME NEW x
        PROVE  (\E i \in DOMAIN s : \E j \in DOMAIN s[i] : x \in DOMAIN s[i][j].lookup)
                 <=> \E w : Among(s, w) /\ x \in DOMAIN w.lookup
    BY Zenon DEF Among
  <1>4. Headless(s) <=> \A w : Among(s, w) => "block" \notin DOMAIN w.head
    BY Zenon DEF Among, Headless
  <1> QED
    BY <1>1, <1>2, <1>3, <1>4, ZenonT(40) DEF Settles

\* One write leaves the state on its way to t.
LEMMA WriteSettles ==
    ASSUME wal \in Seq(Groups), wal # <<>>, NEW w, w = Head(Head(wal)), NEW t \in Block,
           NEW c, DOMAIN c = Numbers, NEW l, DOMAIN l = Tx, NEW hdr,
           NEW m, DOMAIN m = {"block", "header", "fast"},
           NEW hdr2, \A b \in hdr2 : b \in hdr \/ ("hdr" \in w.add /\ b = w.blk),
           Settles(wal, c, l, hdr, m["block"], t)
    PROVE  Settles(Rest, Over(w.canon, c), Over(w.lookup, l), hdr2, Over(w.head, m)["block"], t)
  <1>1. /\ \A v : Among(wal, v) => Good(v, t)
        /\ \A n \in Numbers : Numbered(t, n, c[n]) \/ \E v : Among(wal, v) /\ n \in DOMAIN v.canon
        /\ \A x \in Tx : Found(t, x, l[x]) \/ \E v : Among(wal, v) /\ x \in DOMAIN v.lookup
        /\ \A b \in hdr : Number(b) <= Number(t)
        /\ Due(wal, t) \/ (m["block"] = t /\ Headless(wal))
    BY SettlesAmong, ZenonT(40)
  <1>2. /\ Among(wal, w)
        /\ \A v : Among(Rest, v) => Among(wal, v)
        /\ \A v : Among(wal, v) => v = w \/ Among(Rest, v)
        /\ Due(wal, t) => \/ Due(Rest, t)
                          \/ Headless(Rest) /\ "block" \in DOMAIN w.head /\ w.head["block"] = t
    BY RestFacts, Zenon
  <1>3. \A v : Among(Rest, v) => Good(v, t)
    BY <1>1, <1>2, ZenonT(40)
  <1>4. ASSUME NEW n \in Numbers
        PROVE  Numbered(t, n, Over(w.canon, c)[n]) \/ \E v : Among(Rest, v) /\ n \in DOMAIN v.canon
    <2>1. CASE n \in DOMAIN w.canon
      <3>1. Over(w.canon, c)[n] = w.canon[n]
        BY <2>1, SMTT(40) DEF Over
      <3>2. Numbered(t, n, w.canon[n])
        BY <1>1, <1>2, <2>1, ZenonT(40) DEF Good
      <3> QED
        BY <3>1, <3>2, ZenonT(40)
    <2>2. CASE n \notin DOMAIN w.canon
      <3>1. Over(w.canon, c)[n] = c[n]
        BY <2>2, SMTT(40) DEF Over
      <3> QED
        BY <1>1, <1>2, <2>2, <3>1, ZenonT(40)
    <2> QED
      BY <2>1, <2>2, ZenonT(40)
  <1>5. ASSUME NEW x \in Tx
        PROVE  Found(t, x, Over(w.lookup, l)[x]) \/ \E v : Among(Rest, v) /\ x \in DOMAIN v.lookup
    <2>1. CASE x \in DOMAIN w.lookup
      <3>1. Over(w.lookup, l)[x] = w.lookup[x]
        BY <2>1, SMTT(40) DEF Over
      <3>2. Found(t, x, w.lookup[x])
        BY <1>1, <1>2, <2>1, ZenonT(40) DEF Good
      <3> QED
        BY <3>1, <3>2, ZenonT(40)
    <2>2. CASE x \notin DOMAIN w.lookup
      <3>1. Over(w.lookup, l)[x] = l[x]
        BY <2>2, SMTT(40) DEF Over
      <3> QED
        BY <1>1, <1>2, <2>2, <3>1, ZenonT(40)
    <2> QED
      BY <2>1, <2>2, ZenonT(40)
  <1>6. \A b \in hdr2 : Number(b) <= Number(t)
    BY <1>1, <1>2, ZenonT(40) DEF Good
  <1>7. Due(Rest, t) \/ (Over(w.head, m)["block"] = t /\ Headless(Rest))
    <2>1. CASE Due(wal, t)
      <3>1. "block" \in DOMAIN w.head => Over(w.head, m)["block"] = w.head["block"]
        BY Zenon DEF Over
      <3> QED
        BY <1>2, <2>1, <3>1, ZenonT(40)
    <2>2. CASE m["block"] = t /\ Headless(wal)
      <3>1. "block" \notin DOMAIN w.head /\ Headless(Rest)
        BY <1>2, <2>2, SettlesAmong, ZenonT(40)
      <3>2. Over(w.head, m)["block"] = m["block"]
        BY <3>1, Zenon DEF Over
      <3> QED
        BY <2>2, <3>1, <3>2, ZenonT(40)
    <2> QED
      BY <1>1, <2>1, <2>2, ZenonT(40)
  <1> QED
    BY <1>3, <1>4, <1>5, <1>6, <1>7, SettlesAmong, ZenonT(40)

\* Which transactions are dropped.
LEMMA InDropped ==
    ASSUME NEW old, NEW new, NEW x
    PROVE  x \in Dropped(old, new) <=>
              /\ \E b \in Chain(old) \ Chain(new) : x \in Txs[b]
              /\ ~\E b \in Added(old, new) : x \in Txs[b]
  <1> DEFINE A == Chain(old) \ Chain(new)
             B == Added(old, new)
             U == UNION {Txs[b] : b \in A}
             V == UNION {Txs[b] : b \in B}
  <1>1. Dropped(old, new) = U \ V
    BY ZenonT(40) DEF Dropped
  <1> HIDE DEF A, B
  <1>2. x \in U <=> \E b \in A : x \in Txs[b]
    BY SMTT(40)
  <1>3. x \in V <=> \E b \in B : x \in Txs[b]
    BY SMTT(40)
  <1> HIDE DEF U, V
  <1> QED
    BY <1>1, <1>2, <1>3, ZenonT(40) DEF A, B

\* The transactions that are dropped are in no block of the new chain.
LEMMA DroppedGone ==
    ASSUME NEW old \in Block, NEW new \in Block
    PROVE  \A x \in Dropped(old, new), c \in Chain(new) : x \notin Txs[c]
  <1> SUFFICES ASSUME NEW x \in Dropped(old, new), NEW c \in Chain(new), x \in Txs[c] PROVE FALSE
    OBVIOUS
  <1>1. PICK b \in Chain(old) \ Chain(new) : x \in Txs[b]
    BY InDropped, Zenon
  <1>2. c \notin Added(old, new)
    BY InDropped, ZenonT(40)
  <1>3. c \in Chain(old) /\ c # b
    BY <1>1, <1>2, SMTT(40) DEF Added
  <1>4. Txs[b] \cap Txs[c] = {}
    BY <1>1, <1>3, NonceAssumption, ZenonT(40)
  <1> QED
    BY <1>1, <1>4, SMTT(40)

\* Writes that number the new branch, record its transactions and drop those of the old
\* one lead from a settled state to the new head.
LEMMA NewHeadSettles ==
    ASSUME NEW old \in Block, NEW new \in Block, Number(new) >= Number(old),
           NEW c, NEW l, NEW hdr, Settles(<<>>, c, l, hdr, old, old),
           NEW s, \A w : Among(s, w) => Good(w, new),
           \A d \in Added(old, new) : \E w : Among(s, w) /\ Number(d) \in DOMAIN w.canon,
           \A d \in Added(old, new) : \A x \in Txs[d] : \E w : Among(s, w) /\ x \in DOMAIN w.lookup,
           \A x \in Dropped(old, new) : \E w : Among(s, w) /\ x \in DOMAIN w.lookup,
           Due(s, new), hdr \subseteq Block
    PROVE  Settles(s, c, l, hdr, old, new)
  <1>1. /\ \A n \in Numbers : Numbered(old, n, c[n])
        /\ \A x \in Tx : Found(old, x, l[x])
        /\ \A b \in hdr : Number(b) <= Number(old)
    BY SMTT(40) DEF Settles
  <1>2. /\ Number(old) \in Nat /\ Number(new) \in Nat
        /\ \A n \in Numbers : n \in Nat
        /\ \A b \in hdr : Number(b) \in Nat
        /\ \A d \in Chain(old) : Number(d) \in Nat /\ Number(d) <= Number(old)
    BY Links, ChainFacts, SMTT(40) DEF Numbers
  <1>3. \A b \in hdr : Number(b) <= Number(new)
    BY <1>1, <1>2
  <1>4. ASSUME NEW n \in Numbers
        PROVE  Numbered(new, n, c[n]) \/ \E w : Among(s, w) /\ n \in DOMAIN w.canon
    <2>1. CASE n > Number(new)
      <3>1. n > Number(old)
        BY <1>2, <2>1, SMTT(40)
      <3>2. c[n] = None
        BY <1>1, <1>2, <3>1 DEF Numbered
      <3> QED
        BY <2>1, <3>2, ZenonT(40) DEF Numbered
    <2>2. CASE ~(n > Number(new))
      <3>1. PICK d \in Chain(new) : Number(d) = n
        BY <1>2, <2>2, OneOfEach
      <3>2. CASE d \in Chain(old)
        <4>1. PICK v : v = c[n]
          BY ZenonT(40)
        <4>2. v \in Chain(old) /\ Number(v) = n
          BY <1>1, <1>2, <3>1, <3>2, <4>1, SMTT(40) DEF Numbered
        <4>3. v = d
          BY <3>1, <3>2, <4>2, OneOfEach, ZenonT(40)
        <4> QED
          BY <3>1, <4>1, <4>3, Zenon DEF Numbered
      <3>3. CASE d \notin Chain(old)
        BY <3>1, <3>3, ZenonT(40) DEF Added
      <3> QED
        BY <3>2, <3>3, ZenonT(40)
    <2> QED
      BY <2>1, <2>2, ZenonT(40)
  <1>5. ASSUME NEW x \in Tx
        PROVE  Found(new, x, l[x]) \/ \E w : Among(s, w) /\ x \in DOMAIN w.lookup
    <2>1. CASE l[x] \in Chain(old) /\ x \in Txs[l[x]]
      <3>1. CASE l[x] \in Chain(new)
        BY <2>1, <3>1, ZenonT(40) DEF Found
      <3>2. CASE l[x] \notin Chain(new)
        <4>1. x \in Dropped(old, new) \/ \E d \in Added(old, new) : x \in Txs[d]
          <5>1. l[x] \in Chain(old) \ Chain(new)
            BY <2>1, <3>2, ZenonT(40)
          <5> QED
            BY <2>1, <5>1, InDropped, ZenonT(40)
        <4> QED
          BY <4>1, Zenon
      <3> QED
        BY <3>1, <3>2, ZenonT(40)
    <2>2. CASE l[x] = None /\ \A d \in Chain(old) : x \notin Txs[d]
      <3>1. CASE \A d \in Chain(new) : x \notin Txs[d]
        BY <2>2, <3>1, ZenonT(40) DEF Found
      <3>2. CASE \E d \in Chain(new) : x \in Txs[d]
        BY <2>2, <3>2, ZenonT(40) DEF Added
      <3> QED
        BY <3>1, <3>2, ZenonT(40)
    <2> QED
      BY <1>1, <2>1, <2>2, ZenonT(40) DEF Found
  <1> QED
    BY <1>3, <1>4, <1>5, SettlesAmong, ZenonT(40)

\* What WriteBlockAndState has to write for a block that becomes the head, given what a
\* reorganisation writes.
ToWrite(b, canonical, X) == <<<<Put({"td"}, b)>>>> \o X \o <<<<Batch(b, TRUE)>>, Insert(b, canonical)>>

\* What the last groups of an import of a new head write.
LEMMA LastGroups ==
    ASSUME NEW b \in Block, NEW canonical, NEW X \in Seq(Groups)
    PROVE  /\ ToWrite(b, canonical, X) \in Seq(Groups)
           /\ Due(ToWrite(b, canonical, X), b)
           /\ \A w : Among(ToWrite(b, canonical, X), w) =>
                 Among(X, w) \/ w \in InsertWrites(b) \cup {Put({"td"}, b), Batch(b, TRUE)}
           /\ \A w : Among(X, w) => Among(ToWrite(b, canonical, X), w)
           /\ Among(ToWrite(b, canonical, X), WriteCanonicalHash(b))
           /\ Among(ToWrite(b, canonical, X), Batch(b, TRUE))
  <1> DEFINE p == Put({"td"}, b)
             q == Batch(b, TRUE)
             g == <<p>>
             h == <<q>>
             I == Insert(b, canonical)
  <1>1. /\ p \in Writes /\ q \in Writes /\ I \in Seq(Writes)
        /\ 1 \in DOMAIN I /\ I[1] = WriteCanonicalHash(b)
        /\ 2 \in DOMAIN I /\ I[2] = WriteHead("block", b)
        /\ \A j \in DOMAIN I :
              /\ I[j] \in InsertWrites(b)
              /\ j > 2 => I[j] \in {WriteHead("header", b), WriteHead("fast", b)}
    BY Kinds, InsertGroup, ZenonT(40)
  <1>2. ToWrite(b, canonical, X) = <<g>> \o X \o <<h, I>>
    BY DEF ToWrite
  <1> HIDE DEF p, q, I
  <1>3. /\ g \in Groups /\ DOMAIN g = {1} /\ g[1] = p
        /\ h \in Groups /\ DOMAIN h = {1} /\ h[1] = q
    <2> HIDE DEF Writes
    <2> QED
      BY <1>1 DEF Groups
  <1>4. I \in Groups
    <2>1. I # <<>>
      BY <1>1, SMTT(40)
    <2> QED
      BY <1>1, <2>1, ZenonT(40) DEF Groups
  <1> HIDE DEF g, h
  <1>5. /\ <<g>> \in Seq(Groups) /\ \A w : Among(<<g>>, w) <=> w = p
    <2>1. <<g>> \in Seq(Groups) /\ DOMAIN <<g>> = {1} /\ <<g>>[1] = g
      <3> HIDE DEF Groups
      <3> QED
        BY <1>3, SMTT(40)
    <2> QED
      BY <1>3, <2>1, ZenonT(40) DEF Among
  <1>6. /\ <<h, I>> \in Seq(Groups)
        /\ \A w : Among(<<h, I>>, w) <=> w = q \/ \E j \in DOMAIN I : w = I[j]
    <2>1. <<h, I>> \in Seq(Groups) /\ DOMAIN <<h, I>> = {1, 2} /\ <<h, I>>[1] = h /\ <<h, I>>[2] = I
      <3> HIDE DEF Groups
      <3> QED
        BY <1>3, <1>4, SMTT(40)
    <2> QED
      BY <1>3, <2>1, ZenonT(40) DEF Among
  <1>7. /\ <<g>> \o X \in Seq(Groups)
        /\ \A w : Among(<<g>> \o X, w) <=> w = p \/ Among(X, w)
    BY <1>5, AmongConcat, ZenonT(40)
  <1> DEFINE Y == <<g>> \o X
             s == Y \o <<h, I>>
  <1>8. Y \in Seq(Groups) /\ \A w : Among(Y, w) <=> w = p \/ Among(X, w)
    BY <1>7, SMTT(40)
  <1> HIDE DEF Y
  <1>9. /\ s \in Seq(Groups)
        /\ \A w : Among(s, w) <=> Among(Y, w) \/ Among(<<h, I>>, w)
    BY <1>6, <1>8, AmongConcat, ZenonT(40)
  <1>10. s # <<>> /\ s[Len(s)] = I
    <2> HIDE DEF Groups
    <2> QED
      BY <1>3, <1>4, <1>8, SMTT(40)
  <1>11. ToWrite(b, canonical, X) = s
    BY <1>2, ZenonT(40) DEF Y
  <1> HIDE DEF s
  <1>12. Due(s, b)
    <2>1. "block" \in DOMAIN I[2].head /\ I[2].head["block"] = b
      BY <1>1, Entries, SMTT(40)
    <2>2. ASSUME NEW k \in DOMAIN I, k > 2 PROVE "block" \notin DOMAIN I[k].head
      BY <1>1, <2>2, Entries, ZenonT(40)
    <2> QED
      BY <1>1, <1>10, <2>1, <2>2, ZenonT(40) DEF Due
  <1>13. ASSUME NEW w, Among(s, w)
         PROVE  Among(X, w) \/ w \in InsertWrites(b) \cup {p, q}
    <2>1. w = p \/ Among(X, w) \/ w = q \/ \E j \in DOMAIN I : w = I[j]
      BY <1>6, <1>8, <1>9, <1>13, ZenonT(40)
    <2>2. (\E j \in DOMAIN I : w = I[j]) => w \in InsertWrites(b)
      BY <1>1, ZenonT(40)
    <2> QED
      BY <2>1, <2>2, Zenon
  <1>14. Among(s, WriteCanonicalHash(b)) /\ Among(s, q)
    BY <1>1, <1>6, <1>9, ZenonT(40)
  <1> QED
    BY <1>8, <1>9, <1>11, <1>12, <1>13, <1>14, ZenonT(40) DEF p, q

-----------------------------------------------------------------------------
(* The invariant.                                                          *)

\* What holds as long as blocks are only imported: the writes that are left settle some
\* block t as the head.
Kept ==
    /\ up /\ ~fast /\ stored = None /\ uncertain = {}
    /\ pending \in [Writer -> (Block \ {Genesis}) \cup {None}]
    /\ DOMAIN db.canon = Numbers /\ DOMAIN db.lookup = Tx /\ db.hdr \subseteq Block
    /\ DOMAIN mem = {"block", "header", "fast"}
    /\ wal \in Seq(Groups)
    /\ \E t \in Block : Settles(wal, db.canon, db.lookup, db.hdr, mem["block"], t)

Bounded == plan \in Plans /\ crashes \in Nat /\ rewinds \in Nat

IInv == Bounded /\ (OnlyImports => Kept)

\* The first state is settled.
LEMMA InitKept == Init => IInv
  <1> SUFFICES ASSUME Init PROVE IInv
    BY ZenonT(40)
  <1> DEFINE D == [n \in Numbers |-> IF n = 0 THEN Genesis ELSE None]
             L == [t \in Tx |-> None]
  <1>1. /\ up /\ stored = None /\ uncertain = {} /\ wal = <<>> /\ mem = AllAt(Genesis)
        /\ pending = [w \in Writer |-> None] /\ plan \in Plans /\ fast = plan.fast
        /\ crashes = 0 /\ rewinds = 0
    BY SMTT(40) DEF Init
  <1>2. db.canon = D /\ db.lookup = L /\ db.hdr = {Genesis}
    BY ZenonT(40) DEF Init
  <1>3. DOMAIN mem = {"block", "header", "fast"} /\ mem["block"] = Genesis
    BY <1>1, SMTT(40) DEF AllAt
  <1>4. Bounded
    BY <1>1, SMTT(40) DEF Bounded
  <1>5. pending \in [Writer -> (Block \ {Genesis}) \cup {None}]
    BY <1>1, SMTT(40)
  <1>6. wal \in Seq(Groups)
    BY <1>1, SMTT(40)
  <1>7. DOMAIN db.canon = Numbers /\ DOMAIN db.lookup = Tx /\ db.hdr \subseteq Block
    BY <1>2, Links, ZenonT(40)
  <1>8. Settles(wal, db.canon, db.lookup, db.hdr, mem["block"], Genesis)
    <2>1. Genesis \in Block /\ Number(Genesis) = 0 /\ Chain(Genesis) = {Genesis}
          /\ \A n \in Numbers : n \in Nat
      BY Links, Zenon DEF Numbers
    <2>2. \A n \in Numbers : Numbered(Genesis, n, db.canon[n])
      BY <1>2, <2>1, SMTT(40) DEF Numbered
    <2>3. \A x \in Tx : Found(Genesis, x, db.lookup[x])
      <3>1. Txs[Genesis] = {}
        BY NonceAssumption, ZenonT(40)
      <3> QED
        BY <1>2, <2>1, <3>1, ZenonT(40) DEF Found
    <2>4. DOMAIN wal = {}
      BY <1>1, SMTT(40)
    <2> QED
      BY <1>2, <1>3, <2>1, <2>2, <2>3, <2>4, SMTT(40) DEF Settles, Headless
  <1>9. OnlyImports => ~fast
    BY <1>1, ZenonT(40) DEF OnlyImports
  <1> QED
    BY <1>1, <1>3, <1>4, <1>5, <1>6, <1>7, <1>8, <1>9, Links, ZenonT(40) DEF IInv, Kept

\* A write of an import.
LEMMA StepKept ==
    ASSUME Kept, Step
    PROVE  Kept'
  <1>1. PICK t \in Block : Settles(wal, db.canon, db.lookup, db.hdr, mem["block"], t)
    BY ZenonT(40) DEF Kept
  <1>2. wal \in Seq(Groups) /\ wal # <<>>
    BY SMTT(40) DEF Kept, Step
  <1>3. PICK w : w = Head(Head(wal))
    OBVIOUS
  <1>4. Among(wal, w) /\ Good(w, t)
    BY <1>1, <1>2, <1>3, RestFacts, SettlesAmong, ZenonT(40)
  <1>5. w.then = "continue" /\ w.blk \in Block
    BY <1>4, ZenonT(40) DEF Good
  <1>6. /\ db' = Written(w) /\ mem' = Over(w.head, mem) /\ wal' = Rest
        /\ UNCHANGED <<up, fault, pending, stored, uncertain, fast>>
    BY <1>3, <1>5, ZenonT(40) DEF Step
  <1>7. /\ db'.canon = Over(w.canon, db.canon) /\ db'.lookup = Over(w.lookup, db.lookup)
        /\ db'.hdr = Table(w, "hdr")
    BY <1>6, Zenon DEF Written
  <1>8. \A b \in db'.hdr : b \in db.hdr \/ ("hdr" \in w.add /\ b = w.blk)
    BY <1>7, ZenonT(40) DEF Table
  <1>9. /\ DOMAIN db.canon = Numbers /\ DOMAIN db.lookup = Tx /\ db.hdr \subseteq Block
        /\ DOMAIN mem = {"block", "header", "fast"}
    BY ZenonT(40) DEF Kept
  <1>10. DOMAIN db'.canon = Numbers /\ DOMAIN db'.lookup = Tx /\ DOMAIN mem' = {"block", "header", "fast"}
    BY <1>6, <1>7, <1>9, ZenonT(40) DEF Over
  <1>11. db'.hdr \subseteq Block
    BY <1>5, <1>8, <1>9, ZenonT(40)
  <1>12. wal' \in Seq(Groups)
    BY <1>2, <1>6, RestFacts
  <1>13. Settles(wal', db'.canon, db'.lookup, db'.hdr, mem'["block"], t)
    <2>1. PICK h : h = db'.hdr
      OBVIOUS
    <2>2. \A b \in h : b \in db.hdr \/ ("hdr" \in w.add /\ b = w.blk)
      BY <1>8, <2>1, Zenon
    <2>3. Settles(Rest, Over(w.canon, db.canon), Over(w.lookup, db.lookup), h, Over(w.head, mem)["block"], t)
      BY <1>1, <1>2, <1>3, <1>9, <2>2, WriteSettles, ZenonT(40)
    <2> QED
      BY <1>6, <1>7, <2>1, <2>3, Zenon
  <1>14. /\ up' /\ ~fast' /\ stored' = None /\ uncertain' = {}
         /\ pending' \in [Writer -> (Block \ {Genesis}) \cup {None}]
    BY <1>6, Zenon DEF Kept
  <1> QED
    BY <1>10, <1>11, <1>12, <1>13, <1>14, ZenonT(40) DEF Kept

\* A block has been verified, or is given up.
LEMMA PendingKept ==
    ASSUME Kept, pending' \in [Writer -> (Block \ {Genesis}) \cup {None}],
           UNCHANGED <<db, mem, up, wal, stored, uncertain, fast>>
    PROVE  Kept'
  BY Zenon DEF Kept

\* Verifying a block, or giving it up, writes nothing.
LEMMA VerifyKept ==
    ASSUME Kept, Bounded,
           NEW w \in Writer, Abandon(w) \/ \E b \in plan.blocks : Verify(w, b)
    PROVE  Kept'
  <1>1. pending \in [Writer -> (Block \ {Genesis}) \cup {None}]
    BY DEF Kept
  <1>2. CASE Abandon(w)
    <2>1. /\ pending' = [pending EXCEPT ![w] = None]
          /\ UNCHANGED <<db, mem, up, wal, stored, uncertain, fast>>
      BY <1>2, ZenonT(40) DEF Abandon
    <2>2. pending' \in [Writer -> (Block \ {Genesis}) \cup {None}]
      BY <1>1, <2>1, ZenonT(40)
    <2> QED
      BY <2>1, <2>2, PendingKept, ZenonT(40)
  <1>3. ASSUME NEW b \in plan.blocks, Verify(w, b) PROVE Kept'
    <2>1. /\ pending' = [pending EXCEPT ![w] = b] /\ b # Genesis
          /\ UNCHANGED <<db, mem, up, wal, stored, uncertain, fast>>
      BY <1>3 DEF Verify
    <2>2. b \in Block
      BY ChainAssumption, ZenonT(40) DEF Bounded
    <2>3. pending' \in [Writer -> (Block \ {Genesis}) \cup {None}]
      BY <1>1, <2>1, <2>2, ZenonT(40)
    <2> QED
      BY <2>1, <2>3, PendingKept, ZenonT(40)
  <1> QED
    BY <1>2, <1>3, ZenonT(40)

\* Two groups that say nothing of the head: a block that loses, or cannot be connected.
LEMMA SideBlock ==
    ASSUME NEW b \in Block, NEW old \in Block, NEW c, NEW l, NEW hdr,
           Settles(<<>>, c, l, hdr, old, old)
    PROVE  /\ <<<<Put({"td"}, b)>>>> \in Seq(Groups)
           /\ Settles(<<<<Put({"td"}, b)>>>>, c, l, hdr, old, old)
           /\ <<<<Put({"td"}, b), Batch(b, FALSE)>>>> \in Seq(Groups)
           /\ Number(b) <= Number(old) =>
                 Settles(<<<<Put({"td"}, b), Batch(b, FALSE)>>>>, c, l, hdr, old, old)
  <1> DEFINE p == Put({"td"}, b)
             q == Batch(b, FALSE)
             g == <<p>>
             h == <<p, q>>
  <1>1. /\ p \in Writes /\ q \in Writes /\ "block" \notin DOMAIN p.head /\ "block" \notin DOMAIN q.head
        /\ Good(p, old) /\ (Number(b) <= Number(old) => Good(q, old))
    BY Kinds, Entries, GoodWrites, ZenonT(40)
  <1>2. /\ \A n \in Numbers : Numbered(old, n, c[n])
        /\ \A x \in Tx : Found(old, x, l[x])
        /\ \A d \in hdr : Number(d) <= Number(old)
    BY SMTT(40) DEF Settles
  <1> HIDE DEF p, q
  <1>3. /\ g \in Groups /\ DOMAIN g = {1} /\ g[1] = p
        /\ h \in Groups /\ DOMAIN h = {1, 2} /\ h[1] = p /\ h[2] = q
    <2> HIDE DEF Writes
    <2> QED
      BY <1>1 DEF Groups
  <1> HIDE DEF g, h
  <1>4. /\ <<g>> \in Seq(Groups) /\ DOMAIN <<g>> = {1} /\ <<g>>[1] = g
        /\ <<h>> \in Seq(Groups) /\ DOMAIN <<h>> = {1} /\ <<h>>[1] = h
    <2> HIDE DEF Groups
    <2> QED
      BY <1>3
  <1> DEFINE G == <<g>>
             H == <<h>>
  <1>5. DOMAIN G = {1} /\ G[1] = g /\ DOMAIN H = {1} /\ H[1] = h
    BY <1>4, ZenonT(40)
  <1> HIDE DEF G, H
  <1>6. Headless(G) /\ Headless(H)
    BY <1>1, <1>3, <1>5, ZenonT(40) DEF Headless
  <1>7. \A i \in DOMAIN G : \A j \in DOMAIN G[i] : Good(G[i][j], old)
    BY <1>1, <1>3, <1>5, ZenonT(40)
  <1>8. Number(b) <= Number(old) => \A i \in DOMAIN H : \A j \in DOMAIN H[i] : Good(H[i][j], old)
    BY <1>1, <1>3, <1>5, ZenonT(40)
  <1>9. Settles(G, c, l, hdr, old, old) /\ (Number(b) <= Number(old) => Settles(H, c, l, hdr, old, old))
    BY <1>2, <1>6, <1>7, <1>8, ZenonT(40) DEF Settles
  <1> QED
    BY <1>4, <1>9, ZenonT(40) DEF G, H, g, h, p, q

\* The new head extends the old one, or a reorganisation leads to it.
LEMMA NewHead ==
    ASSUME NEW b \in Block, b # Genesis, NEW old \in Block, Number(b) >= Number(old),
           NEW c, NEW l, NEW hdr, hdr \subseteq Block,
           Settles(<<>>, c, l, hdr, old, old), NEW canonical,
           NEW X, X = Reorg(old, b) \/ (X = <<>> /\ Parent[b] = old)
    PROVE  /\ ToWrite(b, canonical, X) \in Seq(Groups)
           /\ Settles(ToWrite(b, canonical, X), c, l, hdr, old, b)
  <1> DEFINE s == ToWrite(b, canonical, X)
  <1>0. /\ \A d \in Added(old, b) : d \in Chain(b)
        /\ b \in Chain(b)
    BY ChainFacts, ZenonT(40) DEF Added
  <1>1. /\ X \in Seq(Groups)
        /\ \A w : Among(X, w) => Good(w, b)
        /\ \A d \in Added(old, b) : d = b \/ Among(X, WriteCanonicalHash(d))
        /\ \A d \in Added(old, b) : d = b \/ Among(X, WriteTxLookupEntries(d))
        /\ \A x \in Dropped(old, b) : Among(X, DeleteTxLookupEntries(Dropped(old, b)))
    <2>1. CASE X = Reorg(old, b)
      <3>1. /\ X \in Seq(Groups)
            /\ \A d \in Added(old, b) : Among(X, WriteCanonicalHash(d)) /\ Among(X, WriteTxLookupEntries(d))
            /\ Among(X, DeleteTxLookupEntries(Dropped(old, b)))
        BY <2>1, ReorgWrites, ZenonT(40)
      <3>2. ASSUME NEW w, Among(X, w) PROVE Good(w, b)
        <4>1. \/ \E d \in Added(old, b) : w \in InsertWrites(d) \cup {WriteTxLookupEntries(d)}
              \/ w = DeleteTxLookupEntries(Dropped(old, b))
          BY <2>1, <3>2, ReorgWrites, Zenon
        <4>2. CASE w = DeleteTxLookupEntries(Dropped(old, b))
          BY <4>2, DroppedGone, GoodWrites, Zenon
        <4>3. ASSUME NEW d \in Added(old, b), w \in InsertWrites(d) \cup {WriteTxLookupEntries(d)}
              PROVE  Good(w, b)
          <5>1. d \in Chain(b)
            BY <1>0, ZenonT(40)
          <5>2. /\ Good(WriteCanonicalHash(d), b) /\ Good(WriteTxLookupEntries(d), b)
                /\ Good(WriteHead("block", d), b) /\ Good(WriteHead("header", d), b)
                /\ Good(WriteHead("fast", d), b)
            BY <5>1, GoodWrites, Zenon DEF HeadNames
          <5> QED
            BY <4>3, <5>2, ZenonT(40) DEF InsertWrites
        <4> QED
          BY <4>1, <4>2, <4>3, Zenon
      <3> QED
        BY <3>1, <3>2, ZenonT(40)
    <2>2. CASE X = <<>> /\ Parent[b] = old
      <3>1. X \in Seq(Groups) /\ DOMAIN X = {}
        BY <2>2
      <3>2. \A w : ~Among(X, w)
        BY <3>1, ZenonT(40) DEF Among
      <3>3. Chain(b) = {b} \cup Chain(old)
        BY <2>2, Links, ZenonT(40)
      <3>4. \A d \in Added(old, b) : d = b
        BY <3>3 DEF Added
      <3>5. \A x : x \notin Dropped(old, b)
        <4>1. \A d : d \notin Chain(old) \ Chain(b)
          BY <3>3
        <4> QED
          BY <4>1, InDropped, ZenonT(40)
      <3> QED
        BY <3>1, <3>2, <3>4, <3>5, ZenonT(40)
    <2> QED
      BY <2>1, <2>2
  <1>2. /\ s \in Seq(Groups) /\ Due(s, b)
        /\ \A w : Among(s, w) => Among(X, w) \/ w \in InsertWrites(b) \cup {Put({"td"}, b), Batch(b, TRUE)}
        /\ \A w : Among(X, w) => Among(s, w)
        /\ Among(s, WriteCanonicalHash(b)) /\ Among(s, Batch(b, TRUE))
    BY <1>1, LastGroups, Zenon
  <1> HIDE DEF s
  <1>3. ASSUME NEW w, Among(s, w) PROVE Good(w, b)
    <2>1. /\ Good(WriteCanonicalHash(b), b) /\ Good(Put({"td"}, b), b) /\ Good(Batch(b, TRUE), b)
          /\ Good(WriteHead("block", b), b) /\ Good(WriteHead("header", b), b)
          /\ Good(WriteHead("fast", b), b)
      BY <1>0, GoodWrites, Zenon DEF HeadNames
    <2> QED
      BY <1>1, <1>2, <1>3, <2>1, ZenonT(40) DEF InsertWrites
  <1>4. ASSUME NEW d \in Added(old, b) PROVE \E w : Among(s, w) /\ Number(d) \in DOMAIN w.canon
    <2>1. Among(s, WriteCanonicalHash(d))
      BY <1>1, <1>2, Zenon
    <2> QED
      BY <2>1, Entries, Zenon
  <1>5. ASSUME NEW d \in Added(old, b), NEW x \in Txs[d] PROVE \E w : Among(s, w) /\ x \in DOMAIN w.lookup
    <2>1. Among(s, WriteTxLookupEntries(d)) \/ Among(s, Batch(d, TRUE))
      BY <1>1, <1>2, Zenon
    <2>2. DOMAIN WriteTxLookupEntries(d).lookup = Txs[d] /\ DOMAIN Batch(d, TRUE).lookup = Txs[d]
      BY Entries, Zenon
    <2> QED
      BY <2>1, <2>2, Zenon
  <1>6. ASSUME NEW x \in Dropped(old, b) PROVE \E w : Among(s, w) /\ x \in DOMAIN w.lookup
    <2>1. Among(s, DeleteTxLookupEntries(Dropped(old, b)))
      BY <1>1, <1>2, Zenon
    <2>2. DOMAIN DeleteTxLookupEntries(Dropped(old, b)).lookup = Dropped(old, b)
      BY Entries, Zenon
    <2> QED
      BY <2>1, <2>2, Zenon
  <1>7. Settles(s, c, l, hdr, old, b)
    BY <1>2, <1>3, <1>4, <1>5, <1>6, NewHeadSettles, ZenonT(40)
  <1> QED
    BY <1>2, <1>7, ZenonT(40) DEF s

\* WriteBlockAndState, whatever has been written since the block was verified.
LEMMA ImportKept ==
    ASSUME Kept, NEW w \in Writer, WriteBlockAndState(w)
    PROVE  Kept'
  <1> DEFINE b == pending[w]
             old == mem["block"]
             extends == Parent[b] = old
             canonical == ~extends \/ db.canon[Number(b)] = b
             X == IF extends THEN <<>> ELSE Reorg(old, b)
             Bl == (Block \ {Genesis}) \cup {None}
  <1>1. /\ pending \in [Writer -> Bl] /\ db.hdr \subseteq Block
        /\ \E t \in Block : Settles(wal, db.canon, db.lookup, db.hdr, mem["block"], t)
    BY ZenonT(40) DEF Kept
  <1>2. wal = <<>> /\ b # None
    BY ZenonT(40) DEF WriteBlockAndState, Idle
  <1>3. b \in Block /\ b # Genesis
    BY <1>1, <1>2, ZenonT(40)
  <1>4. old \in Block /\ Settles(<<>>, db.canon, db.lookup, db.hdr, old, old)
    <2>1. PICK t \in Block : Settles(<<>>, db.canon, db.lookup, db.hdr, old, t)
      BY <1>1, <1>2, ZenonT(40)
    <2>2. old = t
      BY <2>1, ZenonT(40) DEF Settles, Due
    <2> QED
      BY <2>1, <2>2, ZenonT(40)
  <1>5. /\ pending' = [pending EXCEPT ![w] = None]
        /\ UNCHANGED <<db, mem, up, stored, uncertain, fast>>
    BY Zenon DEF WriteBlockAndState
  <1>6. pending' \in [Writer -> Bl]
    BY <1>1, <1>5, ZenonT(40)
  <1>7. \/ wal' = <<<<Put({"td"}, b)>>>>
        \/ Number(b) >= Number(old) /\ wal' = ToWrite(b, canonical, X)
        \/ Number(b) <= Number(old) /\ wal' = <<<<Put({"td"}, b), Batch(b, FALSE)>>>>
    BY Zenon DEF WriteBlockAndState, Wins, Loses, ToWrite
  <1> HIDE DEF b, old, canonical, X, Bl
  <1>8. wal' \in Seq(Groups) /\ \E t \in Block : Settles(wal', db.canon, db.lookup, db.hdr, old, t)
    <2>1. CASE wal' = <<<<Put({"td"}, b)>>>>
      BY <1>3, <1>4, <2>1, SideBlock, ZenonT(40)
    <2>2. CASE Number(b) <= Number(old) /\ wal' = <<<<Put({"td"}, b), Batch(b, FALSE)>>>>
      BY <1>3, <1>4, <2>2, SideBlock, Zenon
    <2>3. CASE Number(b) >= Number(old) /\ wal' = ToWrite(b, canonical, X)
      <3>1. X = Reorg(old, b) \/ (X = <<>> /\ Parent[b] = old)
        BY Zenon DEF X
      <3> QED
        BY <1>1, <1>3, <1>4, <2>3, <3>1, NewHead, ZenonT(40)
    <2> QED
      BY <1>7, <2>1, <2>2, <2>3, ZenonT(40)
  <1> QED
    BY <1>5, <1>6, <1>8, ZenonT(40) DEF Kept, Bl, old

\* Every step keeps the bounds.
LEMMA StaysBounded ==
    ASSUME Bounded, [Next]_vars
    PROVE  /\ Bounded' /\ plan' = plan
           /\ crashes' = crashes \/ crashes' = crashes + 1
           /\ rewinds' = rewinds \/ rewinds' = rewinds + 1
  <1>1. CASE UNCHANGED vars
    BY <1>1, ZenonT(40) DEF vars, Bounded
  <1>2. CASE Next
    <2>1. plan' = plan
      BY <1>2, ZenonT(40) DEF Next
    <2>2. /\ crashes' = crashes \/ crashes' = crashes + 1
          /\ rewinds' = rewinds \/ rewinds' = rewinds + 1
      BY <1>2, Zenon DEF Next, Step, Crash, Restart, UpdateFastHead, Rollback, HeadersDone, FallBack,
           Abandon, WriteBlockAndState, Verify, WriteHeader, InsertReceiptChain, SetHead
    <2> QED
      BY <2>1, <2>2, SMTT(40) DEF Bounded
  <1> QED
    BY <1>1, <1>2, ZenonT(40)

\* Every step of a node that only imports is one of the steps above.
LEMMA NextKept ==
    ASSUME IInv, [Next]_vars
    PROVE  IInv'
  <1>1. Bounded'
    BY StaysBounded, Zenon DEF IInv
  <1>2. ASSUME OnlyImports' PROVE Kept'
    <2>1. CASE UNCHANGED vars
      <3>1. OnlyImports
        BY <1>2, <2>1, Zenon DEF vars, OnlyImports
      <3> QED
        BY <2>1, <3>1, Zenon DEF vars, IInv, Kept
    <2>2. CASE Next
      <3>1. plan' = plan
        BY <2>2 DEF Next
      <3>2. ~Crash /\ \A n \in Numbers : ~SetHead(n)
        <4>1. crashes' = 0 /\ rewinds' = 0 /\ crashes \in Nat /\ rewinds \in Nat
          BY <1>2, ZenonT(40) DEF OnlyImports, IInv, Bounded
        <4> QED
          BY <4>1 DEF Crash, SetHead
      <3>3. crashes' = crashes /\ rewinds' = rewinds
        BY <2>2, <3>2, ZenonT(40) DEF Next, Step, Restart, UpdateFastHead, Rollback, HeadersDone, FallBack,
             Abandon, WriteBlockAndState, Verify, WriteHeader, InsertReceiptChain
      <3>4. OnlyImports
        BY <1>2, <3>1, <3>3, Zenon DEF OnlyImports
      <3>5. Kept /\ Bounded
        BY <3>4, Zenon DEF IInv
      <3>6. up /\ ~fast /\ stored = None /\ uncertain = {}
        BY <3>5, Zenon DEF Kept
      <3>7. /\ ~Restart /\ ~UpdateFastHead /\ ~Rollback /\ ~HeadersDone /\ ~FallBack
            /\ \A b : ~WriteHeader(b) /\ ~InsertReceiptChain(b)
        BY <3>6, Zenon DEF Restart, UpdateFastHead, Rollback, HeadersDone, FallBack, WriteHeader,
             InsertReceiptChain
      <3>8. \/ Step
            \/ \E w \in Writer : Abandon(w) \/ WriteBlockAndState(w)
            \/ \E w \in Writer, b \in plan.blocks : Verify(w, b)
        BY <2>2, <3>2, <3>7, Zenon DEF Next
      <3> QED
        BY <3>5, <3>8, StepKept, VerifyKept, ImportKept, ZenonT(40)
    <2> QED
      BY <2>1, <2>2, ZenonT(40)
  <1> QED
    BY <1>1, <1>2, Zenon DEF IInv

\* The writes that an import has still to do settle a block as the head, in every state.
THEOREM ImportsSettle == Spec => []IInv
  <1>1. IInv /\ [Next]_vars => IInv'
    BY NextKept, ZenonT(40)
  <1> QED
    BY InitKept, <1>1, PTL DEF Spec

\* Between operations, a state in which blocks have only been imported is settled.
LEMMA Settled ==
    ASSUME IInv, Idle, OnlyImports
    PROVE  /\ mem.block \in Block
           /\ \A n \in Numbers : Numbered(mem.block, n, db.canon[n])
           /\ \A x \in Tx : Found(mem.block, x, db.lookup[x])
           /\ \A b \in db.hdr : b \in Block /\ Number(b) <= Number(mem.block)
  <1>1. Kept
    BY Zenon DEF IInv
  <1>2. wal = <<>>
    BY DEF Idle
  <1>3. PICK t \in Block : Settles(<<>>, db.canon, db.lookup, db.hdr, mem["block"], t)
    BY <1>1, <1>2, ZenonT(40) DEF Kept
  <1>4. mem.block = t
    BY <1>3, ZenonT(40) DEF Settles, Due
  <1>5. db.hdr \subseteq Block
    BY <1>1 DEF Kept
  <1> QED
    BY <1>3, <1>4, <1>5 DEF Settles

\* After every import, reorganisations included, each number up to the head's names the
\* head's ancestor and no number above it names a block (insert, reorg), whatever the tree
\* of blocks and however the importer and the miner verify and write.
THEOREM CanonicalFollowsHead == Spec => []CanonicalIsHeadChain
  <1>1. IInv => CanonicalIsHeadChain
    <2> SUFFICES ASSUME IInv, Idle, OnlyImports, NEW n \in Numbers
                 PROVE  IF n <= Number(mem.block) THEN db.canon[n] \in Chain(mem.block)
                        ELSE db.canon[n] = None
      BY Zenon DEF CanonicalIsHeadChain
    <2>1. mem.block \in Block /\ Numbered(mem.block, n, db.canon[n])
      BY Settled, ZenonT(40)
    <2>2. n \in Nat /\ Number(mem.block) \in Nat
      BY <2>1, Links, ZenonT(40) DEF Numbers
    <2>3. \A c \in Chain(mem.block) : Number(c) <= Number(mem.block)
      BY <2>1, ChainFacts, ZenonT(40)
    <2> QED
      BY <2>1, <2>2, <2>3, SMTT(40) DEF Numbered
  <1> QED
    BY <1>1, ImportsSettle, PTL

\* After every import a transaction is found in the block of the head's chain that holds
\* it, and is not found if none does (reorg, WriteTxLookupEntries, TxDifference).
THEOREM LookupsFollowHead == Spec => []LookupsFollowCanonical
  <1>1. IInv => LookupsFollowCanonical
    <2> SUFFICES ASSUME IInv, Idle, OnlyImports, NEW t \in Tx
                 PROVE  LET holders == {b \in Chain(mem.block) : t \in Txs[b]}
                        IN  IF holders = {} THEN db.lookup[t] = None ELSE db.lookup[t] \in holders
      BY Zenon DEF LookupsFollowCanonical
    <2>1. mem.block \in Block /\ Found(mem.block, t, db.lookup[t])
      BY Settled, ZenonT(40)
    <2> QED
      BY <2>1 DEF Found
  <1> QED
    BY <1>1, ImportsSettle, PTL

\* No stored block is longer than the head, in whatever order the importer and the miner
\* verify and write (WriteBlockAndState's fork choice, decided again under the lock).
THEOREM HeadStaysHeaviest == Spec => []HeadIsHeaviest
  <1>1. IInv => HeadIsHeaviest
    <2> SUFFICES ASSUME IInv, Idle, OnlyImports, NEW b \in db.hdr \cap db.state
                 PROVE  Number(b) <= Number(mem.block)
      BY Zenon DEF HeadIsHeaviest
    <2> QED
      BY Settled
  <1> QED
    BY <1>1, ImportsSettle, PTL

-----------------------------------------------------------------------------
(* Crashes.                                                                *)

\* A write of the import of t, on top of the stored blocks D.
Imports(w, D, t) ==
    /\ w.then = "continue" /\ w.del = {} /\ w.blk \in Block
    /\ w.add \in {{}, {"td"}, {"hdr", "body", "state"}}
    /\ "hdr" \in w.add => w.blk = t
    /\ \A h \in DOMAIN w.head : w.head[h] \in D \cup {t}

\* The block t is being imported: its total difficulty comes first, and with it the block
\* is stored before the writes s are done.
Importing(s, D, td, heads, t) ==
    /\ t # Genesis => Parent[t] \in D
    /\ \A w : Among(s, w) => Imports(w, D, t)
    /\ \A h \in HeadNames : heads[h] \in D \cup {t}
    /\ t \in D \/ \E w : Among(s, w) /\ "hdr" \in w.add
    /\ t \in td \/ (s # <<>> /\ "td" \in Head(Head(s)).add /\ Head(Head(s)).blk = t)

\* A write of a restart.
Restarts(w) ==
    /\ w.then \in {"continue", "load"} /\ w.add = {} /\ w.del = {}
    /\ w.then = "load" => DOMAIN w.head = {}
    /\ \A h \in DOMAIN w.head : w.head[h] = Genesis

Resets == <<WriteHead("block", Genesis), WriteHead("fast", Genesis), LoadLastState>>

\* The node restarts: when the head is loaded, the block it names is stored.
Restarting(s, D, heads, disk) ==
    /\ \A w : Among(s, w) => Restarts(w)
    /\ \A h \in HeadNames : heads[h] \in D
    /\ \/ disk \in D
       \/ \A w : Among(s, w) => w.then = "continue"
       \/ Len(s) >= 1 /\ s[1] = Resets
       \/ Len(s) >= 2 /\ s[1] = <<WriteHead("header", Genesis)>> /\ s[2] = Resets

\* The stored blocks are complete, with all their ancestors.
Whole(hdr, body, td, state) ==
    /\ hdr \subseteq Block /\ Genesis \in hdr
    /\ body = hdr /\ state = hdr /\ hdr \subseteq td
    /\ \A b \in hdr \ {Genesis} : Parent[b] \in hdr

\* What holds as long as nothing is rewound, however often the node crashes.
Safe ==
    /\ ~fast /\ stored = None /\ uncertain = {} /\ fault # "deadlock"
    /\ pending \in [Writer -> (Block \ {Genesis}) \cup {None}]
    /\ \A w \in Writer : pending[w] # None => Parent[pending[w]] \in db.hdr
    /\ DOMAIN db = {"hdr", "body", "td", "state", "canon", "head", "lookup"}
    /\ DOMAIN db.head = HeadNames /\ DOMAIN mem = HeadNames
    /\ Whole(db.hdr, db.body, db.td, db.state)
    /\ wal \in Seq(Groups)
    /\ \/ \E t \in Block : Importing(wal, db.hdr, db.td, mem, t)
       \/ Restarting(wal, db.hdr, mem, db.head["block"])

NoRewind == ~plan.fast /\ rewinds = 0

CInv == Bounded /\ (NoRewind => Safe)

\* What is stored with all its parents is stored with all its ancestors.
LEMMA ClosedChain ==
    ASSUME NEW D, D \subseteq Block, Genesis \in D, \A b \in D \ {Genesis} : Parent[b] \in D
    PROVE  \A b \in D : Chain(b) \subseteq D
  <1> DEFINE S == {x \in Block : x \in D => Chain(x) \subseteq D}
  <1>1. Genesis \in S
    BY Links, ZenonT(40)
  <1>2. ASSUME NEW x \in Block \ {Genesis}, Parent[x] \in S PROVE x \in S
    <2>1. Chain(x) = {x} \cup Chain(Parent[x])
      BY Links, ZenonT(40)
    <2> QED
      BY <1>2, <2>1, ZenonT(40)
  <1> HIDE DEF S
  <1>3. Block \subseteq S
    BY <1>1, <1>2, TreeInduction, ZenonT(40)
  <1> QED
    BY <1>3, ZenonT(40) DEF S

\* Between operations the head is complete, and so are its ancestors.
LEMMA SafeHead ==
    ASSUME Safe
    PROVE  HeadComplete
  <1>1. /\ fault # "deadlock" /\ DOMAIN mem = HeadNames
        /\ Whole(db.hdr, db.body, db.td, db.state)
    BY DEF Safe
  <1>2. ASSUME Idle PROVE \A h \in HeadNames : mem[h] \in db.hdr
    <2>1. \A w : ~Among(wal, w)
      BY <1>2, SMTT(40) DEF Idle, Among
    <2>2. ASSUME NEW t \in Block, Importing(wal, db.hdr, db.td, mem, t)
          PROVE  \A h \in HeadNames : mem[h] \in db.hdr
      BY <2>1, <2>2, ZenonT(40) DEF Importing
    <2>3. ASSUME Restarting(wal, db.hdr, mem, db.head["block"])
          PROVE  \A h \in HeadNames : mem[h] \in db.hdr
      BY <2>3, ZenonT(40) DEF Restarting
    <2> QED
      BY <2>2, <2>3, Zenon DEF Safe
  <1>3. ASSUME Idle
        PROVE  /\ mem["block"] \in db.hdr /\ mem["header"] \in db.hdr /\ mem["fast"] \in db.hdr
    BY <1>2, <1>3, ZenonT(40) DEF HeadNames
  <1>4. \A b \in db.hdr : Chain(b) \subseteq db.hdr
    BY <1>1, ClosedChain, ZenonT(40) DEF Whole
  <1> QED
    BY <1>1, <1>3, <1>4, ZenonT(40) DEF HeadComplete, Whole, Complete, Has

\* The writes of an import are writes of the import of t.
LEMMA ImportWrites ==
    ASSUME NEW D, NEW t \in Block, D \subseteq Block
    PROVE  /\ \A b \in Block : Imports(Put({"td"}, b), D, t)
           /\ Imports(Batch(t, TRUE), D, t) /\ Imports(Batch(t, FALSE), D, t)
           /\ \A c \in D \cup {t} : /\ Imports(WriteCanonicalHash(c), D, t)
                                    /\ \A h : Imports(WriteHead(h, c), D, t)
                                    /\ Imports(WriteTxLookupEntries(c), D, t)
           /\ \A S : Imports(DeleteTxLookupEntries(S), D, t)
  <1>1. Genesis \in Block
    BY Links, ZenonT(40)
  <1>2. \A b \in Block : Imports(Put({"td"}, b), D, t)
    BY DEF Imports, Put, Write, Nothing
  <1>3. Imports(Batch(t, TRUE), D, t) /\ Imports(Batch(t, FALSE), D, t)
    BY ZenonT(40) DEF Imports, Batch, Write, Nothing
  <1>4. ASSUME NEW c \in D \cup {t} PROVE Imports(WriteCanonicalHash(c), D, t)
    BY ZenonT(40) DEF Imports, WriteCanonicalHash, Write, Nothing
  <1>5. ASSUME NEW c \in D \cup {t}, NEW h PROVE Imports(WriteHead(h, c), D, t)
    BY SMTT(40) DEF Imports, WriteHead, Write, Nothing
  <1>6. ASSUME NEW c \in D \cup {t} PROVE Imports(WriteTxLookupEntries(c), D, t)
    BY ZenonT(40) DEF Imports, WriteTxLookupEntries, Write, Nothing
  <1>7. ASSUME NEW S PROVE Imports(DeleteTxLookupEntries(S), D, t)
    BY <1>1, ZenonT(40) DEF Imports, DeleteTxLookupEntries, Write, Nothing
  <1> QED
    BY <1>2, <1>3, <1>4, <1>5, <1>6, <1>7, ZenonT(40)

\* What a write adds is stored whole, if it is a write of an import.
LEMMA WholeKept ==
    ASSUME NEW hdr, NEW body, NEW td, NEW state, Whole(hdr, body, td, state),
           NEW b \in Block
    PROVE  /\ Whole(hdr, body, td \cup {b}, state)
           /\ (b # Genesis => Parent[b] \in hdr) /\ b \in td =>
                 Whole(hdr \cup {b}, body \cup {b}, td, state \cup {b})
  BY DEF Whole

\* Importing, after one more write w: D2 and td2 are what is stored then.
LEMMA StillImporting ==
    ASSUME wal \in Seq(Groups), wal # <<>>, NEW D, NEW td, NEW heads, NEW t,
           Importing(wal, D, td, heads, t), DOMAIN heads = HeadNames,
           NEW D2, NEW td2, D \subseteq D2, td \subseteq td2,
           "hdr" \in Head(Head(wal)).add => t \in D2,
           "td" \in Head(Head(wal)).add => Head(Head(wal)).blk \in td2
    PROVE  Importing(Rest, D2, td2, Over(Head(Head(wal)).head, heads), t)
  <1>1. PICK w : w = Head(Head(wal))
    OBVIOUS
  <1>2. /\ Among(wal, w)
        /\ \A v : Among(Rest, v) => Among(wal, v)
        /\ \A v : Among(wal, v) => v = w \/ Among(Rest, v)
    BY <1>1, RestFacts, ZenonT(40)
  <1>3. \A v : Among(wal, v) => Imports(v, D, t)
    BY ZenonT(40) DEF Importing
  <1>4. \A v : Imports(v, D, t) => Imports(v, D2, t)
    BY DEF Imports
  <1>5. \A v : Among(Rest, v) => Imports(v, D2, t)
    BY <1>2, <1>3, <1>4, ZenonT(40)
  <1>6. \A h \in HeadNames : Over(w.head, heads)[h] \in D2 \cup {t}
    <2>1. \A h \in DOMAIN w.head : w.head[h] \in D \cup {t}
      BY <1>2, <1>3, Zenon DEF Imports
    <2>2. \A h \in HeadNames : heads[h] \in D \cup {t}
      BY Zenon DEF Importing
    <2> QED
      BY <2>1, <2>2, ZenonT(40) DEF Over
  <1>7. t \in D2 \/ \E v : Among(Rest, v) /\ "hdr" \in v.add
    <2>1. t \in D \/ \E v : Among(wal, v) /\ "hdr" \in v.add
      BY Zenon DEF Importing
    <2> QED
      BY <1>1, <1>2, <2>1, Zenon
  <1>8. t \in td2
    <2>1. t \in td \/ ("td" \in w.add /\ w.blk = t)
      BY <1>1, Zenon DEF Importing
    <2> QED
      BY <1>1, <2>1, ZenonT(40)
  <1>9. t # Genesis => Parent[t] \in D2
    BY Zenon DEF Importing
  <1> QED
    BY <1>1, <1>5, <1>6, <1>7, <1>8, <1>9, ZenonT(40) DEF Importing

\* A write of an import.
LEMMA StepImports ==
    ASSUME Safe, Step, NEW t \in Block, Importing(wal, db.hdr, db.td, mem, t)
    PROVE  Safe'
  <1>1. wal \in Seq(Groups) /\ wal # <<>>
    BY DEF Safe, Step
  <1>2. PICK w : w = Head(Head(wal))
    OBVIOUS
  <1>3. Imports(w, db.hdr, t)
    BY <1>1, <1>2, RestFacts, ZenonT(40) DEF Importing
  <1>4. /\ w.then = "continue" /\ w.del = {} /\ w.blk \in Block
        /\ w.add = {} \/ w.add = {"td"} \/ w.add = {"hdr", "body", "state"}
        /\ "hdr" \in w.add => w.blk = t
    BY <1>3, ZenonT(40) DEF Imports
  <1>5. /\ db' = Written(w) /\ mem' = Over(w.head, mem) /\ wal' = Rest
        /\ UNCHANGED <<up, fault, pending, stored, uncertain, fast>>
    BY <1>2, <1>4, ZenonT(40) DEF Step
  <1>6. /\ db'.hdr = Table(w, "hdr") /\ db'.body = Table(w, "body") /\ db'.td = Table(w, "td")
        /\ db'.state = Table(w, "state") /\ db'.head = Over(w.head, db.head)
        /\ DOMAIN db' = {"hdr", "body", "td", "state", "canon", "head", "lookup"}
    BY <1>5, ZenonT(40) DEF Written
  <1>7. Whole(db.hdr, db.body, db.td, db.state) /\ DOMAIN mem = HeadNames /\ DOMAIN db.head = HeadNames
    BY Zenon DEF Safe
  <1>8. PICK H, B, T, S : H = db'.hdr /\ B = db'.body /\ T = db'.td /\ S = db'.state
    BY ZenonT(40)
  <1>9. /\ Whole(H, B, T, S) /\ db.hdr \subseteq H /\ db.td \subseteq T
        /\ "hdr" \in w.add => t \in H
        /\ "td" \in w.add => w.blk \in T
    <2>1. CASE w.add = {}
      <3>1. H = db.hdr /\ B = db.body /\ T = db.td /\ S = db.state
        BY <1>4, <1>6, <1>8, <2>1, ZenonT(40) DEF Table
      <3> QED
        BY <1>7, <2>1, <3>1, ZenonT(40)
    <2>2. CASE w.add = {"td"}
      <3>1. H = db.hdr /\ B = db.body /\ T = db.td \cup {w.blk} /\ S = db.state
        BY <1>4, <1>6, <1>8, <2>2, ZenonT(40) DEF Table
      <3>2. Whole(H, B, T, S)
        BY <1>4, <1>7, <3>1, WholeKept, ZenonT(40)
      <3> QED
        BY <2>2, <3>1, <3>2, ZenonT(40)
    <2>3. CASE w.add = {"hdr", "body", "state"}
      <3>1. w.blk = t
        BY <1>4, <2>3, ZenonT(40)
      <3>2. H = db.hdr \cup {t} /\ B = db.body \cup {t} /\ T = db.td /\ S = db.state \cup {t}
        BY <1>4, <1>6, <1>8, <2>3, <3>1, ZenonT(40) DEF Table
      <3>3. t \in db.td
        <4>1. t \in db.td \/ "td" \in w.add
          BY <1>2, Zenon DEF Importing
        <4> QED
          BY <2>3, <4>1, ZenonT(40)
      <3>4. t # Genesis => Parent[t] \in db.hdr
        BY ZenonT(40) DEF Importing
      <3>5. Whole(H, B, T, S)
        BY <1>7, <3>2, <3>3, <3>4, WholeKept, ZenonT(40)
      <3> QED
        BY <2>3, <3>2, <3>5, ZenonT(40)
    <2> QED
      BY <1>4, <2>1, <2>2, <2>3, ZenonT(40)
  <1>10. Importing(Rest, H, T, Over(w.head, mem), t)
    BY <1>1, <1>2, <1>7, <1>9, StillImporting, ZenonT(40)
  <1>11. Importing(wal', db'.hdr, db'.td, mem', t)
    BY <1>5, <1>8, <1>10, ZenonT(40)
  <1>12. Whole(db'.hdr, db'.body, db'.td, db'.state)
    BY <1>8, <1>9, ZenonT(40)
  <1>13. wal' \in Seq(Groups)
    BY <1>1, <1>5, RestFacts, ZenonT(40)
  <1>14. DOMAIN db'.head = HeadNames /\ DOMAIN mem' = HeadNames
    BY <1>5, <1>6, <1>7, ZenonT(40) DEF Over
  <1>15. \A v \in Writer : pending'[v] # None => Parent[pending'[v]] \in db'.hdr
    BY <1>5, <1>8, <1>9, ZenonT(40) DEF Safe
  <1>16. /\ ~fast' /\ stored' = None /\ uncertain' = {} /\ fault' # "deadlock"
         /\ pending' \in [Writer -> (Block \ {Genesis}) \cup {None}]
    BY <1>5, Zenon DEF Safe
  <1> QED
    BY <1>6, <1>11, <1>12, <1>13, <1>14, <1>15, <1>16, ZenonT(40) DEF Safe

\* The writes of a restart.
LEMMA RestartWrites ==
    /\ \A h : Restarts(WriteHead(h, Genesis))
    /\ Restarts(WriteCanonicalHash(Genesis))
    /\ Restarts(LoadLastState) /\ LoadLastState \in Writes
    /\ LoadLastState.then = "load" /\ \A h, b : WriteHead(h, b).then = "continue"
    /\ \A b : WriteCanonicalHash(b).then = "continue"
  <1>1. LoadLastState = [add |-> {}, del |-> {}, blk |-> Genesis, canon |-> Nothing, lookup |-> Nothing,
                         head |-> Nothing, then |-> "load"]
    BY DEF LoadLastState, Ends, Write
  <1>2. Nothing \in Partial(Numbers, Block \cup {None}) /\ Nothing \in Partial(Tx, Block \cup {None})
        /\ Nothing \in Partial({"block", "header", "fast"}, Block)
    BY NothingWritten, ZenonT(40)
  <1>3. LoadLastState \in Writes
    <2> DEFINE C == Partial(Numbers, Block \cup {None})
               L == Partial(Tx, Block \cup {None})
               H == Partial({"block", "header", "fast"}, Block)
    <2>1. Nothing \in C /\ Nothing \in L /\ Nothing \in H
      BY <1>2, ZenonT(40)
    <2>2. Writes = [add : SUBSET Tables, del : SUBSET Tables, blk : Block, canon : C,
                    lookup : L, head : H, then : {"continue", "load", "panic"}]
      BY ZenonT(40) DEF Writes
    <2>3. {} \in SUBSET Tables /\ Genesis \in Block
      BY Links, ZenonT(40)
    <2> HIDE DEF C, L, H
    <2> QED
      BY <1>1, <2>1, <2>2, <2>3, ZenonT(40)
  <1>4. Restarts(LoadLastState) /\ LoadLastState.then = "load"
    BY <1>1, ZenonT(40) DEF Restarts, Nothing
  <1>5. \A h : Restarts(WriteHead(h, Genesis)) /\ \A b : WriteHead(h, b).then = "continue"
    BY ZenonT(40) DEF Restarts, WriteHead, Write, Nothing
  <1>6. Restarts(WriteCanonicalHash(Genesis)) /\ \A b : WriteCanonicalHash(b).then = "continue"
    BY DEF Restarts, WriteCanonicalHash, Write, Nothing
  <1> QED
    BY <1>3, <1>4, <1>5, <1>6, ZenonT(40)

\* Restarting, after one more write: the head on disk is disk2 then.
LEMMA StillRestarting ==
    ASSUME wal \in Seq(Groups), wal # <<>>, NEW D, NEW heads, NEW disk,
           Restarting(wal, D, heads, disk), Genesis \in D,
           NEW heads2, \A h \in HeadNames : heads2[h] \in D,
           NEW disk2,
           disk2 = IF "block" \in DOMAIN Head(Head(wal)).head THEN Head(Head(wal)).head["block"] ELSE disk
    PROVE  Restarting(Rest, D, heads2, disk2)
  <1>1. PICK w : w = Head(Head(wal))
    OBVIOUS
  <1>2. /\ Among(wal, w)
        /\ \A v : Among(Rest, v) => Among(wal, v)
    BY <1>1, RestFacts, Zenon
  <1>3. \A v : Among(wal, v) => Restarts(v)
    BY Zenon DEF Restarting
  <1>4. \A v : Among(Rest, v) => Restarts(v)
    BY <1>2, <1>3, Zenon
  <1>5. "block" \in DOMAIN w.head => w.head["block"] = Genesis
    BY <1>2, <1>3, ZenonT(40) DEF Restarts
  <1>6. disk \in D => disk2 \in D
    BY <1>1, <1>5, ZenonT(40)
  <1>7. (\A v : Among(wal, v) => v.then = "continue") => (\A v : Among(Rest, v) => v.then = "continue")
    BY <1>2, Zenon
  <1>8. CASE Len(wal) >= 1 /\ wal[1] = Resets
    <2>1. w = WriteHead("block", Genesis)
      <3> DEFINE a == WriteHead("block", Genesis)
                 b == WriteHead("fast", Genesis)
                 c == LoadLastState
      <3>1. wal[1] = <<a, b, c>>
        BY <1>8, ZenonT(40) DEF Resets
      <3> HIDE DEF a, b, c
      <3>2. Head(wal[1]) = a
        BY <3>1, SMTT(40)
      <3>3. Head(wal) = wal[1]
        BY <1>8, SMTT(40)
      <3> QED
        BY <1>1, <3>2, <3>3, ZenonT(40) DEF a
    <2>2. disk2 = Genesis
      BY <1>1, <2>1, Entries, SMTT(40)
    <2> QED
      BY <1>4, <2>2, ZenonT(40) DEF Restarting
  <1>9. CASE Len(wal) >= 2 /\ wal[1] = <<WriteHead("header", Genesis)>> /\ wal[2] = Resets
    <2>1. Rest = Tail(wal)
      <3> DEFINE a == WriteHead("header", Genesis)
      <3>1. wal[1] = <<a>>
        BY <1>9, ZenonT(40)
      <3> HIDE DEF a
      <3>2. Len(wal[1]) = 1 /\ Head(wal) = wal[1]
        BY <1>9, <3>1, SMTT(40)
      <3> QED
        BY <3>2, ZenonT(40) DEF Rest
    <2>2. Len(Rest) >= 1 /\ Rest[1] = Resets
      <3> HIDE DEF Groups
      <3> QED
        BY <1>9, <2>1, SMTT(40)
    <2> QED
      BY <1>4, <2>2, ZenonT(40) DEF Restarting
  <1>10. CASE disk \in D \/ \A v : Among(wal, v) => v.then = "continue"
    BY <1>4, <1>6, <1>7, <1>10, ZenonT(40) DEF Restarting
  <1> QED
    BY <1>8, <1>9, <1>10, ZenonT(40) DEF Restarting

\* When the head is loaded the block that it names is stored.
LEMMA LoadsStored ==
    ASSUME wal \in Seq(Groups), wal # <<>>, NEW D, NEW heads, NEW disk,
           Restarting(wal, D, heads, disk), Head(Head(wal)).then = "load"
    PROVE  disk \in D
  <1>1. Among(wal, Head(Head(wal)))
    BY RestFacts, Zenon
  <1>2. ~ \A v : Among(wal, v) => v.then = "continue"
    BY <1>1, ZenonT(40)
  <1>3. Head(wal) = wal[1]
    OBVIOUS
  <1>4. wal[1] # Resets
    <2> DEFINE a == WriteHead("block", Genesis)
               b == WriteHead("fast", Genesis)
               c == LoadLastState
    <2>1. a.then = "continue" /\ Resets = <<a, b, c>>
      BY RestartWrites, ZenonT(40) DEF Resets
    <2> HIDE DEF a, b, c
    <2>2. Head(Resets).then = "continue"
      BY <2>1
    <2> QED
      BY <1>3, <2>2, ZenonT(40)
  <1>5. wal[1] # <<WriteHead("header", Genesis)>>
    <2> DEFINE a == WriteHead("header", Genesis)
    <2>1. a.then = "continue"
      BY RestartWrites, ZenonT(40)
    <2> HIDE DEF a
    <2>2. Head(<<a>>).then = "continue"
      BY <2>1
    <2> QED
      BY <1>3, <2>2, ZenonT(40) DEF a
  <1> QED
    BY <1>2, <1>4, <1>5, Zenon DEF Restarting

\* A write of a restart.
LEMMA StepRestarts ==
    ASSUME Safe, Step, Restarting(wal, db.hdr, mem, db.head["block"])
    PROVE  Safe'
  <1>1. wal \in Seq(Groups) /\ wal # <<>>
    BY ZenonT(40) DEF Safe, Step
  <1>2. PICK w : w = Head(Head(wal))
    OBVIOUS
  <1>3. Restarts(w)
    BY <1>1, <1>2, RestFacts, ZenonT(40) DEF Restarting
  <1>4. /\ Whole(db.hdr, db.body, db.td, db.state) /\ Genesis \in db.hdr
        /\ DOMAIN mem = HeadNames /\ DOMAIN db.head = HeadNames
        /\ DOMAIN db = {"hdr", "body", "td", "state", "canon", "head", "lookup"}
    BY DEF Safe, Whole
  <1>5. \A h \in HeadNames : mem[h] \in db.hdr
    BY ZenonT(40) DEF Restarting
  <1>6. /\ wal' = Rest /\ fault' # "deadlock" /\ UNCHANGED <<pending, stored, uncertain, fast>>
        /\ db'.hdr = db.hdr /\ db'.body = db.body /\ db'.td = db.td /\ db'.state = db.state
        /\ DOMAIN db' = {"hdr", "body", "td", "state", "canon", "head", "lookup"}
        /\ DOMAIN db'.head = HeadNames /\ DOMAIN mem' = HeadNames
        /\ \A h \in HeadNames : mem'[h] \in db.hdr
        /\ db'.head["block"] = IF "block" \in DOMAIN w.head THEN w.head["block"] ELSE db.head["block"]
    <2>1. CASE w.then = "continue"
      <3>1. /\ db' = Written(w) /\ mem' = Over(w.head, mem) /\ wal' = Rest
            /\ UNCHANGED <<fault, pending, stored, uncertain, fast>>
        BY <1>2, <2>1, ZenonT(40) DEF Step
      <3>2. w.add = {} /\ w.del = {} /\ \A h \in DOMAIN w.head : w.head[h] = Genesis
        BY <1>3, ZenonT(40) DEF Restarts
      <3>3. /\ db'.hdr = db.hdr /\ db'.body = db.body /\ db'.td = db.td /\ db'.state = db.state
            /\ db'.head = Over(w.head, db.head)
            /\ DOMAIN db' = {"hdr", "body", "td", "state", "canon", "head", "lookup"}
        BY <3>1, <3>2, ZenonT(40) DEF Written, Table
      <3>4. \A h \in HeadNames : mem'[h] \in db.hdr
        BY <1>4, <1>5, <3>1, <3>2, ZenonT(40) DEF Over
      <3>5. /\ DOMAIN db'.head = HeadNames /\ DOMAIN mem' = HeadNames
            /\ db'.head["block"] = IF "block" \in DOMAIN w.head THEN w.head["block"] ELSE db.head["block"]
        BY <1>4, <3>1, <3>3, ZenonT(40) DEF Over, HeadNames
      <3>6. fault' # "deadlock"
        BY <3>1, Zenon DEF Safe
      <3> QED
        BY <3>1, <3>3, <3>4, <3>5, <3>6, ZenonT(40)
    <2>2. CASE w.then = "load"
      <3>1. db.head["block"] \in db.hdr
        BY <1>1, <1>2, <2>2, LoadsStored, ZenonT(40)
      <3>2. Loadable
        BY <1>4, <3>1, ZenonT(40) DEF Loadable, Complete, Has, Whole
      <3>3. /\ mem' = Loaded /\ db' = [db EXCEPT !.head.header = Loaded.header] /\ wal' = Rest
            /\ UNCHANGED <<fault, pending, stored, uncertain, fast>>
        BY <1>2, <2>2, <3>2, Zenon DEF Step
      <3>4. /\ db'.hdr = db.hdr /\ db'.body = db.body /\ db'.td = db.td /\ db'.state = db.state
            /\ db'.head = [db.head EXCEPT !.header = Loaded.header]
            /\ DOMAIN db' = {"hdr", "body", "td", "state", "canon", "head", "lookup"}
        BY <1>4, <3>3, ZenonT(40)
      <3>5. DOMAIN db'.head = HeadNames /\ db'.head["block"] = db.head["block"]
        BY <1>4, <3>4, ZenonT(40) DEF HeadNames
      <3>6. DOMAIN mem' = HeadNames /\ \A h \in HeadNames : mem'[h] \in db.hdr
        BY <1>4, <3>1, <3>3, SMTT(40) DEF Loaded, HeadNames, Has
      <3>7. "block" \notin DOMAIN w.head
        BY <1>3, <2>2, Zenon DEF Restarts
      <3>8. fault' # "deadlock"
        BY <3>3, ZenonT(40) DEF Safe
      <3> QED
        BY <3>3, <3>4, <3>5, <3>6, <3>7, <3>8, ZenonT(40)
    <2> QED
      BY <1>3, <2>1, <2>2, ZenonT(40) DEF Restarts
  <1>7. PICK m, k : m = mem' /\ k = db'.head["block"]
    OBVIOUS
  <1>8. Restarting(Rest, db.hdr, m, k)
    BY <1>1, <1>2, <1>4, <1>6, <1>7, StillRestarting, ZenonT(40)
  <1>9. Restarting(wal', db'.hdr, mem', db'.head["block"])
    BY <1>6, <1>7, <1>8, ZenonT(40)
  <1>10. wal' \in Seq(Groups)
    BY <1>1, <1>6, RestFacts, ZenonT(40)
  <1>11. \A v \in Writer : pending'[v] # None => Parent[pending'[v]] \in db'.hdr
    BY <1>6, Zenon DEF Safe
  <1>12. /\ ~fast' /\ stored' = None /\ uncertain' = {}
         /\ pending' \in [Writer -> (Block \ {Genesis}) \cup {None}]
    BY <1>6, Zenon DEF Safe
  <1> QED
    BY <1>4, <1>6, <1>9, <1>10, <1>11, <1>12, ZenonT(40) DEF Safe

\* A block has been verified, or is given up: between operations, what is left to write
\* of an import or a restart is nothing.
LEMMA VerifySafe ==
    ASSUME Safe, Bounded,
           NEW w \in Writer, Abandon(w) \/ \E b \in plan.blocks : Verify(w, b)
    PROVE  Safe'
  <1> DEFINE Bl == (Block \ {Genesis}) \cup {None}
  <1>1. /\ pending \in [Writer -> Bl]
        /\ \A v \in Writer : pending[v] # None => Parent[pending[v]] \in db.hdr
    BY ZenonT(40) DEF Safe
  <1>2. PICK c \in Bl : /\ pending' = [pending EXCEPT ![w] = c]
                        /\ c # None => Parent[c] \in db.hdr
                        /\ UNCHANGED <<db, mem, fault, wal, stored, uncertain, fast>>
    <2>1. CASE Abandon(w)
      BY <2>1, ZenonT(40) DEF Abandon
    <2>2. ASSUME NEW b \in plan.blocks, Verify(w, b)
          PROVE  /\ b \in Bl /\ pending' = [pending EXCEPT ![w] = b] /\ Parent[b] \in db.hdr
                 /\ UNCHANGED <<db, mem, fault, wal, stored, uncertain, fast>>
      <3>1. b \in Block
        BY ChainAssumption, ZenonT(40) DEF Bounded
      <3> QED
        BY <2>2, <3>1, Zenon DEF Verify, Complete, Has
    <2> QED
      BY <2>1, <2>2, ZenonT(40)
  <1>3. pending' \in [Writer -> Bl]
    BY <1>1, <1>2, ZenonT(40)
  <1>4. \A v \in Writer : pending'[v] # None => Parent[pending'[v]] \in db.hdr
    BY <1>1, <1>2, ZenonT(40)
  <1> QED
    BY <1>2, <1>3, <1>4, ZenonT(40) DEF Safe

\* A crash: what was to be written is not, and nothing is in memory.
LEMMA CrashSafe ==
    ASSUME Safe, Crash
    PROVE  Safe'
  <1>1. /\ fault' = "crash" /\ wal' = <<>> /\ mem' = AllAt(Genesis)
        /\ pending' = [w \in Writer |-> None] /\ stored' = None /\ uncertain' = {}
        /\ UNCHANGED <<db, fast>>
    BY Zenon DEF Crash, Down
  <1>2. Whole(db.hdr, db.body, db.td, db.state)
    BY Zenon DEF Safe
  <1>3. Genesis \in db.hdr /\ Genesis \in db.td
    BY <1>2, ZenonT(40) DEF Whole
  <1>4. DOMAIN mem' = HeadNames /\ \A h \in HeadNames : mem'[h] = Genesis
    BY <1>1, SMTT(40) DEF AllAt, HeadNames
  <1>5. \A w : ~Among(wal', w)
    BY <1>1 DEF Among
  <1>6. PICK m, s : m = mem' /\ s = wal'
    OBVIOUS
  <1>7. Importing(s, db.hdr, db.td, m, Genesis)
    BY <1>3, <1>4, <1>5, <1>6, ZenonT(40) DEF Importing
  <1>8. Importing(wal', db'.hdr, db'.td, mem', Genesis)
    BY <1>1, <1>6, <1>7, ZenonT(40)
  <1>9. wal' \in Seq(Groups)
    BY <1>1
  <1>10. /\ pending' \in [Writer -> (Block \ {Genesis}) \cup {None}]
         /\ \A w \in Writer : pending'[w] = None
    BY <1>1, ZenonT(40)
  <1>11. fault' # "deadlock" /\ Genesis \in Block
    BY <1>1, Links, ZenonT(40)
  <1> QED
    BY <1>1, <1>4, <1>8, <1>9, <1>10, <1>11, ZenonT(40) DEF Safe

\* Rewinding from the genesis block deletes nothing.
LEMMA NothingToRewind ==
    ASSUME Genesis \in db.hdr, Genesis \in db.body, Genesis \in db.state
    PROVE  Rewind(AllAt(Genesis), 0) =
               <<>> \o <<>> \o <<<<WriteHead("header", Genesis)>>>> \o <<Resets>>
  <1>1. /\ Chain(Genesis) = {Genesis} /\ Number(Genesis) = 0
        /\ \A n \in Numbers : n \in Nat
    BY Links, ZenonT(40) DEF Numbers
  <1>2. AllAt(Genesis).header = Genesis /\ AllAt(Genesis).block = Genesis /\ AllAt(Genesis).fast = Genesis
    BY Zenon DEF AllAt
  <1>3. Gone(Genesis, 0) = {}
    BY <1>1 DEF Gone
  <1>4. (CHOOSE b \in Chain(Genesis) \ {} : \A c \in Chain(Genesis) \ {} : Number(c) <= Number(b)) = Genesis
    <2>1. \A c \in Chain(Genesis) \ {} : Number(c) <= Number(Genesis)
      BY <1>1
    <2>2. Genesis \in Chain(Genesis) \ {} /\ \A x \in Chain(Genesis) \ {} : x = Genesis
      BY <1>1, ZenonT(40)
    <2> QED
      BY <2>1, <2>2, ZenonT(40)
  <1>5. {n \in Numbers : 0 < n /\ n <= Number(Genesis)} = {}
    BY <1>1, SMTT(40)
  <1>6. Lower(Genesis, Genesis) = Genesis
    BY <1>1, ZenonT(40) DEF Lower
  <1>7. Cardinality({}) = 0
    BY FS_EmptySet, ZenonT(40)
  <1> DEFINE a == <<WriteHead("header", Genesis)>>
             del(i) == LET b == NewestFirst({}, i)
                       IN  <<Delete("body", b), Delete("hdr", b), Delete("td", b)>>
             can(i) == <<DeleteCanonicalHash(Number(Genesis) + 1 - i)>>
  <1>8. Rewind(AllAt(Genesis), 0) =
            [i \in 1 .. Cardinality({}) |-> del(i)] \o [i \in 1 .. Cardinality({}) |-> can(i)]
              \o <<a>> \o <<Resets>>
    BY <1>2, <1>3, <1>4, <1>5, <1>6, ZenonT(40) DEF Rewind, Resets
  <1> HIDE DEF a, del, can
  <1>9. [i \in 1 .. Cardinality({}) |-> del(i)] = <<>> /\ [i \in 1 .. Cardinality({}) |-> can(i)] = <<>>
    BY <1>7, SMTT(40)
  <1> QED
    BY <1>8, <1>9, ZenonT(40) DEF a

\* What is written at a restart, on what the crash has left.
LEMMA RestartSafe ==
    ASSUME Safe, ~plan.fast, Restart
    PROVE  Safe'
  <1> DEFINE b == db.head["block"]
             heads == [AllAt(Genesis) EXCEPT !.header = IF b \in db.hdr THEN b ELSE Genesis]
             J == Insert(Genesis, db.canon[0] = Genesis) \o <<WriteHead("header", Genesis)>>
  <1>1. /\ fault' = None /\ mem' = heads
        /\ wal' = IF Loadable THEN <<<<LoadLastState>>>> ELSE Rewind(heads, 0) \o <<J>>
        /\ UNCHANGED <<db, pending, stored, uncertain>>
    BY ZenonT(40) DEF Restart
  <1>2. /\ Whole(db.hdr, db.body, db.td, db.state) /\ Genesis \in db.hdr
        /\ db.body = db.hdr /\ db.state = db.hdr
    BY Zenon DEF Safe, Whole
  <1>3. DOMAIN mem' = HeadNames /\ \A h \in HeadNames : mem'[h] \in db.hdr
    BY <1>1, <1>2, SMTT(40) DEF AllAt, HeadNames
  <1>4. Loadable <=> b \in db.hdr
    BY <1>2, ZenonT(40) DEF Loadable, Complete, Has
  <1>5. wal' \in Seq(Groups) /\ Restarting(wal', db.hdr, mem', b)
    <2>1. PICK s, m : s = wal' /\ m = mem'
      OBVIOUS
    <2>2. CASE Loadable
      <3> DEFINE l == LoadLastState
                 g == <<l>>
      <3>1. s = <<g>>
        BY <1>1, <2>1, <2>2, ZenonT(40)
      <3>2. l \in Writes /\ Restarts(l)
        BY RestartWrites, ZenonT(40)
      <3> HIDE DEF l
      <3>3. g \in Groups /\ DOMAIN g = {1} /\ g[1] = l
        <4> HIDE DEF Writes
        <4> QED
          BY <3>2 DEF Groups
      <3> HIDE DEF g
      <3>4. s \in Seq(Groups) /\ DOMAIN s = {1} /\ s[1] = g
        <4> HIDE DEF Groups
        <4> QED
          BY <3>1, <3>3, SMTT(40)
      <3>5. \A v : Among(s, v) => Restarts(v)
        BY <3>2, <3>3, <3>4, ZenonT(40) DEF Among
      <3>6. Restarting(s, db.hdr, m, b)
        BY <1>3, <1>4, <2>1, <2>2, <3>5, ZenonT(40) DEF Restarting
      <3> QED
        BY <2>1, <3>4, <3>6, ZenonT(40)
    <2>3. CASE ~Loadable
      <3> DEFINE a == WriteHead("header", Genesis)
                 x == WriteHead("block", Genesis)
                 y == WriteHead("fast", Genesis)
                 l == LoadLastState
                 g == <<a>>
                 R == Resets
      <3>1. heads = AllAt(Genesis)
        BY <1>4, <2>3, SMTT(40) DEF AllAt
      <3>2. s = <<>> \o <<>> \o <<g>> \o <<R>> \o <<J>>
        BY <1>1, <1>2, <2>1, <2>3, <3>1, NothingToRewind, ZenonT(40)
      <3>3. /\ a \in Writes /\ x \in Writes /\ y \in Writes /\ l \in Writes
            /\ Restarts(a) /\ Restarts(x) /\ Restarts(y) /\ Restarts(l)
        BY Links, Kinds, RestartWrites, ZenonT(40) DEF HeadNames
      <3>4. R = <<x, y, l>>
        BY Zenon DEF Resets
      <3>5. J \in Groups /\ \A j \in DOMAIN J : Restarts(J[j])
        <4> DEFINE k == db.canon[0] = Genesis
        <4>1. J = Insert(Genesis, k) \o <<a>>
          BY Zenon
        <4> HIDE DEF k, J
        <4>2. /\ Insert(Genesis, k) \in Seq(Writes) /\ 1 \in DOMAIN Insert(Genesis, k)
              /\ \A j \in DOMAIN Insert(Genesis, k) : Insert(Genesis, k)[j] \in InsertWrites(Genesis)
          BY Links, InsertGroup, ZenonT(40)
        <4>3. \A v \in InsertWrites(Genesis) : Restarts(v)
          BY RestartWrites, ZenonT(40) DEF InsertWrites
        <4>4. PICK I : I = Insert(Genesis, k)
          OBVIOUS
        <4>5. I \in Seq(Writes) /\ 1 \in DOMAIN I /\ \A j \in DOMAIN I : Restarts(I[j])
          BY <4>2, <4>3, <4>4, ZenonT(40)
        <4>6. J = I \o <<a>>
          BY <4>1, <4>4, ZenonT(40)
        <4> HIDE DEF a, Writes
        <4>7. /\ J \in Seq(Writes) /\ J # <<>>
              /\ \A j \in DOMAIN J : (j \in DOMAIN I /\ J[j] = I[j]) \/ J[j] = a
          BY <3>3, <4>5, <4>6, SMTT(40)
        <4> QED
          BY <3>3, <4>5, <4>7, ZenonT(40) DEF Groups
      <3> HIDE DEF a, x, y, l, J, R
      <3>6. /\ g \in Groups /\ DOMAIN g = {1} /\ g[1] = a
            /\ R \in Groups /\ DOMAIN R = {1, 2, 3} /\ R[1] = x /\ R[2] = y /\ R[3] = l
        <4> HIDE DEF Writes
        <4> QED
          BY <3>3, <3>4, SMTT(40) DEF Groups
      <3> HIDE DEF g
      <3>7. /\ s \in Seq(Groups) /\ DOMAIN s = {1, 2, 3} /\ s[1] = g /\ s[2] = R /\ s[3] = J
            /\ Len(s) = 3
        <4> HIDE DEF Groups
        <4> QED
          BY <3>2, <3>5, <3>6, SMTT(40)
      <3>8. \A v : Among(s, v) => Restarts(v)
        BY <3>3, <3>5, <3>6, <3>7, ZenonT(40) DEF Among
      <3>9. Len(s) >= 2 /\ s[1] = <<WriteHead("header", Genesis)>> /\ s[2] = Resets
        BY <3>7 DEF g, a, R
      <3>10. Restarting(s, db.hdr, m, b)
        BY <1>3, <2>1, <3>8, <3>9, ZenonT(40) DEF Restarting
      <3> QED
        BY <2>1, <3>7, <3>10, ZenonT(40)
    <2> QED
      BY <2>2, <2>3, ZenonT(40)
  <1>6. Restarting(wal', db'.hdr, mem', db'.head["block"])
    BY <1>1, <1>5, ZenonT(40)
  <1>7. fault' # "deadlock"
    BY <1>1 DEF None
  <1>8. ~fast'
    BY Zenon DEF Restart
  <1> QED
    BY <1>1, <1>3, <1>5, <1>6, <1>7, <1>8, ZenonT(40) DEF Safe

\* The first write of an import is the total difficulty.
LEMMA FirstGroup ==
    ASSUME NEW b \in Block, NEW canonical, NEW X \in Seq(Groups)
    PROVE  /\ ToWrite(b, canonical, X) # <<>>
           /\ Head(Head(ToWrite(b, canonical, X))) = Put({"td"}, b)
  <1> DEFINE p == Put({"td"}, b)
             q == Batch(b, TRUE)
             g == <<p>>
             h == <<q>>
             I == Insert(b, canonical)
  <1>1. /\ p \in Writes /\ q \in Writes /\ I \in Seq(Writes) /\ 1 \in DOMAIN I
    BY Kinds, InsertGroup, ZenonT(40)
  <1>2. ToWrite(b, canonical, X) = <<g>> \o X \o <<h, I>>
    BY DEF ToWrite
  <1> HIDE DEF p, q, I
  <1>3. g \in Groups /\ Head(g) = p /\ h \in Groups /\ I \in Groups
    <2> HIDE DEF Writes
    <2> QED
      BY <1>1 DEF Groups
  <1> HIDE DEF g, h
  <1>4. ToWrite(b, canonical, X) # <<>> /\ Head(ToWrite(b, canonical, X)) = g
    <2> HIDE DEF Groups
    <2> QED
      BY <1>2, <1>3
  <1> QED
    BY <1>3, <1>4, ZenonT(40) DEF p

\* WriteBlockAndState, whatever crashes came before the block was verified.
LEMMA ImportSafe ==
    ASSUME Safe, NEW w \in Writer, WriteBlockAndState(w)
    PROVE  Safe'
  <1> DEFINE b == pending[w]
             old == mem["block"]
             D == db.hdr
             extends == Parent[b] = old
             canonical == ~extends \/ db.canon[Number(b)] = b
             X == IF extends THEN <<>> ELSE Reorg(old, b)
             Bl == (Block \ {Genesis}) \cup {None}
  <1>1. /\ pending \in [Writer -> Bl] /\ Whole(D, db.body, db.td, db.state)
        /\ \A v \in Writer : pending[v] # None => Parent[pending[v]] \in D
        /\ DOMAIN mem = HeadNames
    BY ZenonT(40) DEF Safe
  <1>2. wal = <<>> /\ b # None
    BY DEF WriteBlockAndState, Idle
  <1>3. b \in Block /\ b # Genesis /\ Parent[b] \in D
    BY <1>1, <1>2, SMTT(40)
  <1>4. /\ D \subseteq Block /\ Genesis \in D /\ D \subseteq db.td
        /\ \A c \in D \ {Genesis} : Parent[c] \in D
    BY <1>1, Zenon DEF Whole
  <1>5. \A h \in HeadNames : mem[h] \in D
    <2>1. \A v : ~Among(wal, v)
      BY <1>2, SMTT(40) DEF Among
    <2>2. ASSUME NEW t \in Block, Importing(wal, D, db.td, mem, t)
          PROVE  \A h \in HeadNames : mem[h] \in D
      BY <2>1, <2>2, ZenonT(40) DEF Importing
    <2>3. ASSUME Restarting(wal, D, mem, db.head["block"])
          PROVE  \A h \in HeadNames : mem[h] \in D
      BY <2>3, ZenonT(40) DEF Restarting
    <2> QED
      BY <2>2, <2>3, ZenonT(40) DEF Safe
  <1>6. old \in Block
    BY <1>4, <1>5, ZenonT(40) DEF HeadNames
  <1>7. /\ pending' = [pending EXCEPT ![w] = None]
        /\ UNCHANGED <<db, mem, fault, stored, uncertain, fast>>
    BY ZenonT(40) DEF WriteBlockAndState
  <1>8. /\ pending' \in [Writer -> Bl]
        /\ \A v \in Writer : pending'[v] # None => Parent[pending'[v]] \in D
    BY <1>1, <1>7, ZenonT(40)
  <1>9. \/ wal' = <<<<Put({"td"}, b)>>>>
        \/ wal' = ToWrite(b, canonical, X)
        \/ wal' = <<<<Put({"td"}, b), Batch(b, FALSE)>>>>
    BY ZenonT(40) DEF WriteBlockAndState, ToWrite
  <1>10. \A c \in Chain(b) : c \in D \cup {b}
    <2>1. Chain(b) = {b} \cup Chain(Parent[b])
      BY <1>3, Links, ZenonT(40)
    <2>2. Chain(Parent[b]) \subseteq D
      BY <1>3, <1>4, ClosedChain, ZenonT(40)
    <2> QED
      BY <2>1, <2>2, ZenonT(40)
  <1> DEFINE p == Put({"td"}, b)
             q == Batch(b, FALSE)
             r == Batch(b, TRUE)
  <1>11. /\ p \in Writes /\ q \in Writes /\ r \in Writes
         /\ \A t \in Block : Imports(p, D, t)
         /\ Imports(q, D, b) /\ Imports(r, D, b)
         /\ "hdr" \in q.add /\ "hdr" \in r.add /\ "td" \in p.add /\ p.blk = b
    <2>1. p \in Writes /\ q \in Writes /\ r \in Writes
      BY <1>3, Kinds, Zenon
    <2>2. (\A t \in Block : Imports(p, D, t)) /\ Imports(q, D, b) /\ Imports(r, D, b)
      BY <1>3, <1>4, ImportWrites, ZenonT(40)
    <2>3. "hdr" \in q.add /\ "hdr" \in r.add /\ "td" \in p.add /\ p.blk = b
      BY DEF Batch, Put, Write
    <2> QED
      BY <2>1, <2>2, <2>3, ZenonT(40)
  <1>12. PICK s : s = wal'
    OBVIOUS
  <1> HIDE DEF b, old, D, extends, canonical, X, Bl
  <1>13. s \in Seq(Groups) /\ \E t \in Block : Importing(s, D, db.td, mem, t)
    <2>1. CASE s = <<<<Put({"td"}, b)>>>>
      <3> DEFINE g == <<p>>
      <3>1. s = <<g>>
        BY <2>1, ZenonT(40)
      <3> HIDE DEF p
      <3>2. g \in Groups /\ DOMAIN g = {1} /\ g[1] = p
        <4> HIDE DEF Writes
        <4> QED
          BY <1>11 DEF Groups
      <3> HIDE DEF g
      <3>3. s \in Seq(Groups) /\ DOMAIN s = {1} /\ s[1] = g
        <4> HIDE DEF Groups
        <4> QED
          BY <3>1, <3>2, SMTT(40)
      <3>4. \A v : Among(s, v) => v = p
        BY <3>2, <3>3, ZenonT(40) DEF Among
      <3>5. Genesis \in Block
        BY <1>4, ZenonT(40)
      <3>6. Importing(s, D, db.td, mem, Genesis)
        BY <1>4, <1>5, <1>11, <3>4, <3>5, ZenonT(40) DEF Importing
      <3> QED
        BY <3>3, <3>5, <3>6, ZenonT(40)
    <2>2. CASE s = <<<<Put({"td"}, b), Batch(b, FALSE)>>>>
      <3> DEFINE g == <<p, q>>
      <3>1. s = <<g>>
        BY <2>2, ZenonT(40)
      <3> HIDE DEF p, q
      <3>2. g \in Groups /\ DOMAIN g = {1, 2} /\ g[1] = p /\ g[2] = q /\ Head(g) = p
        <4> HIDE DEF Writes
        <4> QED
          BY <1>11, SMTT(40) DEF Groups
      <3> HIDE DEF g
      <3>3. s \in Seq(Groups) /\ DOMAIN s = {1} /\ s[1] = g /\ Head(s) = g /\ s # <<>>
        <4> HIDE DEF Groups
        <4> QED
          BY <3>1, <3>2, SMTT(40)
      <3>4. (\A v : Among(s, v) => v = p \/ v = q) /\ Among(s, q)
        BY <3>2, <3>3, ZenonT(40) DEF Among
      <3>5. \A v : Among(s, v) => Imports(v, D, b)
        BY <1>3, <1>11, <3>4, Zenon
      <3>6. "td" \in Head(Head(s)).add /\ Head(Head(s)).blk = b
        BY <1>11, <3>2, <3>3, ZenonT(40)
      <3>7. \A h \in HeadNames : mem[h] \in D \cup {b}
        BY <1>5, ZenonT(40)
      <3>8. Importing(s, D, db.td, mem, b)
        BY <1>3, <1>11, <3>3, <3>4, <3>5, <3>6, <3>7, ZenonT(40) DEF Importing
      <3> QED
        BY <1>3, <3>3, <3>8, ZenonT(40)
    <2>3. CASE s = ToWrite(b, canonical, X)
      <3>1. X \in Seq(Groups) /\ \A v : Among(X, v) => Imports(v, D, b)
        <4>1. CASE X = <<>>
          <5>1. \A v : ~Among(X, v)
            BY <4>1 DEF Among
          <5> QED
            BY <4>1, <5>1, SMTT(40)
        <4>2. CASE X = Reorg(old, b)
          <5>1. /\ X \in Seq(Groups)
                /\ \A v : Among(X, v) =>
                      \/ \E c \in Added(old, b) : v \in InsertWrites(c) \cup {WriteTxLookupEntries(c)}
                      \/ v = DeleteTxLookupEntries(Dropped(old, b))
            BY <1>3, <1>6, <4>2, ReorgWrites, ZenonT(40)
          <5>2. ASSUME NEW c \in Added(old, b), NEW v \in InsertWrites(c) \cup {WriteTxLookupEntries(c)}
                PROVE  Imports(v, D, b)
            <6>1. c \in D \cup {b}
              BY <1>10, ZenonT(40) DEF Added
            <6>2. /\ Imports(WriteCanonicalHash(c), D, b) /\ Imports(WriteTxLookupEntries(c), D, b)
                  /\ \A h : Imports(WriteHead(h, c), D, b)
              BY <1>3, <1>4, <6>1, ImportWrites, ZenonT(40)
            <6> QED
              BY <6>2, Zenon DEF InsertWrites
          <5>3. Imports(DeleteTxLookupEntries(Dropped(old, b)), D, b)
            BY <1>3, <1>4, ImportWrites, ZenonT(40)
          <5> QED
            BY <5>1, <5>2, <5>3, ZenonT(40)
        <4> QED
          BY <4>1, <4>2, ZenonT(40) DEF X
      <3>2. /\ s \in Seq(Groups)
            /\ \A v : Among(s, v) => Among(X, v) \/ v \in InsertWrites(b) \cup {p, r}
            /\ Among(s, r)
        BY <1>3, <2>3, <3>1, LastGroups, ZenonT(40)
      <3>3. ASSUME NEW v \in InsertWrites(b) PROVE Imports(v, D, b)
        <4>1. b \in D \cup {b}
          OBVIOUS
        <4>2. Imports(WriteCanonicalHash(b), D, b) /\ \A h : Imports(WriteHead(h, b), D, b)
          BY <1>3, <1>4, <4>1, ImportWrites, ZenonT(40)
        <4> QED
          BY <4>2, Zenon DEF InsertWrites
      <3>4. \A v : Among(s, v) => Imports(v, D, b)
        <4>1. Imports(p, D, b) /\ Imports(r, D, b)
          BY <1>3, <1>11, ZenonT(40)
        <4>2. \A v : Among(s, v) => Among(X, v) \/ v \in InsertWrites(b) \/ v = p \/ v = r
          BY <3>2, ZenonT(40)
        <4> HIDE DEF p, r
        <4> QED
          BY <3>1, <3>3, <4>1, <4>2, ZenonT(40)
      <3>5. s # <<>> /\ Head(Head(s)) = p
        BY <1>3, <2>3, <3>1, FirstGroup, ZenonT(40)
      <3>6. \A h \in HeadNames : mem[h] \in D \cup {b}
        BY <1>5
      <3>7. Importing(s, D, db.td, mem, b)
        BY <1>3, <1>11, <3>2, <3>4, <3>5, <3>6, ZenonT(40) DEF Importing
      <3> QED
        BY <1>3, <3>2, <3>7, Zenon
    <2> QED
      BY <1>9, <1>12, <2>1, <2>2, <2>3, ZenonT(40)
  <1>14. wal' \in Seq(Groups) /\ \E t \in Block : Importing(wal', db'.hdr, db'.td, mem', t)
    BY <1>7, <1>12, <1>13, ZenonT(40) DEF D
  <1> QED
    BY <1>7, <1>8, <1>14, ZenonT(40) DEF Safe, Bl, D

\* The first state is safe.
LEMMA InitSafe == Init => CInv
  <1> SUFFICES ASSUME Init PROVE CInv
    OBVIOUS
  <1>1. /\ fault = None /\ stored = None /\ uncertain = {} /\ wal = <<>> /\ mem = AllAt(Genesis)
        /\ pending = [w \in Writer |-> None] /\ plan \in Plans /\ fast = plan.fast
        /\ crashes = 0 /\ rewinds = 0
    BY ZenonT(40) DEF Init
  <1>2. /\ db.hdr = {Genesis} /\ db.body = {Genesis} /\ db.td = {Genesis} /\ db.state = {Genesis}
        /\ db.head = AllAt(Genesis)
        /\ DOMAIN db = {"hdr", "body", "td", "state", "canon", "head", "lookup"}
    BY ZenonT(40) DEF Init
  <1>3. /\ DOMAIN mem = HeadNames /\ DOMAIN db.head = HeadNames
        /\ \A h \in HeadNames : mem[h] = Genesis
    BY <1>1, <1>2, SMTT(40) DEF AllAt, HeadNames
  <1>4. Whole(db.hdr, db.body, db.td, db.state) /\ Genesis \in Block
    BY <1>2, Links, Zenon DEF Whole
  <1>5. \A w : ~Among(wal, w)
    BY <1>1, SMTT(40) DEF Among
  <1>6. Importing(wal, db.hdr, db.td, mem, Genesis)
    BY <1>2, <1>3, <1>5, Zenon DEF Importing
  <1>7. wal \in Seq(Groups)
    BY <1>1
  <1>8. /\ pending \in [Writer -> (Block \ {Genesis}) \cup {None}]
        /\ \A w \in Writer : pending[w] = None
    BY <1>1, ZenonT(40)
  <1>9. fault # "deadlock"
    BY <1>1 DEF None
  <1>10. NoRewind => ~fast
    BY <1>1, Zenon DEF NoRewind
  <1>11. NoRewind => Safe
    BY <1>1, <1>2, <1>3, <1>4, <1>6, <1>7, <1>8, <1>9, <1>10, ZenonT(40) DEF Safe
  <1>12. Bounded
    BY <1>1 DEF Bounded
  <1> QED
    BY <1>11, <1>12, ZenonT(40) DEF CInv

\* Every step that rewinds nothing is safe.
LEMMA NextSafe ==
    ASSUME CInv, [Next]_vars
    PROVE  CInv'
  <1>1. /\ Bounded /\ Bounded' /\ plan' = plan
        /\ rewinds' = rewinds \/ rewinds' = rewinds + 1
    BY StaysBounded, ZenonT(40) DEF CInv
  <1>2. ASSUME NoRewind' PROVE Safe'
    <2>1. /\ rewinds' = 0 /\ rewinds = 0 /\ ~plan.fast
      BY <1>1, <1>2 DEF NoRewind, Bounded
    <2>2. Safe
      BY <2>1, Zenon DEF CInv, NoRewind
    <2>3. CASE UNCHANGED vars
      BY <2>2, <2>3, Zenon DEF vars, Safe
    <2>4. CASE Next
      <3>1. ~fast /\ stored = None /\ uncertain = {}
        BY <2>2, Zenon DEF Safe
      <3>2. \A n \in Numbers : ~SetHead(n)
        BY <2>1 DEF SetHead
      <3>3. /\ ~UpdateFastHead /\ ~Rollback /\ ~HeadersDone /\ ~FallBack
            /\ \A b : ~WriteHeader(b) /\ ~InsertReceiptChain(b)
        BY <3>1, Zenon DEF UpdateFastHead, Rollback, HeadersDone, FallBack, WriteHeader,
             InsertReceiptChain
      <3>4. \/ Step \/ Crash \/ Restart
            \/ \E w \in Writer : Abandon(w) \/ WriteBlockAndState(w)
            \/ \E w \in Writer, b \in plan.blocks : Verify(w, b)
        BY <2>4, <3>2, <3>3, ZenonT(40) DEF Next
      <3>5. ASSUME Step PROVE Safe'
        <4>1. \/ \E t \in Block : Importing(wal, db.hdr, db.td, mem, t)
              \/ Restarting(wal, db.hdr, mem, db.head["block"])
          BY <2>2, Zenon DEF Safe
        <4> QED
          BY <2>2, <3>5, <4>1, StepImports, StepRestarts, ZenonT(40)
      <3> QED
        BY <1>1, <2>1, <2>2, <3>4, <3>5, CrashSafe, RestartSafe, VerifySafe, ImportSafe, ZenonT(40)
    <2> QED
      BY <2>3, <2>4, SMTT(40)
  <1> QED
    BY <1>1, <1>2, Zenon DEF CInv

\* However often a node that imports blocks in full crashes, at whatever write, and
\* whatever it loads or resets when it starts again, the head is a block with its state
\* and all its ancestors are on disk with their total difficulty, and loadLastState never
\* has to reset the chain under the lock (WriteBlockAndState's order of writes,
\* NewBlockChain, loadLastState).
THEOREM CrashesLeaveHead == Spec => [](~plan.fast /\ rewinds = 0 => HeadComplete)
  <1>1. CInv /\ [Next]_vars => CInv'
    BY NextSafe
  <1>2. CInv => (~plan.fast /\ rewinds = 0 => HeadComplete)
    BY SafeHead, Zenon DEF CInv, NoRewind
  <1> QED
    BY InitSafe, <1>1, <1>2, PTL DEF Spec

=============================================================================
