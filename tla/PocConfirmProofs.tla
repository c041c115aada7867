-------------------------- MODULE PocConfirmProofs --------------------------
(***************************************************************************)
(* Proofs about PocConfirm, for any number of nodes and slots and any      *)
(* assignment of slots to validators: the walk of                          *)
(* updateConfirmedBlockHeader finds the newest confirmed block, a stored   *)
(* confirmed block has its quorum, and the confirmed number never falls.   *)
(***************************************************************************)
EXTENDS PocConfirm, FiniteSetTheorems, TLAPS

-----------------------------------------------------------------------------
(* Numbers.                                                                *)

LEMMA OrderOnNat ==
    \E R : IsWellFoundedOn(R, Nat) /\ \A x, y \in Nat : y < x => <<y, x>> \in R
  <1> DEFINE R == OpToRel(<, Nat)
  <1>1. IsWellFoundedOn(R, Nat)
    BY NatLessThanWellFounded, Zenon
  <1>2. \A x, y \in Nat : y < x => <<y, x>> \in R
    BY DEF OpToRel
  <1> HIDE DEF R
  <1> QED
    BY <1>1, <1>2, Zenon

\* A set of natural numbers has a least element.
LEMMA LeastNat ==
    ASSUME NEW T, T \subseteq Nat, T # {}
    PROVE  \E m \in T : \A k \in T : m <= k
  <1>1. PICK R : IsWellFoundedOn(R, Nat) /\ \A x, y \in Nat : y < x => <<y, x>> \in R
    BY OrderOnNat
  <1>2. PICK m \in T : \A y \in T : ~ (<<y, m>> \in R)
    BY <1>1, WFMin, Zenon
  <1>3. \A k \in T : ~(k < m)
    BY <1>1, <1>2, Zenon
  <1>4. \A k \in T : m <= k
    BY <1>3
  <1> QED
    BY <1>4

LEMMA BlocksNat == Blocks \subseteq Nat /\ 0 \in Blocks /\ Slots \subseteq Blocks /\ MaxSlot \in Nat
  BY ConfirmAssumption DEF Blocks, Slots

\* A set of blocks has a least and a greatest one, which Min and Max name.
LEMMA MinBlock ==
    ASSUME NEW S \in SUBSET Blocks, S # {}
    PROVE  Min(S) \in S /\ \A b \in S : Min(S) <= b
  <1>1. \E m \in S : \A k \in S : m <= k
    BY LeastNat, BlocksNat, Zenon
  <1> QED
    BY <1>1 DEF Min

LEMMA MaxBlock ==
    ASSUME NEW S \in SUBSET Blocks, S # {}
    PROVE  Max(S) \in S /\ \A b \in S : b <= Max(S)
  <1> DEFINE T == {k \in Nat : MaxSlot - k \in S}
  <1>1. PICK b \in S : TRUE
    OBVIOUS
  <1>2. MaxSlot - b \in T
    BY <1>1, BlocksNat DEF Blocks
  <1>3. PICK m \in T : \A k \in T : m <= k
    BY <1>2, LeastNat, Zenon
  <1>4. \A c \in S : MaxSlot - c \in T
    BY BlocksNat DEF Blocks
  <1>5. MaxSlot - m \in S /\ \A c \in S : c <= MaxSlot - m
    BY <1>3, <1>4, BlocksNat DEF Blocks
  <1>6. \E x \in S : \A y \in S : x >= y
    BY <1>5, BlocksNat
  <1>7. Max(S) \in S /\ \A y \in S : Max(S) >= y
    BY <1>6 DEF Max
  <1> QED
    BY <1>7, BlocksNat

\* The greatest element of a set is the only one that bounds it.
LEMMA MaxUnique ==
    ASSUME NEW S \in SUBSET Blocks, NEW b \in S, \A c \in S : c <= b
    PROVE  Max(S) = b
  <1>1. Max(S) \in S /\ b <= Max(S)
    BY MaxBlock
  <1>2. Max(S) \in Nat /\ b \in Nat /\ Max(S) <= b
    BY <1>1, BlocksNat, Zenon
  <1> QED
    BY <1>1, <1>2

LEMMA EpochMonotone ==
    ASSUME NEW b \in Blocks, NEW c \in Blocks, b <= c
    PROVE  EpochOf(b) \in Nat /\ EpochOf(c) \in Nat /\ EpochOf(b) <= EpochOf(c)
  BY ConfirmAssumption, BlocksNat DEF EpochOf

LEMMA SubsetFinite ==
    ASSUME NEW S \in SUBSET Blocks
    PROVE  IsFiniteSet(S) /\ Cardinality(S) \in Nat
  <1>1. IsFiniteSet(Blocks)
    BY FS_Interval, BlocksNat DEF Blocks
  <1> QED
    BY <1>1, FS_Subset, FS_CardinalityType

\* The validators of a set of slots are at most as many as the slots.
LEMMA ValidatorsOf ==
    ASSUME NEW D \in SUBSET Slots
    PROVE  LET V == {Validator[c] : c \in D}
           IN  IsFiniteSet(V) /\ Cardinality(V) \in Nat /\ Cardinality(V) <= Cardinality(D)
  <1> DEFINE V == {Validator[c] : c \in D}
             f == [c \in D |-> Validator[c]]
  <1>1. f \in Surjection(D, V)
    BY DEF Surjection
  <1>2. IsFiniteSet(D)
    BY SubsetFinite, BlocksNat
  <1> HIDE DEF f, V
  <1>3. IsFiniteSet(V) /\ Cardinality(V) <= Cardinality(D)
    BY <1>1, <1>2, FS_Surjection
  <1>4. Cardinality(V) \in Nat
    BY <1>3, FS_CardinalityType
  <1> QED
    BY <1>3, <1>4 DEF V

-----------------------------------------------------------------------------
(* The inductive invariant.                                                *)

\* The blocks form a tree: a chain holds minted blocks down to the genesis block,
\* older ones with lower numbers, and no block is numbered above its slot.
TreeOK ==
    /\ tree[0] = [parent |-> None, number |-> 0, chain |-> {0}]
    /\ \A b \in Minted :
          /\ Number(b) \in 0 .. b
          /\ Chain(b) \subseteq Minted /\ b \in Chain(b) /\ 0 \in Chain(b)
          /\ \A c \in Chain(b) : c <= b /\ Chain(c) \subseteq Chain(b)
          /\ \A c, d \in Chain(b) : c < d => Number(c) < Number(d)
          /\ b # 0 => tree[b].parent \in Minted /\ Chain(b) = Chain(tree[b].parent) \cup {b}

\* A node has the ancestors of every block it has; its heads are blocks it has; what it
\* holds in memory as confirmed is what a restart would load.
NodesOK ==
    \A n \in Node :
        /\ known[n] \subseteq Minted /\ 0 \in known[n]
        /\ \A b \in known[n] : Chain(b) \subseteq known[n]
        /\ head[n] \in known[n] /\ curHeader[n] \in known[n]
        /\ stored[n] # None => stored[n] \in Minted
        /\ confirmed[n] # None => confirmed[n] = IF stored[n] # None THEN stored[n] ELSE 0

Inv == TypeOK /\ TreeOK /\ NodesOK /\ ConfirmedHasQuorum

-----------------------------------------------------------------------------
(* The walk.                                                               *)

\* Numbers of minted blocks are natural numbers.
LEMMA NumbersNat ==
    ASSUME TreeOK, NEW b \in Minted
    PROVE  b \in Blocks /\ Number(b) \in Nat /\ Chain(b) \subseteq Minted /\ Minted \subseteq Blocks
  BY BlocksNat DEF TreeOK, Minted

LEMMA GenesisMinted ==
    ASSUME TreeOK
    PROVE  0 \in Minted /\ Number(0) = 0 /\ Chain(0) = {0}
  BY BlocksNat DEF TreeOK, Minted, Number, Chain, NotMinted, None

\* Where the loop can end; it does end, at the genesis block if not above.
Ends(from, conf) == {c \in Chain(from) : GivesUp(from, conf, c) \/ Enough(from, c)}

LEMMA WalkEnds ==
    ASSUME TreeOK, NEW from \in Minted, NEW conf \in Minted
    PROVE  LET e == Max(Ends(from, conf))
           IN  /\ e \in Chain(from) /\ e \in Minted
               /\ GivesUp(from, conf, e) \/ Enough(from, e)
               /\ \A c \in Ends(from, conf) : c <= e
               /\ Walk(from, conf) = IF GivesUp(from, conf, e) THEN conf ELSE e
  <1>1. 0 \in Chain(from) /\ GivesUp(from, conf, 0)
    BY NumbersNat, GenesisMinted DEF TreeOK, GivesUp
  <1>2. Ends(from, conf) \in SUBSET Blocks /\ Ends(from, conf) # {} /\ Ends(from, conf) \subseteq Chain(from)
    BY <1>1, NumbersNat DEF Ends
  <1>3. Max(Ends(from, conf)) \in Ends(from, conf) /\ \A c \in Ends(from, conf) : c <= Max(Ends(from, conf))
    BY <1>2, MaxBlock
  <1>4. Walk(from, conf) = IF GivesUp(from, conf, Max(Ends(from, conf))) THEN conf ELSE Max(Ends(from, conf))
    BY DEF Walk, Ends
  <1> QED
    BY <1>2, <1>3, <1>4, NumbersNat DEF Ends

\* The validators that count for b: those of its epoch from b on.
Builders(b, h) == {Validator[c] : c \in {d \in Chain(h) : d >= b /\ EpochOf(d) = EpochOf(b)}}

LEMMA EnoughIsConfirmed ==
    ASSUME TreeOK, NEW h \in Minted, NEW b \in Chain(h)
    PROVE  /\ Seen(h, b) \cup {Validator[b]} = Builders(b, h)
           /\ Enough(h, b) <=> ConfirmedBy(b, h)
  <1>1. Chain(h) \subseteq Nat
    BY NumbersNat, BlocksNat, Zenon
  <1>2. {d \in Chain(h) : d >= b /\ EpochOf(d) = EpochOf(b)}
          = {d \in Chain(h) : d > b /\ EpochOf(d) = EpochOf(b)} \cup {b}
    BY <1>1
  <1>3. Seen(h, b) \cup {Validator[b]} = Builders(b, h)
    BY <1>2 DEF Seen, Builders
  <1> QED
    BY <1>3 DEF Enough, ConfirmedBy, Builders

\* The walk leaves the confirmed block or finds one with a higher number that the
\* chain it walks confirms.
LEMMA WalkConfirms ==
    ASSUME TreeOK, NEW from \in Minted, NEW conf \in Minted
    PROVE  LET w == Walk(from, conf)
           IN  /\ w \in Minted /\ Number(w) >= Number(conf)
               /\ w # conf => w \in Chain(from) /\ ConfirmedBy(w, from)
  <1> DEFINE e == Max(Ends(from, conf))
  <1>1. /\ e \in Chain(from) /\ e \in Minted
        /\ GivesUp(from, conf, e) \/ Enough(from, e)
        /\ Walk(from, conf) = IF GivesUp(from, conf, e) THEN conf ELSE e
    BY WalkEnds
  <1> HIDE DEF e
  <1>2. Number(e) \in Nat /\ Number(conf) \in Nat
    BY <1>1, NumbersNat
  <1>3. CASE GivesUp(from, conf, e)
    BY <1>1, <1>2, <1>3
  <1>4. CASE ~GivesUp(from, conf, e)
    <2>1. Number(e) > Number(conf)
      BY <1>2, <1>4 DEF GivesUp
    <2>2. ConfirmedBy(e, from)
      BY <1>1, <1>4, EnoughIsConfirmed
    <2> QED
      BY <1>1, <1>2, <1>4, <2>1, <2>2
  <1> QED
    BY <1>3, <1>4

-----------------------------------------------------------------------------
(* The invariant holds.                                                    *)

LEMMA InitInv == Init => Inv
  <1> SUFFICES ASSUME Init PROVE Inv
    OBVIOUS
  <1>1. Minted = {0}
    BY BlocksNat DEF Init, Minted, NotMinted, None
  <1>2. Number(0) = 0 /\ Chain(0) = {0}
    BY BlocksNat DEF Init, Number, Chain
  <1>3. TypeOK
    <2>1. 1 \in Slots
      BY ConfirmAssumption DEF Slots
    <2> QED
      BY <2>1, BlocksNat DEF Init, TypeOK, NotMinted, None
  <1>4. TreeOK
    BY <1>1, <1>2, BlocksNat DEF Init, TreeOK
  <1>5. NodesOK
    BY <1>1, <1>2 DEF Init, NodesOK, None
  <1>6. ConfirmedHasQuorum
    BY DEF Init, ConfirmedHasQuorum
  <1> QED
    BY <1>3, <1>4, <1>5, <1>6 DEF Inv

\* While the tree stays as it is, so does what is computed from it.
LEMMA SameTree ==
    ASSUME UNCHANGED tree
    PROVE  /\ Minted' = Minted
           /\ \A b : Number(b)' = Number(b) /\ Chain(b)' = Chain(b)
           /\ \A b, h : ConfirmedBy(b, h)' = ConfirmedBy(b, h)
           /\ TreeOK => TreeOK'
  BY DEF Minted, Number, Chain, ConfirmedBy, TreeOK

LEMMA TickInv == Inv /\ Tick => Inv'
  <1> SUFFICES ASSUME Inv, Tick PROVE Inv'
    OBVIOUS
  <1>1. TypeOK'
    BY BlocksNat DEF Inv, TypeOK, Tick, Slots
  <1> QED
    BY <1>1, SameTree DEF Inv, Tick, NodesOK, ConfirmedHasQuorum

LEMMA RestartInv == \A n \in Node : Inv /\ Restart(n) => Inv'
  <1> SUFFICES ASSUME NEW n \in Node, Inv, Restart(n) PROVE Inv'
    OBVIOUS
  <1>1. TypeOK'
    BY DEF Inv, TypeOK, Restart
  <1>2. \A m \in Node : confirmed'[m] # None => confirmed'[m] = confirmed[m]
    BY DEF Inv, TypeOK, Restart
  <1>3. NodesOK'
    BY <1>2, SameTree DEF Inv, NodesOK, Restart
  <1> QED
    BY <1>1, <1>3, SameTree DEF Inv, Restart, ConfirmedHasQuorum

\* The chains of the blocks that were minted before stay as they are.
LEMMA MintTree ==
    ASSUME Inv, NEW n \in Node, Mint(n)
    PROVE  /\ now' = now /\ now \in Slots /\ now \notin Minted
           /\ head[n] \in Minted /\ head[n] < now
           /\ Minted' = Minted \cup {now}
           /\ \A b \in Minted : tree'[b] = tree[b]
           /\ \A b \in Minted : Number(b)' = Number(b) /\ Chain(b)' = Chain(b)
           /\ Number(now)' = Number(head[n]) + 1
           /\ Chain(now)' = Chain(head[n]) \cup {now}
           /\ tree'[now].parent = head[n]
  <1>1. /\ now' = now /\ now \in Slots /\ now \in Blocks /\ now \notin Minted
        /\ head[n] \in Minted /\ head[n] < now
    BY BlocksNat DEF Inv, TypeOK, NodesOK, Mint
  <1> DEFINE new == [parent |-> head[n], number |-> Number(head[n]) + 1,
                     chain |-> Chain(head[n]) \cup {now}]
  <1>2. tree' = [tree EXCEPT ![now] = new] /\ DOMAIN tree = Blocks
    BY DEF Mint, Inv, TypeOK
  <1>3. tree'[now] = new /\ \A b \in Blocks : b # now => tree'[b] = tree[b]
    BY <1>1, <1>2
  <1>4. new # NotMinted
    BY <1>1, NumbersNat, BlocksNat DEF NotMinted, None, Inv
  <1>5. Minted' = Minted \cup {now}
    BY <1>1, <1>3, <1>4 DEF Minted
  <1>6. \A b \in Minted : b \in Blocks /\ b # now
    BY <1>1 DEF Minted
  <1> QED
    BY <1>1, <1>3, <1>5, <1>6 DEF Number, Chain

LEMMA MintInv == \A n \in Node : Inv /\ Mint(n) => Inv'
  <1> SUFFICES ASSUME NEW n \in Node, Inv, Mint(n) PROVE Inv'
    OBVIOUS
  <1>1. /\ now' = now /\ now \in Slots /\ now \notin Minted
        /\ head[n] \in Minted /\ head[n] < now
        /\ Minted' = Minted \cup {now}
        /\ \A b \in Minted : tree'[b] = tree[b]
        /\ \A b \in Minted : Number(b)' = Number(b) /\ Chain(b)' = Chain(b)
        /\ Number(now)' = Number(head[n]) + 1
        /\ Chain(now)' = Chain(head[n]) \cup {now}
        /\ tree'[now].parent = head[n]
    BY MintTree
  <1>2. Minted \subseteq Blocks /\ Minted \subseteq Nat /\ now \in Nat /\ 0 \in Minted
    BY <1>1, BlocksNat, GenesisMinted, NumbersNat, Zenon DEF Inv
  <1>3. TypeOK'
    <2>1. Number(head[n]) + 1 \in Blocks
      <3>1. Number(head[n]) \in 0 .. head[n] /\ head[n] \in Nat
        BY <1>1, <1>2, Zenon DEF Inv, TreeOK
      <3>2. head[n] < now /\ now \in 1 .. MaxSlot
        BY <1>1 DEF Slots
      <3> QED
        BY <3>1, <3>2, BlocksNat DEF Blocks
    <2>2. Chain(head[n]) \cup {now} \in SUBSET Blocks
      BY <1>1, NumbersNat, BlocksNat DEF Inv
    <2>3. head[n] \in Blocks /\ now \in Blocks
      BY <1>1, <1>2, BlocksNat, Zenon
    <2> QED
      BY <2>1, <2>2, <2>3 DEF Inv, TypeOK, Mint
  <1>4. TreeOK'
    <2>1. tree'[0] = [parent |-> None, number |-> 0, chain |-> {0}]
      BY <1>1, <1>2 DEF Inv, TreeOK
    <2>2. ASSUME NEW b \in Minted
          PROVE  /\ Number(b)' \in 0 .. b
                 /\ Chain(b)' \subseteq Minted' /\ b \in Chain(b)' /\ 0 \in Chain(b)'
                 /\ \A c \in Chain(b)' : c <= b /\ Chain(c)' \subseteq Chain(b)'
                 /\ \A c, d \in Chain(b)' : c < d => Number(c)' < Number(d)'
                 /\ b # 0 => /\ tree'[b].parent \in Minted'
                             /\ Chain(b)' = Chain(tree[b].parent)' \cup {b}
      <3>1. Chain(b) \subseteq Minted
        BY NumbersNat DEF Inv
      <3> QED
        BY <1>1, <3>1 DEF Inv, TreeOK
    <2>3. /\ Number(now)' \in 0 .. now
          /\ Chain(now)' \subseteq Minted' /\ now \in Chain(now)' /\ 0 \in Chain(now)'
          /\ \A c \in Chain(now)' : c <= now /\ Chain(c)' \subseteq Chain(now)'
          /\ \A c, d \in Chain(now)' : c < d => Number(c)' < Number(d)'
          /\ tree'[now].parent \in Minted' /\ Chain(now)' = Chain(tree[now].parent)' \cup {now}
      <3>1. /\ Number(head[n]) \in 0 .. head[n]
            /\ Chain(head[n]) \subseteq Minted /\ 0 \in Chain(head[n]) /\ head[n] \in Chain(head[n])
            /\ \A c \in Chain(head[n]) : c <= head[n] /\ Chain(c) \subseteq Chain(head[n])
            /\ \A c, d \in Chain(head[n]) : c < d => Number(c) < Number(d)
        BY <1>1 DEF Inv, TreeOK
      <3>2. \A c \in Chain(head[n]) : c < now /\ c \in Nat
        <4>1. head[n] < now /\ head[n] \in Nat /\ now \in Nat
          BY <1>1, <1>2, Zenon
        <4>2. \A c \in Chain(head[n]) : c <= head[n] /\ c \in Nat
          BY <1>2, <3>1, Zenon
        <4> QED
          BY <4>1, <4>2
      <3>3. \A c \in Chain(head[n]) : Number(c) \in Nat /\ Number(c) <= Number(head[n])
        <4>1. \A c \in Chain(head[n]) : Number(c) \in Nat
          BY <3>1, NumbersNat DEF Inv
        <4>2. \A c \in Chain(head[n]) : c = head[n] \/ c < head[n]
          <5>1. \A c \in Chain(head[n]) : c <= head[n] /\ c \in Nat /\ head[n] \in Nat
            BY <1>1, <1>2, <3>1, Zenon
          <5> QED
            BY <5>1
        <4> QED
          BY <3>1, <4>1, <4>2
      <3>4. Number(now)' \in 0 .. now
        <4>1. head[n] < now /\ head[n] \in Nat /\ now \in Nat /\ Number(head[n]) \in 0 .. head[n]
          BY <1>1, <1>2, <3>1, Zenon
        <4>2. Number(head[n]) + 1 \in 0 .. now
          BY <4>1
        <4> QED
          BY <1>1, <4>2, Zenon
      <3>5. \A c \in Chain(now)' : c <= now /\ Chain(c)' \subseteq Chain(now)'
        BY <1>1, <1>2, <3>1, <3>2
      <3>6. \A c, d \in Chain(now)' : c < d => Number(c)' < Number(d)'
        <4> SUFFICES ASSUME NEW c \in Chain(now)', NEW d \in Chain(now)', c < d
                     PROVE  Number(c)' < Number(d)'
          OBVIOUS
        <4>1. c \in Chain(head[n])
          BY <1>1, <1>2, <3>2
        <4>2. CASE d = now
          BY <1>1, <3>1, <3>3, <4>1, <4>2, SMTT(40)
        <4>3. CASE d \in Chain(head[n])
          BY <1>1, <3>1, <4>1, <4>3, SMTT(40)
        <4> QED
          BY <1>1, <4>2, <4>3
      <3> QED
        BY <1>1, <3>1, <3>4, <3>5, <3>6, SMTT(40)
    <2> QED
      BY <1>1, <2>1, <2>2, <2>3 DEF TreeOK
  <1>5. \A m \in Node : known[m] \subseteq known'[m]
    BY SMTT(40) DEF Inv, TypeOK, Mint
  <1>6. NodesOK'
    <2> SUFFICES ASSUME NEW m \in Node
                 PROVE  /\ known'[m] \subseteq Minted' /\ 0 \in known'[m]
                        /\ \A b \in known'[m] : Chain(b)' \subseteq known'[m]
                        /\ head'[m] \in known'[m] /\ curHeader'[m] \in known'[m]
                        /\ stored'[m] # None => stored'[m] \in Minted'
                        /\ confirmed'[m] # None =>
                              confirmed'[m] = IF stored'[m] # None THEN stored'[m] ELSE 0
      BY DEF NodesOK
    <2>1. /\ known[m] \subseteq Minted /\ 0 \in known[m]
          /\ \A b \in known[m] : Chain(b) \subseteq known[m]
          /\ head[m] \in known[m] /\ curHeader[m] \in known[m]
          /\ stored[m] # None => stored[m] \in Minted
          /\ confirmed[m] # None => confirmed[m] = IF stored[m] # None THEN stored[m] ELSE 0
      BY DEF Inv, NodesOK
    <2>2. UNCHANGED <<confirmed, stored>>
      BY SMTT(40) DEF Mint
    <2>3. CASE m = n
      <3>1. known'[n] = known[n] \cup {now} /\ head'[n] = now /\ curHeader'[n] = now
        BY SMTT(40) DEF Inv, TypeOK, Mint
      <3> QED
        BY <1>1, <2>1, <2>2, <2>3, <3>1, SMTT(40)
    <2>4. CASE m # n
      <3>1. known'[m] = known[m] /\ head'[m] = head[m] /\ curHeader'[m] = curHeader[m]
        BY <2>4 DEF Inv, TypeOK, Mint
      <3> QED
        BY <1>1, <2>1, <2>2, <3>1, SMTT(40)
    <2> QED
      BY <2>3, <2>4
  <1>7. ConfirmedHasQuorum'
    <2> SUFFICES ASSUME NEW m \in Node, stored'[m] # None
                 PROVE  \E h \in known'[m] : ConfirmedBy(stored[m], h)'
      BY SMTT(40) DEF ConfirmedHasQuorum
    <2>1. stored' = stored
      BY DEF Mint
    <2>2. PICK h \in known[m] : ConfirmedBy(stored[m], h)
      BY <2>1 DEF Inv, ConfirmedHasQuorum
    <2>3. h \in Minted
      BY DEF Inv, NodesOK
    <2>4. ConfirmedBy(stored[m], h)'
      BY <1>1, <2>1, <2>2, <2>3, Zenon DEF ConfirmedBy
    <2> QED
      BY <1>5, <2>1, <2>4
  <1> QED
    BY <1>3, <1>4, <1>6, <1>7 DEF Inv

\* What Loaded answers is what a restart would load, a minted block.
LEMMA LoadedMinted ==
    ASSUME Inv, NEW n \in Node
    PROVE  /\ Loaded(n) = IF stored[n] # None THEN stored[n] ELSE 0
           /\ Loaded(n) \in Minted /\ curHeader[n] \in Minted
  <1>1. 0 \in Minted
    BY GenesisMinted DEF Inv
  <1> QED
    BY <1>1 DEF Inv, NodesOK, Loaded

LEMMA ReceiveInv == \A n \in Node, b \in Slots : Inv /\ Receive(n, b) => Inv'
  <1> SUFFICES ASSUME NEW n \in Node, NEW b \in Slots, Inv, Receive(n, b) PROVE Inv'
    OBVIOUS
  <1> DEFINE w == Walk(curHeader[n], Loaded(n))
  <1>1. /\ w \in Minted
        /\ w # Loaded(n) => ConfirmedBy(w, curHeader[n])
    BY LoadedMinted, WalkConfirms DEF Inv
  <1>2. /\ confirmed' = [confirmed EXCEPT ![n] = w]
        /\ stored' = IF w = Loaded(n) THEN stored ELSE [stored EXCEPT ![n] = w]
    BY DEF Receive, UpdateConfirmed
  <1> HIDE DEF w
  <1>3. Minted \subseteq Blocks /\ Minted \subseteq Nat
    BY BlocksNat, Zenon DEF Minted
  <1>4. /\ UNCHANGED <<now, tree>>
        /\ b \in Minted /\ b \notin known[n] /\ tree[b].parent \in known[n]
        /\ known' = [known EXCEPT ![n] = @ \cup {b}]
    BY DEF Receive
  <1>5. Chain(b) \subseteq known[n] \cup {b}
    <2>1. b # 0
      BY BlocksNat DEF Slots
    <2>2. Chain(b) = Chain(tree[b].parent) \cup {b}
      BY <1>4, <2>1 DEF Inv, TreeOK
    <2>3. Chain(tree[b].parent) \subseteq known[n]
      BY <1>4, SMTT(40) DEF Inv, NodesOK
    <2> QED
      BY <2>2, <2>3
  <1>6. /\ head' \in [Node -> Blocks] /\ curHeader' \in [Node -> Blocks]
        /\ \A m \in Node : m # n => head'[m] = head[m] /\ curHeader'[m] = curHeader[m]
        /\ head'[n] \in known[n] \cup {b} /\ curHeader'[n] \in known[n] \cup {b}
    <2>1. CASE UNCHANGED <<head, curHeader>>
      BY <2>1, SMTT(40) DEF Inv, TypeOK, NodesOK
    <2>2. CASE SetHead(n, b)
      <3> DEFINE new == Chain(b) \ Chain(head[n])
                 oldest == Min(new)
      <3>1. new \in SUBSET Blocks /\ new \subseteq Chain(b)
        BY <1>3, <1>4, NumbersNat, Zenon DEF Inv
      <3>2. b \in new
        BY <1>4 DEF Inv, TreeOK, NodesOK
      <3>3. oldest \in new
        BY <3>1, <3>2, MinBlock, SMTT(40)
      <3>4. oldest \in known[n] \cup {b} /\ oldest \in Blocks
        BY <1>5, <3>1, <3>3
      <3>5. head' = [head EXCEPT ![n] = b] /\ curHeader' = [curHeader EXCEPT ![n] = oldest]
        BY <2>2, ZenonT(40) DEF SetHead
      <3> HIDE DEF oldest
      <3> QED
        BY <1>3, <1>4, <3>4, <3>5 DEF Inv, TypeOK
    <2> QED
      BY <2>1, <2>2, SMTT(40) DEF Receive
  <1>7. /\ Minted' = Minted /\ TreeOK'
        /\ \A c : Chain(c)' = Chain(c)
        /\ \A c, h : ConfirmedBy(c, h)' = ConfirmedBy(c, h)
    BY <1>4, SameTree DEF Inv
  <1>8. TypeOK'
    BY <1>1, <1>2, <1>3, <1>4, <1>6, ZenonT(40) DEF Inv, TypeOK
  <1>9. /\ known'[n] = known[n] \cup {b} /\ confirmed'[n] = w
        /\ stored'[n] = IF w = Loaded(n) THEN stored[n] ELSE w
        /\ \A m \in Node : m # n => /\ known'[m] = known[m]
                                    /\ confirmed'[m] = confirmed[m] /\ stored'[m] = stored[m]
    BY <1>2, <1>4 DEF Inv, TypeOK
  <1>10. w # None
    BY <1>1, <1>3, SMTT(40) DEF None
  <1>11. NodesOK'
    <2> SUFFICES ASSUME NEW m \in Node
                 PROVE  /\ known'[m] \subseteq Minted /\ 0 \in known'[m]
                        /\ \A c \in known'[m] : Chain(c) \subseteq known'[m]
                        /\ head'[m] \in known'[m] /\ curHeader'[m] \in known'[m]
                        /\ stored'[m] # None => stored'[m] \in Minted
                        /\ confirmed'[m] # None =>
                              confirmed'[m] = IF stored'[m] # None THEN stored'[m] ELSE 0
      BY <1>7 DEF NodesOK
    <2>1. /\ known[m] \subseteq Minted /\ 0 \in known[m]
          /\ \A c \in known[m] : Chain(c) \subseteq known[m]
          /\ head[m] \in known[m] /\ curHeader[m] \in known[m]
          /\ stored[m] # None => stored[m] \in Minted
          /\ confirmed[m] # None => confirmed[m] = IF stored[m] # None THEN stored[m] ELSE 0
      BY Zenon DEF Inv, NodesOK
    <2>2. CASE m = n
      <3>1. Loaded(n) = IF stored[n] # None THEN stored[n] ELSE 0
        BY LoadedMinted, Zenon
      <3> QED
        BY <1>1, <1>4, <1>5, <1>6, <1>9, <1>10, <2>1, <2>2, <3>1, SMTT(40)
    <2>3. CASE m # n
      BY <1>6, <1>9, <2>1, <2>3, Zenon
    <2> QED
      BY <2>2, <2>3, SMTT(40)
  <1>12. ConfirmedHasQuorum'
    <2> SUFFICES ASSUME NEW m \in Node, stored'[m] # None
                 PROVE  \E h \in known'[m] : ConfirmedBy(stored'[m], h)
      <3>1. \A m, h : (ConfirmedBy(stored[m], h))' = ConfirmedBy(stored'[m], h)
        BY <1>4, SMTT(40) DEF ConfirmedBy, Chain
      <3> QED
        BY <3>1, Zenon DEF ConfirmedHasQuorum
    <2>1. known[m] \subseteq known'[m]
      BY <1>9, SMTT(40)
    <2>2. CASE stored'[m] = stored[m]
      <3>1. PICK h \in known[m] : ConfirmedBy(stored[m], h)
        BY <2>2, Zenon DEF Inv, ConfirmedHasQuorum
      <3> QED
        BY <2>1, <2>2, <3>1
    <2>3. CASE stored'[m] # stored[m]
      <3>1. m = n /\ stored'[m] = w /\ w # Loaded(n)
        BY <1>9, <2>3, ZenonT(40)
      <3>2. curHeader[n] \in known[n]
        BY DEF Inv, NodesOK
      <3> QED
        BY <1>1, <2>1, <3>1, <3>2, ZenonT(40)
    <2> QED
      BY <2>2, <2>3
  <1> QED
    BY <1>7, <1>8, <1>11, <1>12 DEF Inv

\* Minting, receiving with its reorganisation, restarting and the passing of time keep
\* the inductive invariant: what a node has is a chain, and the confirmed header it
\* stored or remembers (updateConfirmedBlockHeader) has its quorum on one.
THEOREM Invariance == Spec => []Inv
  <1>1. Inv /\ [Next]_vars => Inv'
    <2> SUFFICES ASSUME Inv, [Next]_vars PROVE Inv'
      BY SMTT(40)
    <2>1. CASE UNCHANGED vars
      BY <2>1, SameTree DEF Inv, vars, TypeOK, NodesOK, ConfirmedHasQuorum
    <2>2. CASE Tick
      BY <2>2, TickInv
    <2>3. CASE \E n \in Node : Mint(n) \/ Restart(n)
      BY <2>3, MintInv, RestartInv
    <2>4. CASE \E n \in Node, b \in Slots : Receive(n, b)
      BY <2>4, ReceiveInv
    <2> QED
      BY <2>1, <2>2, <2>3, <2>4 DEF Next
  <1> QED
    BY <1>1, InitInv, PTL DEF Spec

-----------------------------------------------------------------------------
(* The results.                                                            *)

\* The state of every node keeps its types.
THEOREM TypeCorrect == Spec => []TypeOK
  BY Invariance, PTL DEF Inv

\* A stored confirmed block has ConsensusSize validators of one epoch behind it, on a
\* chain the node has (updateConfirmedBlockHeader, storeConfirmedBlockHeader).
THEOREM QuorumBehindConfirmed == Spec => []ConfirmedHasQuorum
  BY Invariance, PTL DEF Inv

\* The confirmed number a node answers never falls: not in a reorganisation, where the
\* walk stops at the confirmed number, and not in a restart, which loads what was stored.
THEOREM ConfirmedNumberNeverFalls == Spec => ConfirmedNeverGoesBack
  <1>1. Inv /\ [Next]_vars => [\A n \in Node : Number(Loaded(n)') >= Number(Loaded(n))]_vars
    <2> SUFFICES ASSUME Inv, Next, NEW n \in Node
                 PROVE  Number(Loaded(n)') >= Number(Loaded(n))
      BY Zenon
    <2>1. /\ Loaded(n) = IF stored[n] # None THEN stored[n] ELSE 0
          /\ Loaded(n) \in Minted /\ curHeader[n] \in Minted /\ TreeOK
      BY LoadedMinted DEF Inv
    <2>2. Number(Loaded(n)) \in Nat
      BY <2>1, NumbersNat
    <2>3. CASE UNCHANGED <<confirmed, stored>>
      BY <2>2, <2>3 DEF Loaded
    <2>4. CASE \E m \in Node : Restart(m)
      <3>1. stored' = stored /\ (confirmed'[n] = confirmed[n] \/ confirmed'[n] = None)
        BY <2>4, SMTT(40) DEF Restart, Inv, TypeOK
      <3>2. Loaded(n)' = Loaded(n)
        BY <2>1, <3>1 DEF Loaded
      <3> QED
        BY <2>2, <3>2
    <2>5. ASSUME NEW m \in Node, NEW b \in Slots, Receive(m, b)
          PROVE  Number(Loaded(n)') >= Number(Loaded(n))
      <3> DEFINE w == Walk(curHeader[m], Loaded(m))
      <3>1. /\ confirmed' = [confirmed EXCEPT ![m] = w]
            /\ stored' = IF w = Loaded(m) THEN stored ELSE [stored EXCEPT ![m] = w]
        BY <2>5, SMTT(40) DEF Receive, UpdateConfirmed
      <3>2. CASE m # n
        <4>1. confirmed'[n] = confirmed[n] /\ stored'[n] = stored[n]
          BY <3>1, <3>2
        <4> QED
          BY <2>2, <4>1 DEF Loaded
      <3>3. CASE m = n
        <4>1. w \in Minted /\ Number(w) >= Number(Loaded(n))
          BY <2>1, <3>3, WalkConfirms
        <4> HIDE DEF w
        <4>2. confirmed'[n] = w /\ w # None
          BY <3>1, <3>3, <4>1, BlocksNat, SMTT(40) DEF Inv, TypeOK, Minted, None
        <4>3. Loaded(n)' = w
          BY <4>2 DEF Loaded
        <4> QED
          BY <4>1, <4>3, SMTT(40)
      <3> QED
        BY <3>2, <3>3, ZenonT(40)
    <2> QED
      BY <2>3, <2>4, <2>5 DEF Next, Tick, Mint
  <1> QED
    BY <1>1, Invariance, PTL DEF Spec, ConfirmedNeverGoesBack

\* On one chain fewer blocks lie between two blocks than their numbers allow.
LEMMA BlocksBetween ==
    ASSUME TreeOK, NEW h \in Minted, NEW b \in Chain(h), NEW e \in Chain(h), b <= e
    PROVE  LET D == {c \in Chain(h) : b <= c /\ c <= e}
           IN  Cardinality(D) \in Nat /\ Cardinality(D) <= Number(e) - Number(b) + 1
  <1> DEFINE D == {c \in Chain(h) : b <= c /\ c <= e}
             R == Number(b) .. Number(e)
             f == [c \in D |-> Number(c)]
  <1>1. Chain(h) \subseteq Minted /\ Chain(h) \subseteq Blocks /\ Chain(h) \subseteq Nat
    BY NumbersNat, BlocksNat, Zenon
  <1>2. \A c \in Chain(h) : Number(c) \in Nat
    BY <1>1, NumbersNat, SMTT(40)
  <1>3. \A c, d \in Chain(h) : c < d => Number(c) < Number(d)
    BY DEF TreeOK
  <1>4. \A c, d \in Chain(h) : c # d => Number(c) # Number(d)
    BY <1>1, <1>2, <1>3
  <1>5. \A c \in D : Number(c) \in R
    BY <1>1, <1>2, <1>3
  <1>6. Number(b) <= Number(e)
    BY <1>1, <1>2, <1>3
  <1>7. f \in Injection(D, R)
    <2>1. f \in [D -> R] /\ \A c \in D : f[c] = Number(c) /\ c \in Chain(h)
      BY <1>5
    <2>2. \A c, d \in D : f[c] = f[d] => c = d
      BY <1>4, <2>1
    <2> HIDE DEF f, D, R
    <2> QED
      BY <2>1, <2>2 DEF Injection, IsInjective
  <1>8. IsFiniteSet(R) /\ Cardinality(R) = Number(e) - Number(b) + 1
    <2>1. Number(b) \in Int /\ Number(e) \in Int
      BY <1>2
    <2>2. /\ IsFiniteSet(R)
          /\ Cardinality(R) = IF Number(b) > Number(e) THEN 0 ELSE Number(e) - Number(b) + 1
      BY <2>1, FS_Interval, Zenon
    <2> HIDE DEF R
    <2> QED
      BY <1>6, <2>1, <2>2
  <1> HIDE DEF D, R, f
  <1>9. IsFiniteSet(D) /\ Cardinality(D) <= Cardinality(R)
    BY <1>7, <1>8, FS_Injection
  <1> QED
    BY <1>8, <1>9, FS_CardinalityType DEF D

\* A block above the place where the loop ends is not missed: with the blocks from there
\* down to the confirmed one there would still be too few validators.
LEMMA FastReturn ==
    ASSUME TreeOK, NEW h \in Minted, NEW conf \in Minted,
           NEW e \in Chain(h), GivesUp(h, conf, e),
           NEW b \in Chain(h), b <= e, Number(b) > Number(conf)
    PROVE  ~ConfirmedBy(b, h)
  <1> DEFINE D == {c \in Chain(h) : b <= c /\ c <= e}
             V == {Validator[c] : c \in D}
             A == {d \in Chain(h) : d > e /\ EpochOf(d) = EpochOf(e)}
             S == Seen(h, e)
             B == Builders(b, h)
  <1>1. Chain(h) \subseteq Minted /\ Chain(h) \subseteq Blocks /\ Chain(h) \subseteq Nat
    BY NumbersNat, BlocksNat, Zenon
  <1>2. \A c \in Chain(h) : Number(c) \in Nat
    BY <1>1, NumbersNat
  <1>3. Number(conf) \in Nat
    BY NumbersNat
  <1>4. b > 0
    <2>1. Number(b) # 0
      BY <1>2, <1>3
    <2> QED
      BY <1>1, <2>1, GenesisMinted
  <1>5. D \in SUBSET Slots /\ A \in SUBSET Slots
    <2>1. \A c \in Chain(h) : c > 0 => c \in Slots
      BY <1>1 DEF Blocks, Slots
    <2> QED
      BY <1>1, <1>4, <2>1
  <1>6. Number(b) <= Number(e)
    <2>1. \A c, d \in Chain(h) : c < d => Number(c) < Number(d)
      BY DEF TreeOK
    <2> QED
      BY <1>1, <1>2, <2>1
  <1>7. Number(e) - Number(conf) < ConsensusSize - Cardinality(S)
    BY <1>2, <1>3, <1>6 DEF GivesUp
  <1>8. IsFiniteSet(S) /\ Cardinality(S) \in Nat
    BY <1>5, ValidatorsOf, Zenon DEF Seen
  <1>9. /\ IsFiniteSet(V) /\ Cardinality(V) \in Nat
        /\ Cardinality(V) <= Cardinality(D)
    BY <1>5, ValidatorsOf
  <1>10. Cardinality(D) \in Nat /\ Cardinality(D) <= Number(e) - Number(b) + 1
    BY BlocksBetween, Zenon
  <1>11. B \subseteq S \cup V
    <2> SUFFICES ASSUME NEW d \in Chain(h), d >= b, EpochOf(d) = EpochOf(b)
                 PROVE  Validator[d] \in S \cup V
      BY DEF Builders
    <2>1. CASE d <= e
      BY <1>1, <2>1, SMTT(40)
    <2>2. CASE d > e
      <3>1. EpochOf(b) <= EpochOf(e) /\ EpochOf(b) \in Nat /\ EpochOf(e) \in Nat
        BY <1>1, EpochMonotone, SMTT(40)
      <3>2. EpochOf(e) <= EpochOf(d)
        BY <1>1, <2>2, EpochMonotone, SMTT(40)
      <3>3. EpochOf(d) = EpochOf(e)
        BY <3>1, <3>2, SMTT(40)
      <3> QED
        BY <2>2, <3>3, SMTT(40) DEF Seen
    <2> QED
      BY <1>1, <2>1, <2>2, SMTT(40)
  <1> HIDE DEF D, V, A, S, B
  <1>12. /\ IsFiniteSet(S \cup V)
         /\ Cardinality(S \cup V) = Cardinality(S) + Cardinality(V) - Cardinality(S \cap V)
    BY <1>8, <1>9, FS_Union
  <1>13. Cardinality(S \cap V) \in Nat
    BY <1>8, FS_Intersection, FS_CardinalityType, Zenon
  <1>14. IsFiniteSet(B) /\ Cardinality(B) <= Cardinality(S \cup V)
    BY <1>11, <1>12, FS_Subset
  <1>15. Cardinality(B) \in Nat /\ ConsensusSize \in Nat
    BY <1>14, FS_CardinalityType, ConfirmAssumption
  <1>16. Cardinality(S \cup V) <= Cardinality(S) + Cardinality(V) /\ Cardinality(S \cup V) \in Nat
    BY <1>8, <1>9, <1>12, <1>13, FS_CardinalityType
  <1>17. Cardinality(B) < ConsensusSize
    BY <1>2, <1>3, <1>7, <1>8, <1>9, <1>10, <1>14, <1>15, <1>16
  <1> QED
    BY <1>15, <1>17 DEF ConfirmedBy, Builders, B

\* Without its early returns the walk would find the same block: the newest one above
\* the confirmed block that the node's current header chain confirms
\* (updateConfirmedBlockHeader).
THEOREM WalkIsExact == Spec => []WalkFindsNewest
  <1>1. Inv => WalkFindsNewest
    <2> SUFFICES ASSUME Inv, NEW n \in Node
                 PROVE  LET conf == Loaded(n)
                            above == {b \in Chain(curHeader[n]) :
                                         Number(b) > Number(conf) /\ ConfirmedBy(b, curHeader[n])}
                        IN  Walk(curHeader[n], conf) = IF above = {} THEN conf ELSE Max(above)
      BY DEF WalkFindsNewest
    <2> DEFINE h == curHeader[n]
               conf == Loaded(n)
               above == {b \in Chain(h) : Number(b) > Number(conf) /\ ConfirmedBy(b, h)}
               e == Max(Ends(h, conf))
    <2>1. TreeOK /\ h \in Minted /\ conf \in Minted
      BY LoadedMinted, Zenon DEF Inv
    <2>2. /\ e \in Chain(h) /\ e \in Minted
          /\ GivesUp(h, conf, e) \/ Enough(h, e)
          /\ \A c \in Ends(h, conf) : c <= e
          /\ Walk(h, conf) = IF GivesUp(h, conf, e) THEN conf ELSE e
      BY <2>1, WalkEnds, Zenon
    <2>3. \A b \in above : b \in Chain(h) /\ b <= e
      <3>1. \A b \in above : b \in Chain(h) /\ Enough(h, b)
        BY <2>1, EnoughIsConfirmed
      <3> QED
        BY <2>2, <3>1, ZenonT(40) DEF Ends
    <2>4. above \in SUBSET Blocks
      BY <2>1, NumbersNat, ZenonT(40)
    <2>5. CASE GivesUp(h, conf, e)
      <3>1. above = {}
        BY <2>1, <2>2, <2>3, <2>5, FastReturn, ZenonT(40)
      <3> QED
        BY <2>2, <2>5, <3>1, ZenonT(40)
    <2>6. CASE ~GivesUp(h, conf, e)
      <3>1. Number(e) > Number(conf)
        BY <2>1, <2>2, <2>6, NumbersNat, SMTT(40) DEF GivesUp
      <3>2. ConfirmedBy(e, h)
        BY <2>1, <2>2, <2>6, EnoughIsConfirmed, ZenonT(40)
      <3>3. e \in above
        BY <2>2, <3>1, <3>2
      <3> HIDE DEF above, e
      <3>4. Max(above) = e
        BY <2>3, <2>4, <3>3, MaxUnique
      <3> QED
        BY <2>2, <2>6, <3>3, <3>4, ZenonT(40) DEF above
    <2> QED
      BY <2>5, <2>6
  <1> QED
    BY <1>1, Invariance, PTL
=============================================================================
