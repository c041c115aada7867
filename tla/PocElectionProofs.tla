------------------------- MODULE PocElectionProofs -------------------------
(***************************************************************************)
(* Proofs about PocElection: type correctness, exact mint counts, complete *)
(* elections, and candidates never dropping below safeSize by removals.    *)
(***************************************************************************)
EXTENDS PocElection, FiniteSetTheorems, TLAPS

\* Integer division by an interval is monotone: a later time is not in an
\* earlier epoch.
LEMMA DivMonotone ==
    ASSUME NEW a \in Nat, NEW b \in Nat, NEW k \in Nat \ {0}, a <= b
    PROVE  a \div k \in Nat /\ a \div k <= b \div k
  OBVIOUS

LEMMA EpochOfTime ==
    ASSUME NEW t \in 0 .. MaxTime
    PROVE  EpochOf(t) \in Epochs /\ EpochOf(t) \in Nat
  BY DivMonotone, TimeAssumption DEF EpochOf, Epochs

LEMMA EpochMonotone ==
    ASSUME NEW s \in Nat, NEW t \in Nat, s <= t
    PROVE  EpochOf(s) \in Nat /\ EpochOf(t) \in Nat /\ EpochOf(s) <= EpochOf(t)
  BY DivMonotone, TimeAssumption DEF EpochOf

LEMMA SafeSizePositive == SafeSize \in Nat \ {0} /\ SafeSize <= MaxValidatorSize
  BY SizeAssumption DEF SafeSize

\* A subset of the addresses is finite and no larger than all of them.
LEMMA AddrSubset ==
    ASSUME NEW S \in SUBSET Addr
    PROVE  /\ IsFiniteSet(S)
           /\ Cardinality(S) \in Nat
           /\ Cardinality(S) <= Cardinality(Addr)
  BY FS_Subset, FS_CardinalityType, AddrAssumption, Zenon

\* The slot rotation of lookupValidator stays inside the validator list.
LEMMA LookupInAddr ==
    ASSUME NEW v \in Lists, NEW t \in Nat
    PROVE  LookupValidator(v, t) \in Addr
  <1>1. PICK n \in 1 .. Cardinality(Addr) : v \in [1 .. n -> Addr]
    BY DEF Lists
  <1>2. Cardinality(Addr) \in Nat
    BY FS_CardinalityType, AddrAssumption
  <1>3. n \in Nat \ {0} /\ DOMAIN v = 1 .. n
    BY <1>1, <1>2
  <1>4. Cardinality(DOMAIN v) = n
    BY <1>3, FS_Interval
  <1> DEFINE offset == (t % EpochInterval) \div BlockInterval
  <1>5. t % EpochInterval \in Nat
    BY TimeAssumption
  <1>6. offset \in Nat
    BY <1>5, DivMonotone, TimeAssumption
  <1>7. offset % n \in 0 .. n - 1
    BY <1>3, <1>6
  <1> QED
    BY <1>1, <1>3, <1>4, <1>7 DEF LookupValidator

\* A non-empty cut of the candidates, in any order, is a validator list.
LEMMA CutIsList ==
    ASSUME NEW S \in SUBSET Addr, Cardinality(S) >= 1,
           NEW f \in Bijection(1 .. Cardinality(S), S)
    PROVE  f \in Lists /\ f \in Injection(1 .. Cardinality(S), Addr)
           /\ Range(f) = S
  <1>1. f \in [1 .. Cardinality(S) -> S]
    BY DEF Bijection, Injection
  <1>2. f \in [1 .. Cardinality(S) -> Addr]
    BY <1>1
  <1>3. Cardinality(S) \in 1 .. Cardinality(Addr)
    BY AddrSubset, FS_CardinalityType, AddrAssumption
  <1>4. f \in Lists
    BY <1>2, <1>3 DEF Lists
  <1>5. f \in Injection(1 .. Cardinality(S), Addr)
    BY <1>2 DEF Bijection, Injection
  <1>6. Range(f) = S
    BY <1>1 DEF Bijection, Surjection, Range
  <1> QED
    BY <1>4, <1>5, <1>6

LEMMA GenesisIsList == GenesisValidators \in Lists
  <1> DEFINE n == Cardinality(DOMAIN GenesisValidators)
  <1>1. n \in Nat \ {0} /\ GenesisValidators \in Injection(1 .. n, Addr)
    BY GenesisAssumption
  <1>2. Cardinality(1 .. n) = n
    BY <1>1, FS_Interval
  <1>3. n <= Cardinality(Addr) /\ Cardinality(Addr) \in Nat
    BY <1>1, <1>2, FS_Injection, FS_CardinalityType, AddrAssumption
  <1>4. GenesisValidators \in [1 .. n -> Addr]
    BY <1>1 DEF Injection
  <1> QED
    BY <1>1, <1>3, <1>4 DEF Lists

\* The members of a validator list are addresses.
LEMMA ListInAddr ==
    ASSUME NEW v \in Lists
    PROVE  Range(v) \subseteq Addr
  <1>1. PICK n \in 1 .. Cardinality(Addr) : v \in [1 .. n -> Addr]
    BY DEF Lists
  <1> QED
    BY <1>1 DEF Range

\* Removing an address takes at most one from the number of candidates.
LEMMA RemoveOne ==
    ASSUME NEW S \in SUBSET Addr, NEW x
    PROVE  Cardinality(S \ {x}) \in Nat /\ Cardinality(S \ {x}) >= Cardinality(S) - 1
  BY AddrSubset, FS_RemoveElement

\* What a chain extended by one block holds at each number.
LEMMA AppendCases ==
    ASSUME NEW s \in Seq(Blocks), NEW b \in Blocks
    PROVE  /\ DOMAIN Append(s, b) = DOMAIN s \cup {Len(s) + 1}
           /\ Len(s) + 1 \notin DOMAIN s
           /\ Append(s, b)[Len(s) + 1] = b
           /\ \A n \in DOMAIN s : Append(s, b)[n] = s[n]
  OBVIOUS

\* The times on a chain are times.
LEMMA BlockTimes ==
    ASSUME NEW s \in Seq(Blocks), NEW n \in DOMAIN s
    PROVE  s[n].time \in 0 .. MaxTime /\ s[n].time \in Nat
  <1>1. s[n] \in Blocks
    OBVIOUS
  <1> QED
    BY <1>1, TimeAssumption DEF Blocks

\* Adding an element to a finite set counts one more.
LEMMA AddOne ==
    ASSUME NEW S, NEW T, NEW x, IsFiniteSet(S), x \notin S, T = S \cup {x}
    PROVE  Cardinality(S) \in Nat /\ Cardinality(T) = Cardinality(S) + 1
  BY FS_AddElement, FS_CardinalityType

\* Type correctness is inductive on its own: no part of it needs more than the
\* types of the values an action reads.
LEMMA TypeStep == TypeOK /\ [Next]_vars => TypeOK'
  <1> SUFFICES ASSUME TypeOK, [Next]_vars
               PROVE  TypeOK'
    OBVIOUS
  <1>0. /\ parent.time \in 0 .. MaxTime /\ parent.ctx \in Contexts
        /\ header.time \in 0 .. MaxTime /\ header.validator \in Addr
        /\ ctx.candidates \in SUBSET Addr /\ ctx.validators \in Lists
        /\ ctx.mintCnt \in [Epochs -> [Addr -> Nat]]
        /\ ctx.contribution \in [Addr -> Nat]
        /\ ctx.contributions \in [Addr -> Nat \cup {Absent}]
        /\ parent.ctx.validators \in Lists
    BY Zenon DEF TypeOK, Blocks, Contexts
  <1>1. ASSUME NEW t \in 1 .. MaxTime, PrepareBlock(t)
        PROVE  TypeOK'
    <2> QED
      BY <1>1, <1>0 DEF TypeOK, Blocks, Phases, PrepareBlock
  <1>2. ASSUME NEW c \in Contexts, Transaction(c)
        PROVE  TypeOK'
    BY <1>2, TimeAssumption DEF Transaction, TypeOK
  <1>3. ASSUME NEW a \in Addr, BecomeCandidate(a) \/ KickoutCandidate(a)
        PROVE  TypeOK'
    <2>1. [ctx EXCEPT !.candidates = @ \cup {a}] \in Contexts
          /\ [ctx EXCEPT !.candidates = @ \ {a}] \in Contexts
      BY Zenon DEF TypeOK, Contexts
    <2> QED
      BY <1>2, <1>3, <2>1 DEF BecomeCandidate, KickoutCandidate
  <1>4. ASSUME NEW a \in Addr, NEW c \in 1 .. 2, AddContribution(a, c)
        PROVE  TypeOK'
    <2>0. [ctx.contribution EXCEPT ![a] = @ + c] \in [Addr -> Nat]
      BY <1>0
    <2>1. [ctx EXCEPT !.contribution[a] = @ + c] \in Contexts
      BY <2>0, Zenon DEF TypeOK, Contexts
    <2> QED
      BY <1>2, <1>4, <2>1 DEF AddContribution
  <1>5. ASSUME Finalize
        PROVE  TypeOK'
    <2>1. EpochOf(header.time) \in Nat /\ EpochOf(parent.time) \in Nat
      BY <1>0, EpochOfTime
    <2>2. \A e : Cardinality(Minters(ctx, e)) \in Nat
      BY AddrSubset DEF Minters
    <2>3. loop' \in [prevEpoch : Nat, i : Nat, iter : Nat, genesis : BOOLEAN]
      BY <1>5, <2>1, <2>2 DEF Finalize
    <2>4. blocks # <<>> => blocks[1].time \in 0 .. MaxTime
      <3>1. blocks \in Seq(Blocks)
        BY DEF TypeOK
      <3>2. blocks # <<>> => blocks[1] \in Blocks
        BY <3>1
      <3> QED
        BY <3>2 DEF Blocks
    <2> QED
      BY <1>5, <2>3, <2>4 DEF TypeOK, Blocks, Phases, Finalize
  <1>6. ASSUME KickoutValidator
        PROVE  TypeOK'
    <2>1. \A S \in SUBSET Addr : Cardinality(S) \in Nat
      BY AddrSubset
    <2>2. Range(ctx.validators) \subseteq Addr
      BY <1>0, ListInAddr
    <2>3. SafeSize \in Nat
      BY SafeSizePositive
    <2>4. kickout' \in [need : SUBSET Addr, candidateCount : Nat]
      BY <1>0, <1>6, <2>1, <2>2, <2>3 DEF KickoutValidator
    <2>5. loop' \in [prevEpoch : Nat, i : Nat, iter : Nat, genesis : BOOLEAN]
      BY <1>6 DEF KickoutValidator, TypeOK
    <2> QED
      BY <1>6, <2>4, <2>5, Zenon DEF TypeOK, Blocks, Phases, KickoutValidator
  <1>7. ASSUME KickoutOne
        PROVE  TypeOK'
    <2>1. ctx' \in Contexts
      BY <1>7, Zenon DEF KickoutOne, TypeOK, Contexts
    <2>2. kickout' \in [need : SUBSET Addr, candidateCount : Nat]
      BY <1>7, SafeSizePositive DEF KickoutOne, TypeOK
    <2> QED
      BY <1>7, <2>1, <2>2 DEF TypeOK, Blocks, Phases, KickoutOne
  <1>8. ASSUME KickoutDone
        PROVE  TypeOK'
    BY <1>8 DEF TypeOK, Blocks, Phases, KickoutDone, NoKickout
  <1>9. ASSUME SkipKickout
        PROVE  TypeOK'
    BY <1>9 DEF TypeOK, Blocks, Phases, SkipKickout
  <1>10. ASSUME Elect
         PROVE  TypeOK'
    <2>1. PICK S \in SUBSET ctx.candidates :
              /\ IsCut(S)
              /\ \E validators \in Bijection(1 .. Cardinality(S), S) :
                     ctx' = [ctx EXCEPT
                               !.validators = validators,
                               !.contributions = CountContributions]
      BY <1>10, Zenon DEF Elect
    <2>2. Cardinality(S) >= 1
      BY <1>0, <1>10, <2>1, SafeSizePositive, AddrSubset, SMTT(40) DEF Elect, IsCut
    <2>3. PICK f \in Bijection(1 .. Cardinality(S), S) :
              ctx' = [ctx EXCEPT !.validators = f,
                                 !.contributions = CountContributions]
      BY <2>1, Zenon
    <2>4. f \in Lists
      BY <1>0, <2>2, CutIsList
    <2>5. ctx' \in Contexts
      <3>1. CountContributions \in [Addr -> Nat \cup {Absent}]
        BY <1>0 DEF CountContributions
      <3> QED
        BY <2>3, <2>4, <3>1, Zenon DEF TypeOK, Contexts
    <2> QED
      BY <1>10, <2>5, SMTT(40) DEF TypeOK, Blocks, Phases, Elect
  <1>11. ASSUME ElectFails
         PROVE  TypeOK'
    BY <1>0, <1>11 DEF TypeOK, Blocks, Phases, ElectFails, NoLoop
  <1>12. ASSUME SealBlock
         PROVE  TypeOK'
    <2>1. EpochOf(header.time) \in Epochs /\ EpochOf(parent.time) \in Epochs
      BY <1>0, EpochOfTime
    <2> DEFINE e == EpochOf(header.time)
               v == header.validator
               cnt == IF EpochOf(parent.time) = e
                      THEN ctx.mintCnt[EpochOf(parent.time)][v] + 1 ELSE 1
    <2>2. ctx' = [ctx EXCEPT !.mintCnt[e][v] = cnt]
      BY <1>12 DEF SealBlock, UpdateMintCnt
    <2>3. cnt \in Nat
      BY <1>0, <2>1
    <2> HIDE DEF cnt
    <2>4. [ctx.mintCnt EXCEPT ![e][v] = cnt] \in [Epochs -> [Addr -> Nat]]
      BY <1>0, <2>1, <2>3
    <2>5. ctx' \in Contexts
      BY <2>2, <2>4, Zenon DEF TypeOK, Contexts
    <2> QED
      BY <1>0, <1>12, <2>5 DEF TypeOK, Blocks, Phases, SealBlock, NoLoop
  <1>13. ASSUME UNCHANGED vars
         PROVE  TypeOK'
    BY <1>13 DEF TypeOK, Blocks, Phases, vars
  <1> QED
    BY <1>1, <1>3, <1>4, <1>5, <1>6, <1>7, <1>8, <1>9, <1>10, <1>11, <1>12,
       <1>13 DEF Next

LEMMA TypeInit == Init => TypeOK
  <1> SUFFICES ASSUME Init
               PROVE  TypeOK
    OBVIOUS
  <1>1. GenesisValidators \in Lists /\ Range(GenesisValidators) \subseteq Addr
    BY GenesisIsList DEF Lists, Range
  <1>2. GenesisValidators[1] \in Addr
    BY <1>1 DEF Lists
  <1>3. ctx \in Contexts
    BY <1>1 DEF Init, Contexts
  <1> QED
    BY <1>2, <1>3, TimeAssumption DEF Init, TypeOK, Blocks, Phases, NoLoop, NoKickout

\* Type correctness of the election, for every set of addresses and every
\* interval, epoch length and number of validators.
THEOREM TypeCorrect == Spec => []TypeOK
  BY TypeInit, TypeStep, PTL DEF Spec

-----------------------------------------------------------------------------
(***************************************************************************)
(* The inductive invariant.  Between two blocks the working context is the *)
(* committed one, no step before the end of Finalize touches the mint      *)
(* counts, and once the loop of tryElect has gone round the working        *)
(* context comes from a complete election.                                 *)
(***************************************************************************)
SameElection(c, d) ==
    c.validators = d.validators /\ c.contributions = d.contributions

WorkInv ==
    /\ phase = "idle" => ctx = parent.ctx
    /\ phase # "idle" => parent.time < header.time
    /\ ctx.mintCnt = parent.ctx.mintCnt
    /\ \A n \in DOMAIN blocks : blocks[n].time <= parent.time

LoopInv ==
    /\ phase = "txs" => SameElection(ctx, parent.ctx)
    /\ phase \in {"elect", "kickout", "rank"} =>
           /\ loop.prevEpoch <= loop.i
           /\ \/ loop.prevEpoch < EpochOf(header.time)
              \/ EpochOf(parent.time) = EpochOf(header.time)
           /\ \/ loop.i = loop.prevEpoch /\ SameElection(ctx, parent.ctx)
              \/ ElectedSize(ctx) /\ ElectedRank(ctx)

CountInv ==
    phase = "kickout" => kickout.candidateCount <= Cardinality(ctx.candidates)

IInv ==
    /\ TypeOK /\ WorkInv /\ LoopInv /\ CountInv
    /\ MintCntExact /\ ValidatorsElected /\ BestContributorsElected

\* What Next allows, as one disjunction of actions and a transaction with any
\* new context that keeps the validators, mint counts and recorded
\* contributions.
LEMMA NextCases ==
    ASSUME TypeOK, [Next]_vars
    PROVE  \/ \E t \in 1 .. MaxTime : PrepareBlock(t)
           \/ /\ phase = "txs" /\ phase' = "txs"
              /\ SameElection(ctx', ctx) /\ ctx'.mintCnt = ctx.mintCnt
              /\ UNCHANGED <<parent, header, loop, kickout, timeOfFirstBlock,
                             blocks>>
           \/ Finalize \/ KickoutValidator \/ KickoutOne \/ KickoutDone
           \/ SkipKickout \/ Elect \/ ElectFails \/ SealBlock
           \/ UNCHANGED vars
  <1>1. ASSUME NEW a \in Addr, BecomeCandidate(a) \/ KickoutCandidate(a)
        PROVE  /\ phase = "txs" /\ phase' = "txs"
               /\ SameElection(ctx', ctx) /\ ctx'.mintCnt = ctx.mintCnt
               /\ UNCHANGED <<parent, header, loop, kickout, timeOfFirstBlock,
                              blocks>>
    BY <1>1, ZenonT(40) DEF BecomeCandidate, KickoutCandidate, Transaction, SameElection,
                TypeOK, Contexts
  <1>2. ASSUME NEW a \in Addr, NEW c \in 1 .. 2, AddContribution(a, c)
        PROVE  /\ phase = "txs" /\ phase' = "txs"
               /\ SameElection(ctx', ctx) /\ ctx'.mintCnt = ctx.mintCnt
               /\ UNCHANGED <<parent, header, loop, kickout, timeOfFirstBlock,
                              blocks>>
    BY <1>2 DEF AddContribution, Transaction, SameElection, TypeOK, Contexts
  <1> QED
    BY <1>1, <1>2 DEF Next

\* Between blocks the working context is the committed one, and only the end
\* of Finalize writes a mint count.
LEMMA WorkStep == TypeOK /\ WorkInv /\ [Next]_vars => WorkInv'
  <1> SUFFICES ASSUME TypeOK, WorkInv, [Next]_vars
               PROVE  WorkInv'
    OBVIOUS
  <1>0. /\ parent.time \in Nat /\ header.time \in Nat
        /\ blocks \in Seq(Blocks)
        /\ BlockInterval \in Nat \ {0}
    BY TimeAssumption DEF TypeOK, Blocks
  <1>1. ASSUME NEW t \in 1 .. MaxTime, PrepareBlock(t)
        PROVE  WorkInv'
    BY <1>0, <1>1 DEF PrepareBlock, VerifyHeader, WorkInv
  <1>2. ASSUME phase = "txs", phase' = "txs", ctx'.mintCnt = ctx.mintCnt,
               UNCHANGED <<parent, header, blocks>>
        PROVE  WorkInv'
    BY <1>2 DEF WorkInv
  <1>3. CASE Finalize
    BY <1>3 DEF Finalize, WorkInv
  <1>4. CASE KickoutValidator
    BY <1>4 DEF KickoutValidator, Electing, WorkInv
  <1>5. CASE KickoutOne
    BY <1>5 DEF KickoutOne, WorkInv, TypeOK, Contexts
  <1>6. CASE KickoutDone
    BY <1>6 DEF KickoutDone, WorkInv
  <1>7. CASE SkipKickout
    BY <1>7 DEF SkipKickout, Electing, WorkInv
  <1>8. CASE Elect
    BY <1>8 DEF Elect, WorkInv, TypeOK, Contexts
  <1>9. CASE ElectFails
    BY <1>9 DEF ElectFails, WorkInv
  <1>10. CASE SealBlock
    <2>1. /\ parent'.ctx = ctx' /\ parent'.time = header.time
          /\ phase' = "idle" /\ blocks' = Append(blocks, header)
          /\ parent.time < header.time
      BY <1>10 DEF SealBlock, WorkInv
    <2>2. \A n \in DOMAIN blocks' : blocks'[n].time <= header.time
      <3>0. header \in Blocks
        BY DEF TypeOK
      <3>1. ASSUME NEW n \in DOMAIN blocks'
            PROVE  blocks'[n].time <= header.time
        <4>1. \/ n \in DOMAIN blocks /\ blocks'[n] = blocks[n]
              \/ blocks'[n] = header
          BY <1>0, <2>1, <3>0, AppendCases
        <4>2. \A m \in DOMAIN blocks :
                  blocks[m].time \in Nat /\ blocks[m].time <= parent.time
          BY <1>0, BlockTimes DEF WorkInv
        <4> QED
          BY <1>0, <2>1, <4>1, <4>2
      <3> QED
        BY <3>1
    <2> QED
      BY <2>1, <2>2 DEF WorkInv
  <1>11. CASE UNCHANGED vars
    BY <1>11 DEF vars, WorkInv
  <1> QED
    BY <1>1, <1>2, <1>3, <1>4, <1>5, <1>6, <1>7, <1>8, <1>9, <1>10, <1>11,
       NextCases, ZenonT(40)

\* The removals never outrun candidateCount, which never exceeds the number of
\* candidates.
LEMMA CountStep == TypeOK /\ CountInv /\ [Next]_vars => CountInv'
  <1> SUFFICES ASSUME TypeOK, CountInv, [Next]_vars, phase' = "kickout"
               PROVE  kickout'.candidateCount <= Cardinality(ctx'.candidates)
    BY DEF CountInv
  <1>0. ctx.candidates \in SUBSET Addr /\ kickout.candidateCount \in Nat
    BY DEF TypeOK, Contexts
  <1>1. CASE KickoutValidator
    <2>1. \A S \in SUBSET Addr : Cardinality(S) \in Nat
      BY AddrSubset
    <2>2. SafeSize \in Nat
      BY SafeSizePositive
    <2> DEFINE need == {v \in Range(ctx.validators) :
                            ctx.mintCnt[loop.prevEpoch][v] < AtLeastMintCnt}
               cap  == Cardinality(need) + SafeSize
    <2>3. kickout'.candidateCount = IF Cardinality(ctx.candidates) < cap
                                    THEN Cardinality(ctx.candidates) ELSE cap
      BY <1>1 DEF KickoutValidator
    <2>4. need \subseteq Addr
      BY ListInAddr DEF TypeOK, Contexts
    <2>5. cap \in Nat
      BY <2>1, <2>2, <2>4
    <2> HIDE DEF cap
    <2> QED
      BY <1>0, <1>1, <2>1, <2>3, <2>5 DEF KickoutValidator
  <1>2. CASE KickoutOne
    <2> DEFINE x == WorstOf(kickout.need)
    <2>1. /\ ctx'.candidates = ctx.candidates \ {x}
          /\ kickout'.candidateCount = kickout.candidateCount - 1
          /\ kickout.candidateCount <= Cardinality(ctx.candidates)
      BY <1>2 DEF KickoutOne, CountInv, TypeOK, Contexts
    <2> HIDE DEF x
    <2>2. /\ Cardinality(ctx.candidates) \in Nat
          /\ Cardinality(ctx.candidates \ {x}) \in Nat
          /\ Cardinality(ctx.candidates \ {x}) >= Cardinality(ctx.candidates) - 1
      BY <1>0, RemoveOne, AddrSubset
    <2> QED
      BY <1>0, <2>1, <2>2
  <1>3. CASE UNCHANGED vars
    BY <1>3, SMTT(40) DEF vars, CountInv
  <1> QED
    BY <1>1, <1>2, <1>3, NextCases
       DEF PrepareBlock, Finalize, KickoutDone, SkipKickout, Elect, ElectFails,
           SealBlock

\* A block counts for its validator in its epoch, and only there.  In a new
\* epoch the count starts at one because no earlier block lies in it.
LEMMA MintStep == TypeOK /\ WorkInv /\ MintCntExact /\ [Next]_vars => MintCntExact'
  <1> SUFFICES ASSUME TypeOK, WorkInv, MintCntExact, [Next]_vars
               PROVE  MintCntExact'
    OBVIOUS
  <1>1. CASE SealBlock
    <2> DEFINE E == EpochOf(header.time)
               P == EpochOf(parent.time)
               V == header.validator
               At(e, a) == {n \in DOMAIN blocks :
                               EpochOf(blocks[n].time) = e /\ blocks[n].validator = a}
               cnt == IF P = E THEN ctx.mintCnt[P][V] + 1 ELSE 1
    <2>0. /\ parent.time \in 0 .. MaxTime /\ header.time \in 0 .. MaxTime
          /\ header \in Blocks /\ blocks \in Seq(Blocks) /\ V \in Addr
          /\ ctx.mintCnt \in [Epochs -> [Addr -> Nat]]
      BY DEF TypeOK, Blocks, Contexts
    <2>1. E \in Epochs /\ P \in Epochs /\ E \in Nat /\ P \in Nat
      BY <2>0, EpochOfTime
    <2>2. /\ parent.time < header.time
          /\ ctx.mintCnt = parent.ctx.mintCnt
          /\ \A n \in DOMAIN blocks : blocks[n].time <= parent.time
      BY <1>1 DEF SealBlock, WorkInv
    <2>3. /\ parent'.ctx.mintCnt = [ctx.mintCnt EXCEPT ![E][V] = cnt]
          /\ blocks' = Append(blocks, header)
      BY <1>1, Zenon DEF SealBlock, UpdateMintCnt, TypeOK, Contexts
    <2>4. \A e \in Epochs, a \in Addr : IsFiniteSet(At(e, a))
      <3>1. DOMAIN blocks = 1 .. Len(blocks) /\ Len(blocks) \in Nat
        BY <2>0
      <3>2. IsFiniteSet(DOMAIN blocks)
        BY <3>1, FS_Interval, SMTT(40)
      <3> QED
        BY <3>2, FS_Subset
    <2>5. \A e \in Epochs, a \in Addr : ctx.mintCnt[e][a] = Cardinality(At(e, a))
      BY <2>2 DEF MintCntExact
    <2>6. ASSUME NEW e \in Epochs, NEW a \in Addr
          PROVE  parent'.ctx.mintCnt[e][a] =
                     Cardinality({n \in DOMAIN blocks' :
                         EpochOf(blocks'[n].time) = e /\ blocks'[n].validator = a})
      <3> DEFINE New == {n \in DOMAIN blocks' :
                            EpochOf(blocks'[n].time) = e /\ blocks'[n].validator = a}
                 k == Len(blocks) + 1
      <3>0. /\ DOMAIN blocks' = DOMAIN blocks \cup {k} /\ k \notin DOMAIN blocks
            /\ blocks'[k] = header /\ \A n \in DOMAIN blocks : blocks'[n] = blocks[n]
        BY <2>0, <2>3, AppendCases
      <3>1. CASE e = E /\ a = V
        <4>1. New = At(e, a) \cup {k} /\ k \notin At(e, a)
          BY <3>0, <3>1
        <4>2. Cardinality(New) = Cardinality(At(e, a)) + 1
          <5>1. IsFiniteSet(At(e, a))
            BY <2>4, ZenonT(40)
          <5> HIDE DEF At, New
          <5> QED
            BY <4>1, <5>1, AddOne, SMTT(40)
        <4>3. parent'.ctx.mintCnt[e][a] = cnt
          BY <2>0, <2>1, <2>3, <3>1, SMTT(40)
        <4>4. P # E => At(e, a) = {}
          <5>1. ASSUME NEW n \in DOMAIN blocks
                PROVE  EpochOf(blocks[n].time) \in Nat /\ EpochOf(blocks[n].time) <= P
            <6>1. blocks[n].time \in Nat /\ parent.time \in Nat
              BY <2>0, BlockTimes, SMTT(40)
            <6>2. blocks[n].time <= parent.time
              BY <2>2
            <6> QED
              BY <6>1, <6>2, EpochMonotone, SMTT(40)
          <5>2. P <= E
            BY <2>0, <2>2, EpochMonotone, SMTT(40)
          <5> QED
            BY <2>1, <3>1, <5>1, <5>2, SMTT(40)
        <4>5. CASE P = E
          BY <2>5, <3>1, <4>2, <4>3, <4>5
        <4>6. CASE P # E
          <5>1. Cardinality(At(e, a)) = 0
            BY <4>4, <4>6, FS_EmptySet, SMTT(40)
          <5>2. cnt = 1
            BY <4>6, SMTT(40)
          <5> HIDE DEF At, cnt
          <5> QED
            BY <4>2, <4>3, <5>1, <5>2, SMTT(40)
        <4> QED
          BY <4>5, <4>6
      <3>2. CASE ~(e = E /\ a = V)
        <4>1. New = At(e, a)
          BY <3>0, <3>2, ZenonT(40)
        <4>2. parent'.ctx.mintCnt[e][a] = ctx.mintCnt[e][a]
          BY <2>0, <2>1, <2>3, <3>2, SMTT(40)
        <4> QED
          BY <2>5, <4>1, <4>2, SMTT(40)
      <3> QED
        BY <3>1, <3>2, ZenonT(40)
    <2> QED
      BY <2>6 DEF MintCntExact
  <1>2. CASE UNCHANGED <<parent, blocks>>
    BY <1>2 DEF MintCntExact
  <1> QED
    BY <1>1, <1>2, NextCases, Zenon
       DEF PrepareBlock, Finalize, KickoutValidator, KickoutOne, KickoutDone,
           SkipKickout, Elect, ElectFails, vars

\* One iteration of tryElect leaves a complete election in the context.
LEMMA ElectElects == TypeOK /\ Elect => ElectedSize(ctx') /\ ElectedRank(ctx')
  <1> SUFFICES ASSUME TypeOK, Elect
               PROVE  ElectedSize(ctx') /\ ElectedRank(ctx')
    BY SMTT(40)
  <1>0. /\ ctx.candidates \in SUBSET Addr /\ ctx.contribution \in [Addr -> Nat]
        /\ ctx \in Contexts
    BY SMTT(40) DEF TypeOK, Contexts
  <1>1. PICK S \in SUBSET ctx.candidates :
            /\ IsCut(S)
            /\ \E f \in Bijection(1 .. Cardinality(S), S) :
                   ctx' = [ctx EXCEPT !.validators = f, !.contributions = CountContributions]
    BY ZenonT(40) DEF Elect
  <1>2. PICK f \in Bijection(1 .. Cardinality(S), S) :
            /\ IsCut(S)
            /\ ctx' = [ctx EXCEPT !.validators = f, !.contributions = CountContributions]
    BY <1>1, Zenon
  <1>3. ctx'.validators = f /\ ctx'.contributions = CountContributions
    BY <1>0, <1>2, SMTT(40) DEF Contexts
  <1>4. Cardinality(S) \in SafeSize .. MaxValidatorSize
    <2>1. Cardinality(ctx.candidates) \in Nat /\ Cardinality(S) \in Nat
      BY <1>0, AddrSubset, SMTT(40)
    <2>2. Cardinality(ctx.candidates) >= SafeSize
      BY SMTT(40) DEF Elect
    <2> QED
      BY <1>2, <2>1, <2>2, SafeSizePositive, SizeAssumption, SMTT(40) DEF IsCut
  <1>5. Cardinality(S) >= 1
    BY <1>4, SafeSizePositive, SizeAssumption, SMTT(40)
  <1>6. f \in Injection(1 .. Cardinality(S), Addr) /\ Range(f) = S
    BY <1>0, <1>2, <1>5, CutIsList, SMTT(40)
  <1>7. ElectedSize(ctx')
    BY <1>3, <1>4, <1>6, SMTT(40) DEF ElectedSize
  <1>8. ASSUME NEW a \in S
        PROVE  /\ CountContributions[a] # Absent
               /\ \A b \in Addr \ S : CountContributions[a] > CountContributions[b]
                                      \/ (CountContributions[a] = CountContributions[b] /\ a < b)
    <2>1. a \in Addr /\ CountContributions[a] = ctx.contribution[a] /\ CountContributions[a] \in Nat
      BY <1>0, <1>2, SMTT(40) DEF CountContributions
    <2>2. ASSUME NEW b \in Addr \ S
          PROVE  CountContributions[a] > CountContributions[b] \/ (CountContributions[a] = CountContributions[b] /\ a < b)
      <3>1. CASE b \in ctx.candidates
        <4>1. Precedes(a, b)
          BY <1>2, <3>1, SMTT(40) DEF IsCut
        <4>2. CountContributions[b] = ctx.contribution[b]
          BY <3>1, SMTT(40) DEF CountContributions
        <4> QED
          BY <2>1, <4>1, <4>2, SMTT(40) DEF Precedes
      <3>2. CASE b \notin ctx.candidates
        BY <2>1, <3>2, SMTT(40) DEF Absent, CountContributions
      <3> QED
        BY <3>1, <3>2, SMTT(40)
    <2> QED
      BY <2>1, <2>2, SMTT(40) DEF Absent
  <1>9. ElectedRank(ctx')
    BY <1>3, <1>6, <1>8, SMTT(40) DEF ElectedRank
  <1> QED
    BY <1>7, <1>9

\* Contexts that agree on the election agree on being elected.
LEMMA SameElectionElected ==
    ASSUME NEW c, NEW d, SameElection(c, d)
    PROVE  /\ ElectedSize(c) <=> ElectedSize(d)
           /\ ElectedRank(c) <=> ElectedRank(d)
  BY DEF SameElection, ElectedSize, ElectedRank

\* The loop of tryElect: before its first iteration the context still holds
\* the parent's election, afterwards a complete new one.
LEMMA LoopStep == TypeOK /\ WorkInv /\ LoopInv /\ [Next]_vars => LoopInv'
  <1> SUFFICES ASSUME TypeOK, WorkInv, LoopInv, [Next]_vars
               PROVE  LoopInv'
    BY SMTT(40)
  <1>0. /\ parent.time \in Nat /\ header.time \in Nat
        /\ loop.i \in Nat /\ loop.prevEpoch \in Nat
    BY SMTT(40) DEF TypeOK, Blocks
  <1>1. ASSUME NEW t \in 1 .. MaxTime, PrepareBlock(t)
        PROVE  LoopInv'
    BY <1>1, SMTT(40) DEF PrepareBlock, LoopInv, SameElection
  <1>2. ASSUME phase = "txs", phase' = "txs", SameElection(ctx', ctx),
               UNCHANGED parent
        PROVE  LoopInv'
    BY <1>2, SMTT(40) DEF LoopInv, SameElection
  <1>3. CASE Finalize
    <2> DEFINE current == EpochOf(header.time)
               prev    == EpochOf(parent.time)
    <2>1. prev \in Nat /\ current \in Nat /\ prev <= current
      <3>1. parent.time <= header.time
        BY <1>0, <1>3 DEF Finalize, WorkInv
      <3> QED
        BY <1>0, <3>1, EpochMonotone, SMTT(40)
    <2>2. \/ loop'.prevEpoch = current - 1
          \/ loop'.prevEpoch = prev
      BY <1>3, ZenonT(40) DEF Finalize
    <2>3. loop'.i = loop'.prevEpoch /\ phase' = "elect" /\ SameElection(ctx, parent.ctx)
          /\ UNCHANGED <<ctx, parent, header>>
      BY <1>3 DEF Finalize, LoopInv
    <2>4. loop'.prevEpoch < current \/ prev = current
      BY <2>1, <2>2, SMTT(40)
    <2>5. loop'.prevEpoch <= loop'.i
      BY <2>1, <2>2, <2>3, SMTT(40)
    <2> QED
      BY <2>3, <2>4, <2>5, SMTT(40) DEF LoopInv, SameElection
  <1>4. CASE KickoutValidator
    BY <1>4, SMTT(40) DEF KickoutValidator, Electing, LoopInv, TypeOK
  <1>5. CASE KickoutOne
    <2>1. SameElection(ctx', ctx) /\ phase = "kickout"
          /\ UNCHANGED <<parent, header, loop, phase>>
      BY <1>5, SMTT(40) DEF KickoutOne, SameElection, TypeOK, Contexts
    <2>2. /\ SameElection(ctx, parent.ctx) => SameElection(ctx', parent.ctx)
          /\ ElectedSize(ctx) <=> ElectedSize(ctx')
          /\ ElectedRank(ctx) <=> ElectedRank(ctx')
      BY <2>1, SameElectionElected, SMTT(40) DEF SameElection
    <2> QED
      BY <2>1, <2>2 DEF LoopInv
  <1>6. CASE KickoutDone
    BY <1>6, SMTT(40) DEF KickoutDone, LoopInv
  <1>7. CASE SkipKickout
    BY <1>7, SMTT(40) DEF SkipKickout, Electing, LoopInv
  <1>8. CASE Elect
    <2>1. ElectedSize(ctx') /\ ElectedRank(ctx')
      BY <1>8, ElectElects, SMTT(40)
    <2>2. /\ loop'.i = loop.i + 1 /\ loop'.prevEpoch = loop.prevEpoch
          /\ phase = "rank" /\ phase' = "elect" /\ UNCHANGED <<parent, header>>
      BY <1>8, SMTT(40) DEF Elect, TypeOK
    <2> QED
      BY <1>0, <2>1, <2>2, SMTT(40) DEF LoopInv
  <1>9. CASE ElectFails
    BY <1>9 DEF ElectFails, LoopInv
  <1>10. CASE SealBlock
    BY <1>10, ZenonT(40) DEF SealBlock, LoopInv
  <1>11. CASE UNCHANGED vars
    BY <1>11, SMTT(40) DEF vars, LoopInv
  <1> QED
    BY <1>1, <1>2, <1>3, <1>4, <1>5, <1>6, <1>7, <1>8, <1>9, <1>10, <1>11,
       NextCases, ZenonT(40)

Elections == ValidatorsElected /\ BestContributorsElected

\* A block leaves the genesis epoch, or stays beyond it, with an election: its
\* own if the loop of tryElect ran, its parent's if not.
LEMMA ElectionsStep == TypeOK /\ LoopInv /\ Elections /\ [Next]_vars => Elections'
  <1> SUFFICES ASSUME TypeOK, LoopInv, Elections, [Next]_vars
               PROVE  Elections'
    OBVIOUS
  <1>1. CASE SealBlock
    <2> DEFINE current == EpochOf(header.time)
    <2>0. /\ loop.i \in Nat /\ loop.prevEpoch \in Nat /\ current \in Nat
          /\ header.time \in 0 .. MaxTime
      BY EpochOfTime, ZenonT(40) DEF TypeOK, Blocks
    <2>1. parent'.time = header.time /\ parent'.ctx = ctx' /\ loop.i >= current
          /\ phase = "elect"
      BY <1>1, SMTT(40) DEF SealBlock
    <2>2. SameElection(ctx', ctx)
      BY <1>1, ZenonT(40) DEF SealBlock, UpdateMintCnt, SameElection, TypeOK, Contexts
    <2>3. SUFFICES ASSUME current > EpochOf(GenesisTime)
                   PROVE  ElectedSize(ctx) /\ ElectedRank(ctx)
      BY <2>1, <2>2, SameElectionElected, SMTT(40)
         DEF Elections, ValidatorsElected, BestContributorsElected
    <2>4. CASE loop.prevEpoch < current
      BY <2>0, <2>1, <2>4 DEF LoopInv
    <2>5. CASE EpochOf(parent.time) = current
      <3>1. ElectedSize(parent.ctx) /\ ElectedRank(parent.ctx)
        BY <2>3, <2>5, SMTT(40) DEF Elections, ValidatorsElected, BestContributorsElected
      <3> QED
        BY <2>1, <3>1, SameElectionElected, SMTT(40) DEF LoopInv
    <2> QED
      BY <2>1, <2>4, <2>5, SMTT(40) DEF LoopInv
  <1>2. CASE UNCHANGED parent
    BY <1>2 DEF Elections, ValidatorsElected, BestContributorsElected
  <1> QED
    BY <1>1, <1>2, NextCases, Zenon
       DEF PrepareBlock, Finalize, KickoutValidator, KickoutOne, KickoutDone,
           SkipKickout, Elect, ElectFails, vars

LEMMA InvInit == Init => IInv
  <1> SUFFICES ASSUME Init
               PROVE  IInv
    OBVIOUS
  <1>1. TypeOK
    BY TypeInit, ZenonT(40)
  <1>2. parent = [time |-> GenesisTime, ctx |-> ctx] /\ phase = "idle" /\ blocks = <<>>
    BY SMTT(40) DEF Init
  <1>3. EpochOf(parent.time) = EpochOf(GenesisTime) /\ EpochOf(GenesisTime) \in Nat
    BY <1>2, EpochOfTime, TimeAssumption, SMTT(40)
  <1>4. WorkInv /\ LoopInv /\ CountInv
    BY <1>2 DEF WorkInv, LoopInv, CountInv
  <1>5. MintCntExact
    <2>1. \A e \in Epochs, a \in Addr : parent.ctx.mintCnt[e][a] = 0
      BY DEF Init
    <2>2. \A e \in Epochs, a \in Addr :
              {n \in DOMAIN blocks :
                  EpochOf(blocks[n].time) = e /\ blocks[n].validator = a} = {}
      BY <1>2
    <2> QED
      BY <2>1, <2>2, FS_EmptySet, Zenon DEF MintCntExact
  <1>6. ValidatorsElected /\ BestContributorsElected
    BY <1>3 DEF ValidatorsElected, BestContributorsElected
  <1> QED
    BY <1>1, <1>4, <1>5, <1>6, SMTT(40) DEF IInv

LEMMA InvStep == IInv /\ [Next]_vars => IInv'
  BY TypeStep, WorkStep, LoopStep, CountStep, MintStep, ElectionsStep, SMTT(40)
     DEF IInv, Elections

LEMMA InvAlways == Spec => []IInv
  BY InvInit, InvStep, PTL DEF Spec

\* The mint counts of every block of every chain are exact (updateMintCnt).
THEOREM MintCountsAreExact == Spec => []MintCntExact
  <1>1. IInv => MintCntExact
    BY DEF IInv
  <1> QED
    BY <1>1, InvAlways, PTL

\* No chain leaves the genesis epoch without a complete election (tryElect).
THEOREM ElectionsAreComplete == Spec => []ValidatorsElected
  <1>1. IInv => ValidatorsElected
    BY DEF IInv
  <1> QED
    BY <1>1, InvAlways, PTL

\* The validators of a block are the best of the contributions recorded in it.
THEOREM BestAreElected == Spec => []BestContributorsElected
  <1>1. IInv => BestContributorsElected
    BY DEF IInv
  <1> QED
    BY <1>1, InvAlways, PTL

\* Removals by kickoutValidator never take the candidates below safeSize.
THEOREM RemovalsKeepSafeSize == Spec => SafeSizeKept
  <1>1. IInv /\ [Next]_vars =>
            [(/\ Cardinality(ctx.candidates) >= SafeSize
              /\ Cardinality(ctx'.candidates) < SafeSize) => phase = "txs"]_vars
    <2> SUFFICES ASSUME IInv, [Next]_vars, phase # "txs",
                        Cardinality(ctx.candidates) >= SafeSize
                 PROVE  ~(Cardinality(ctx'.candidates) < SafeSize) \/ UNCHANGED vars
      OBVIOUS
    <2>0. /\ TypeOK /\ WorkInv /\ CountInv
          /\ ctx.candidates \in SUBSET Addr /\ kickout.candidateCount \in Nat
      BY ZenonT(40) DEF IInv, TypeOK, Contexts
    <2>1. Cardinality(ctx.candidates) \in Nat /\ SafeSize \in Nat
      BY <2>0, AddrSubset, SafeSizePositive, SMTT(40)
    <2>2. CASE KickoutOne
      <3> DEFINE x == WorstOf(kickout.need)
      <3>1. /\ ctx'.candidates = ctx.candidates \ {x}
            /\ kickout.candidateCount > SafeSize
            /\ kickout.candidateCount <= Cardinality(ctx.candidates)
        BY <2>0, <2>2 DEF KickoutOne, CountInv, TypeOK, Contexts
      <3> HIDE DEF x
      <3>2. /\ Cardinality(ctx.candidates \ {x}) \in Nat
            /\ Cardinality(ctx.candidates \ {x}) >= Cardinality(ctx.candidates) - 1
        BY <2>0, RemoveOne, Zenon
      <3> QED
        BY <2>0, <2>1, <3>1, <3>2, SMTT(40)
    <2>3. CASE ctx'.candidates = ctx.candidates
      BY <2>1, <2>3, SMTT(40)
    <2>4. CASE ElectFails
      BY <2>1, <2>4, SMTT(40) DEF ElectFails
    <2>5. (\E t \in 1 .. MaxTime : PrepareBlock(t)) => ctx' = ctx
      BY <2>0 DEF PrepareBlock, WorkInv
    <2>6. Elect \/ SealBlock => ctx'.candidates = ctx.candidates
      BY <2>0, Zenon DEF Elect, SealBlock, UpdateMintCnt, TypeOK, Contexts
    <2> QED
      BY <2>0, <2>2, <2>3, <2>4, <2>5, <2>6, NextCases, SMTT(40)
         DEF Finalize, KickoutValidator, KickoutDone, SkipKickout
  <1> QED
    BY <1>1, InvAlways, PTL DEF Spec, SafeSizeKept

\* The rotation leaves no slot without a validator: on every reachable chain
\* there is, for every slot, an address that verifySeal accepts there.
THEOREM EverySlotHasAValidator ==
    Spec => [](\A t \in Nat : OnSlot(t) => \E a \in Addr : VerifySeal(t, a))
  <1>1. TypeOK => \A t \in Nat : OnSlot(t) => \E a \in Addr : VerifySeal(t, a)
    BY LookupInAddr DEF TypeOK, Contexts, VerifySeal
  <1> QED
    BY <1>1, TypeCorrect, PTL

=============================================================================
