---------------------------- MODULE PocElection ----------------------------
(***************************************************************************)
(* Validator election of the proof-of-contribution engine along one chain: *)
(* how the consensus context of a block (candidates, validators, mint      *)
(* counts; core/types/poc_context.go) is computed from its parent's by the *)
(* block's transactions and by Poc.Finalize (consensus/poc/poc.go and      *)
(* epoch_context.go).                                                      *)
(*                                                                         *)
(* Finalize is sequential code with two nested loops.  Each iteration of   *)
(* tryElect and of the removal loop of kickoutValidator is one step here,  *)
(* sequenced by the variable phase, so that what the loops preserve can be *)
(* stated, checked and proved.                                             *)
(***************************************************************************)
EXTENDS Integers, Sequences, FiniteSets, Functions

CONSTANTS
    Addr,              \* account addresses, ordered like Address.String()
    BlockInterval,     \* seconds between two slots
    EpochInterval,     \* seconds in an epoch
    MaxValidatorSize,  \* validators elected for an epoch, at most
    GenesisTime,       \* time of block 0
    GenesisValidators, \* the validators of the genesis configuration
    MaxTime,           \* bound: time of the last block
    MaxTxs             \* bound: transactions along the chain

\* A genesis configuration, for model checking: every address 1, 2, ... in order.
Ascending == [i \in 1 .. Cardinality(Addr) |-> i]

SafeSize == (MaxValidatorSize * 2) \div 3 + 1

EpochOf(t) == t \div EpochInterval

Epochs == 0 .. EpochOf(MaxTime)

ASSUME AddrAssumption == Addr \subseteq Nat /\ IsFiniteSet(Addr)

ASSUME TimeAssumption ==
    /\ BlockInterval \in Nat \ {0}
    /\ EpochInterval \in Nat \ {0}
    /\ EpochInterval % BlockInterval = 0
    /\ MaxTime \in Nat
    /\ GenesisTime \in 0 .. MaxTime
    /\ MaxTxs \in Nat

ASSUME SizeAssumption == MaxValidatorSize \in Nat \ {0}

\* The genesis configuration names at least one validator, each of them once.
ASSUME GenesisAssumption ==
    LET n == Cardinality(DOMAIN GenesisValidators)
    IN  n \in Nat \ {0} /\ GenesisValidators \in Injection(1 .. n, Addr)

VARIABLES
    parent,     \* what the last block committed: [time, ctx]
    ctx,        \* the PocContext and contributions the next block is computing
    header,     \* time and validator of the block in progress
    phase,      \* where block production or processing stands
    loop,       \* tryElect: epoch judged, loop index, mint entries left to iterate
    kickout,    \* kickoutValidator: validators left to remove, candidateCount
    timeOfFirstBlock,
    blocks,     \* the chain: time and validator of block 1, 2, ...
    txs         \* number of transactions executed, for the bound MaxTxs

vars == <<parent, ctx, header, phase, loop, kickout, timeOfFirstBlock,
          blocks, txs>>

Blocks == [time : 0 .. MaxTime, validator : Addr]

\* Validator lists, indexed from 1.
Lists == UNION {[1 .. n -> Addr] : n \in 1 .. Cardinality(Addr)}

\* No entry in the recorded contributions.
Absent == -1

Contexts == [candidates    : SUBSET Addr,
             validators    : Lists,
             mintCnt       : [Epochs -> [Addr -> Nat]],
             contribution  : [Addr -> Nat],       \* in the account state
             contributions : [Addr -> Nat \cup {Absent}]] \* of the last election

Phases == {"idle", "txs", "elect", "kickout", "rank"}

NoLoop == [prevEpoch |-> 0, i |-> 0, iter |-> 0, genesis |-> FALSE]

NoKickout == [need |-> {}, candidateCount |-> 0]

(***************************************************************************)
(* Slots and the mint count trie.                                          *)
(***************************************************************************)

\* lookupValidator: the slots of an epoch go round the validator list.
OnSlot(t) == (t % EpochInterval) % BlockInterval = 0

LookupValidator(validators, t) ==
    LET offset == (t % EpochInterval) \div BlockInterval
    IN  validators[(offset % Cardinality(DOMAIN validators)) + 1]

\* The validators of epoch e that have an entry in the mint count trie.
Minters(c, e) == {a \in Addr : c.mintCnt[e][a] > 0}

\* Mutant of UpdateMintCnt: the count is not restarted in a new epoch.
UpdateMintCntNoReset(c, parentTime, time, validator) ==
    [c EXCEPT !.mintCnt[EpochOf(time)][validator] =
                  c.mintCnt[EpochOf(parentTime)][validator] + 1]

\* updateMintCnt: a count is carried on within an epoch and restarts at one
\* in a block whose parent lies in an earlier epoch.
UpdateMintCnt(c, parentTime, time, validator) ==
    LET cnt == IF EpochOf(parentTime) = EpochOf(time)
               THEN c.mintCnt[EpochOf(parentTime)][validator] + 1
               ELSE 1
    IN  [c EXCEPT !.mintCnt[EpochOf(time)][validator] = cnt]

-----------------------------------------------------------------------------

\* initGenesisPocContext: the configured validators are also the candidates.
Init ==
    /\ ctx = [candidates   |-> Range(GenesisValidators),
              validators   |-> GenesisValidators,
              mintCnt      |-> [e \in Epochs |-> [a \in Addr |-> 0]],
              contribution |-> [a \in Addr |-> 0],
              contributions |-> [a \in Addr |-> Absent]]
    /\ parent = [time |-> GenesisTime, ctx |-> ctx]
    /\ header = [time |-> GenesisTime, validator |-> GenesisValidators[1]]
    /\ phase = "idle"
    /\ loop = NoLoop
    /\ kickout = NoKickout
    /\ timeOfFirstBlock = 0
    /\ blocks = <<>>
    /\ txs = 0

(***************************************************************************)
(* A block for time t is begun on the last one, whose context it starts    *)
(* from.  The conditions are those every node checks of a header: one      *)
(* interval after the parent (verifyHeader), on a slot and by the          *)
(* validator the PARENT's context names for that slot (verifySeal).  The   *)
(* checks of the header's form (extra data, digest, uncles) always pass.   *)
(***************************************************************************)
VerifyHeader(t) == parent.time + BlockInterval <= t

VerifySeal(t, validator) ==
    OnSlot(t) /\ validator = LookupValidator(parent.ctx.validators, t)

PrepareBlock(t) ==
    /\ phase = "idle"
    /\ VerifyHeader(t)
    /\ \E validator \in Addr :
           /\ VerifySeal(t, validator)
           /\ header' = [time |-> t, validator |-> validator]
    /\ ctx' = parent.ctx
    /\ phase' = "txs"
    /\ UNCHANGED <<parent, loop, kickout, timeOfFirstBlock, blocks, txs>>

(***************************************************************************)
(* Transactions of the block that bear on elections.  applyPocMessage      *)
(* adds the sender to the candidates or removes it, whatever it was before *)
(* and without looking at its nonce; a data transaction adds c to the      *)
(* sender's contribution (2 for a confirmation, 1 for a transfer).         *)
(***************************************************************************)
Transaction(c) ==
    /\ phase = "txs"
    /\ txs < MaxTxs
    /\ txs' = txs + 1
    /\ ctx' = c
    /\ UNCHANGED <<parent, header, phase, loop, kickout, timeOfFirstBlock,
                   blocks>>

BecomeCandidate(a) == Transaction([ctx EXCEPT !.candidates = @ \cup {a}])

KickoutCandidate(a) == Transaction([ctx EXCEPT !.candidates = @ \ {a}])

AddContribution(a, c) == Transaction([ctx EXCEPT !.contribution[a] = @ + c])

(***************************************************************************)
(* Finalize, up to the loop of tryElect.  The time of block 1 is read once *)
(* it is on the chain.  A parent in the genesis epoch leaves one iteration *)
(* however many epochs have passed.                                        *)
(***************************************************************************)
Finalize ==
    /\ phase = "txs"
    /\ timeOfFirstBlock' =
           IF timeOfFirstBlock = 0 /\ blocks # <<>>
           THEN blocks[1].time ELSE timeOfFirstBlock
    /\ LET current == EpochOf(header.time)
           genesis == EpochOf(parent.time) = EpochOf(GenesisTime)
           prev    == IF genesis /\ EpochOf(parent.time) < current
                      THEN current - 1 ELSE EpochOf(parent.time)
       IN  loop' = [prevEpoch |-> prev, i |-> prev, genesis |-> genesis,
                    iter |-> Cardinality(Minters(ctx, prev))]
    /\ phase' = "elect"
    /\ UNCHANGED <<parent, ctx, header, kickout, blocks, txs>>

Electing == phase = "elect" /\ loop.i < EpochOf(header.time)

\* The first epoch may be shorter than EpochInterval: it is taken to last
\* from block 1 to the block being finalized.
EpochDuration ==
    IF header.time - timeOfFirstBlock < EpochInterval
    THEN header.time - timeOfFirstBlock
    ELSE EpochInterval

\* Mutant of AtLeastMintCnt: the full share is asked for, not half of it.
AtLeastMintCntFullShare == (EpochDuration \div BlockInterval) \div MaxValidatorSize

AtLeastMintCnt == ((EpochDuration \div BlockInterval) \div MaxValidatorSize) \div 2

\* Mutant of KickoutValidator: the iterator is not asked for an entry.
KickoutValidatorNoEntry ==
    /\ Electing
    /\ ~loop.genesis
    /\ loop' = [loop EXCEPT !.iter = @ - 1]
    /\ kickout' = NoKickout
    /\ phase' = "kickout"
    /\ UNCHANGED <<parent, ctx, header, timeOfFirstBlock, blocks, txs>>

\* kickoutValidator, its first half: the validators of the context that minted
\* too few blocks in the judged epoch, and the candidates counted up to what
\* the removals can use.  Every iteration of tryElect with a mint entry left
\* to iterate judges the same epoch again.
KickoutValidator ==
    /\ Electing
    /\ ~loop.genesis /\ loop.iter > 0
    /\ loop' = [loop EXCEPT !.iter = @ - 1]
    /\ LET need == {v \in Range(ctx.validators) :
                        ctx.mintCnt[loop.prevEpoch][v] < AtLeastMintCnt}
           count == Cardinality(ctx.candidates)
           cap   == Cardinality(need) + SafeSize
       IN  kickout' = [need |-> need,
                       candidateCount |-> IF count < cap THEN count ELSE cap]
    /\ phase' = "kickout"
    /\ UNCHANGED <<parent, ctx, header, timeOfFirstBlock, blocks, txs>>

\* The removals go from the fewest blocks up, the later address first.
WorstOf(need) ==
    LET cnt == ctx.mintCnt[loop.prevEpoch]
    IN  CHOOSE v \in need : \A w \in need :
            cnt[v] < cnt[w] \/ (cnt[v] = cnt[w] /\ w <= v)

\* Mutant of KickoutOne: the count may reach safeSize before the removals stop.
KickoutOneTooMany ==
    /\ phase = "kickout"
    /\ kickout.need # {} /\ kickout.candidateCount >= SafeSize
    /\ ctx' = [ctx EXCEPT !.candidates = @ \ {WorstOf(kickout.need)}]
    /\ kickout' = [need |-> kickout.need \ {WorstOf(kickout.need)},
                   candidateCount |-> kickout.candidateCount - 1]
    /\ UNCHANGED <<parent, header, phase, loop, timeOfFirstBlock, blocks, txs>>

\* kickoutValidator, its second half, one removal.  candidateCount goes down
\* even when the validator was no candidate any more.
KickoutOne ==
    /\ phase = "kickout"
    /\ kickout.need # {} /\ kickout.candidateCount > SafeSize
    /\ ctx' = [ctx EXCEPT !.candidates = @ \ {WorstOf(kickout.need)}]
    /\ kickout' = [need |-> kickout.need \ {WorstOf(kickout.need)},
                   candidateCount |-> kickout.candidateCount - 1]
    /\ UNCHANGED <<parent, header, phase, loop, timeOfFirstBlock, blocks, txs>>

KickoutDone ==
    /\ phase = "kickout"
    /\ kickout.need = {} \/ kickout.candidateCount <= SafeSize
    /\ kickout' = NoKickout
    /\ phase' = "rank"
    /\ UNCHANGED <<parent, ctx, header, loop, timeOfFirstBlock, blocks, txs>>

\* An iteration that judges nobody.
SkipKickout ==
    /\ Electing
    /\ loop.genesis \/ loop.iter = 0
    /\ phase' = "rank"
    /\ UNCHANGED <<parent, ctx, header, loop, kickout, timeOfFirstBlock,
                   blocks, txs>>

\* Mutant of Precedes: less contribution first.
PrecedesAscending(a, b) ==
    \/ ctx.contribution[a] < ctx.contribution[b]
    \/ ctx.contribution[a] = ctx.contribution[b] /\ a < b

\* sortableAddresses.Less: more contribution first, then the smaller address.
Precedes(a, b) ==
    \/ ctx.contribution[a] > ctx.contribution[b]
    \/ ctx.contribution[a] = ctx.contribution[b] /\ a < b

\* Mutant of IsCut: one candidate too many is kept.
IsCutOneTooMany(S) ==
    /\ Cardinality(S) = IF Cardinality(ctx.candidates) > MaxValidatorSize
                        THEN MaxValidatorSize + 1 ELSE Cardinality(ctx.candidates)
    /\ \A a \in S, b \in ctx.candidates \ S : Precedes(a, b)

\* S is what sorting the candidates and cutting at maxValidatorSize leaves.
IsCut(S) ==
    /\ Cardinality(S) = IF Cardinality(ctx.candidates) > MaxValidatorSize
                        THEN MaxValidatorSize ELSE Cardinality(ctx.candidates)
    /\ \A a \in S, b \in ctx.candidates \ S : Precedes(a, b)

\* countContributions: every candidate with the contribution of its account.
CountContributions ==
    [a \in Addr |-> IF a \in ctx.candidates THEN ctx.contribution[a] ELSE Absent]

\* The rest of an iteration of tryElect.  The order of the new validators is
\* drawn from the parent's hash, which is any value here.
Elect ==
    /\ phase = "rank"
    /\ Cardinality(ctx.candidates) >= SafeSize
    /\ \E S \in SUBSET ctx.candidates :
           /\ IsCut(S)
           /\ \E validators \in Bijection(1 .. Cardinality(S), S) :
                  ctx' = [ctx EXCEPT
                            !.validators = validators,
                            !.contributions = CountContributions]
    /\ loop' = [loop EXCEPT !.i = @ + 1]
    /\ phase' = "elect"
    /\ UNCHANGED <<parent, header, kickout, timeOfFirstBlock, blocks, txs>>

\* "no candidates" and "too few candidates": Finalize fails and the block in
\* progress is given up.
ElectFails ==
    /\ phase = "rank"
    /\ Cardinality(ctx.candidates) < SafeSize
    /\ phase' = "idle"
    /\ ctx' = parent.ctx
    /\ loop' = NoLoop
    /\ UNCHANGED <<parent, header, kickout, timeOfFirstBlock, blocks, txs>>

\* The end of Finalize, after which the block is sealed and becomes the head.
SealBlock ==
    /\ phase = "elect" /\ loop.i >= EpochOf(header.time)
    /\ ctx' = UpdateMintCnt(ctx, parent.time, header.time, header.validator)
    /\ parent' = [time |-> header.time, ctx |-> ctx']
    /\ blocks' = Append(blocks, header)
    /\ phase' = "idle"
    /\ loop' = NoLoop
    /\ UNCHANGED <<header, kickout, timeOfFirstBlock, txs>>

Next ==
    \/ \E t \in 1 .. MaxTime : PrepareBlock(t)
    \/ \E a \in Addr : BecomeCandidate(a) \/ KickoutCandidate(a)
    \/ \E a \in Addr, c \in 1 .. 2 : AddContribution(a, c)
    \/ Finalize
    \/ KickoutValidator \/ KickoutOne \/ KickoutDone \/ SkipKickout
    \/ Elect \/ ElectFails
    \/ SealBlock

Spec == Init /\ [][Next]_vars

-----------------------------------------------------------------------------

TypeOK ==
    /\ parent \in [time : 0 .. MaxTime, ctx : Contexts]
    /\ ctx \in Contexts
    /\ header \in Blocks
    /\ phase \in Phases
    /\ loop \in [prevEpoch : Nat, i : Nat, iter : Nat, genesis : BOOLEAN]
    /\ kickout \in [need : SUBSET Addr, candidateCount : Nat]
    /\ timeOfFirstBlock \in 0 .. MaxTime
    /\ blocks \in Seq(Blocks)
    /\ txs \in 0 .. MaxTxs

\* The mint count trie of the last block is exact: for every epoch and address
\* it holds the number of blocks of the chain with that validator and a time
\* in that epoch (updateMintCnt).
MintCntExact ==
    \A e \in Epochs, a \in Addr :
        parent.ctx.mintCnt[e][a] =
            Cardinality({n \in DOMAIN blocks :
                EpochOf(blocks[n].time) = e /\ blocks[n].validator = a})

\* The validators of c are between safeSize and maxValidatorSize different ones.
ElectedSize(c) ==
    \E n \in SafeSize .. MaxValidatorSize : c.validators \in Injection(1 .. n, Addr)

\* Every validator of c is recorded with its contribution, and ranks before
\* everyone who is recorded and was not elected.
ElectedRank(c) ==
    LET v == Range(c.validators)
        r == c.contributions
    IN  \A a \in v :
            /\ r[a] # Absent
            /\ \A b \in Addr \ v : r[a] > r[b] \/ (r[a] = r[b] /\ a < b)

\* The chain leaves the genesis epoch only through a completed election: from
\* then on every block's context lists between safeSize and maxValidatorSize
\* validators, no address twice (tryElect).
ValidatorsElected ==
    EpochOf(parent.time) > EpochOf(GenesisTime) => ElectedSize(parent.ctx)

\* The contribution trie and the validator list of a block belong to the same
\* election: every validator is recorded, and ranks before every recorded
\* candidate that was not elected (countContributions, SetContributions).
BestContributorsElected ==
    EpochOf(parent.time) > EpochOf(GenesisTime) => ElectedRank(parent.ctx)

\* Only a candidate's own logout takes the candidates below safeSize: the
\* removals of kickoutValidator stop in time, whatever candidates logged out
\* earlier in the block ("atLeast a safeSize count candidate will reserve",
\* TestEpochContextKickoutValidator).
SafeSizeKept ==
    [][(/\ Cardinality(ctx.candidates) >= SafeSize
        /\ Cardinality(ctx'.candidates) < SafeSize) => phase = "txs"]_vars

\* If no slot was missed since the start of the judged epoch (or since block 1)
\* nobody is removed: the share of blocks asked of a validator is never more
\* than a fully used rotation gives it, although the first block of an epoch
\* is minted by a validator of the epoch before (kickoutValidator).
FullRotationKeepsCandidates ==
    [][phase = "kickout" /\ ctx'.candidates # ctx.candidates =>
        \E t \in 0 .. header.time - 1 :
            /\ OnSlot(t)
            /\ t >= timeOfFirstBlock /\ EpochOf(t) >= loop.prevEpoch
            /\ \A n \in DOMAIN blocks : blocks[n].time # t]_vars

=============================================================================
