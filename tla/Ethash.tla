-------------------------------- MODULE Ethash --------------------------------
(*****************************************************************************)
(* The ethash engine: verification of headers, sealing, caches, the rules    *)
(* for headers and uncles, and the algorithm.                                *)
(*****************************************************************************)
EXTENDS Integers, Sequences, FiniteSets, SequencesExt, Bitwise

-----------------------------------------------------------------------------
(***************************************************************************)
(* Ethash.VerifyHeaders (src/pkg/consensus/ethash/consensus.go): a batch of *)
(* headers checked by concurrent workers, with the errors handed out in the *)
(* order of the headers, until the batch is through or the caller aborts.   *)
(***************************************************************************)

CONSTANTS Headers,     \* number of headers in the batch
          Worker,      \* the workers, at most as many as headers
          Linked,      \* headers whose parent hash is the hash of the one before
          Known,       \* headers the chain has already
          Bad,         \* headers verifyHeader refuses
          ParentKnown  \* whether the chain has the parent of the first

Index == 0 .. Headers - 1

VARIABLES in, out, checked,   \* the coordinator's counters and its checked slice
          coord,              \* "run" or "returned" (and inputs closed)
          worker,             \* each worker's index in hand; "idle", "ended"
          computed,           \* the workers whose index in hand is verified
          done,               \* the channel done, of capacity |Worker|
          errors,             \* the errors slice; "unset" before it is written
          errorsOut,          \* what was sent to the caller
          verifyAbort
verifyVars == <<in, out, checked, coord, worker, computed, done, errors, errorsOut, verifyAbort>>

verifyHeaderWorker(i) ==
  IF IF i = 0 THEN ~ParentKnown ELSE i \notin Linked THEN "ErrUnknownAncestor"
  ELSE IF i \in Known THEN "nil"
  ELSE IF i \in Bad THEN "invalid" ELSE "nil"

VerifyInit ==
  /\ in = 0 /\ out = 0 /\ checked = {}
  /\ coord = "run"
  /\ worker = [w \in Worker |-> -1]
  /\ computed = {}
  /\ done = <<>>
  /\ errors = [i \in Index |-> "unset"]
  /\ errorsOut = <<>>
  /\ verifyAbort = FALSE

\* Mutant: the coordinator goes on after the last header.
HandOneMore(w) ==
  /\ coord = "run"
  /\ in <= Headers
  /\ worker[w] = -1
  /\ worker' = [worker EXCEPT ![w] = in]
  /\ in' = in + 1
  /\ UNCHANGED <<out, checked, coord, computed, done, errors, errorsOut, verifyAbort>>

\* -1: waiting for an index; -2: ended
Hand(w) ==
  /\ coord = "run"
  /\ in < Headers
  /\ worker[w] = -1
  /\ worker' = [worker EXCEPT ![w] = in]
  /\ in' = in + 1
  /\ UNCHANGED <<out, checked, coord, computed, done, errors, errorsOut, verifyAbort>>

Verify(w) ==
  /\ worker[w] >= 0
  /\ w \notin computed
  /\ errors' = [errors EXCEPT ![worker[w]] = verifyHeaderWorker(worker[w])]
  /\ computed' = computed \cup {w}
  /\ UNCHANGED <<in, out, checked, coord, worker, done, errorsOut, verifyAbort>>

VerifyReport(w) ==
  /\ w \in computed
  /\ Len(done) < Cardinality(Worker)
  /\ done' = Append(done, worker[w])
  /\ computed' = computed \ {w}
  /\ worker' = [worker EXCEPT ![w] = -1]
  /\ UNCHANGED <<in, out, checked, coord, errors, errorsOut, verifyAbort>>

WorkerEnds(w) ==
  /\ coord = "returned"
  /\ worker[w] = -1
  /\ worker' = [worker EXCEPT ![w] = -2]
  /\ UNCHANGED <<in, out, checked, coord, computed, done, errors, errorsOut, verifyAbort>>

\* The first index past out that is not checked.
Reached(c) == CHOOSE n \in out .. Headers : n \notin c /\ \A i \in out .. n - 1 : i \in c

Collect ==
  /\ coord = "run"
  /\ done # <<>>
  /\ done' = Tail(done)
  /\ checked' = checked \cup {Head(done)}
  /\ out' = Reached(checked')
  /\ errorsOut' = errorsOut \o [k \in 1 .. out' - out |-> errors[out + k - 1]]
  /\ coord' = IF out' = Headers THEN "returned" ELSE "run"
  /\ UNCHANGED <<in, worker, computed, errors, verifyAbort>>

Abort ==
  /\ ~verifyAbort
  /\ verifyAbort' = TRUE
  /\ UNCHANGED <<in, out, checked, coord, worker, computed, done, errors, errorsOut>>

Aborted ==
  /\ coord = "run"
  /\ verifyAbort
  /\ coord' = "returned"
  /\ UNCHANGED <<in, out, checked, worker, computed, done, errors, errorsOut, verifyAbort>>

VerifyNext ==
  \/ \E w \in Worker : Hand(w) \/ Verify(w) \/ VerifyReport(w) \/ WorkerEnds(w)
  \/ Collect \/ Abort \/ Aborted

VerifySpec == VerifyInit /\ [][VerifyNext]_verifyVars

-----------------------------------------------------------------------------
VerifyTypeOK ==
  /\ in \in 0 .. Headers /\ out \in 0 .. Headers /\ checked \subseteq Index
  /\ coord \in {"run", "returned"}
  /\ worker \in [Worker -> -2 .. Headers - 1]
  /\ computed \subseteq Worker
  /\ done \in Seq(Index)
  /\ verifyAbort \in BOOLEAN

\* The verdict on header i, as if the headers were checked one after another.
Sequential(i) ==
  CASE i = 0 /\ ~ParentKnown -> "ErrUnknownAncestor"
    [] i > 0 /\ i \notin Linked -> "ErrUnknownAncestor"
    [] OTHER -> IF i \in Bad \ Known THEN "invalid" ELSE "nil"

\* However the workers overtake each other, the caller receives the verdicts in
\* the order of the headers and each is the one of a sequential check; without
\* an abort it receives all of them.
VerdictsInOrder ==
  /\ \A k \in DOMAIN errorsOut : errorsOut[k] = Sequential(k - 1)
  /\ Len(errorsOut) = out
  /\ coord = "returned" /\ ~verifyAbort => out = Headers

-----------------------------------------------------------------------------
(***************************************************************************)
(* The nonce search of the ethash engine (src/pkg/consensus/ethash/         *)
(* sealer.go, with SetThreads of ethash.go): Seal starts one miner per      *)
(* thread and waits for a nonce, for stop or for a changed thread count, in *)
(* which case it collects the miners and starts anew.                       *)
(***************************************************************************)

CONSTANTS Counts,      \* the thread counts SetThreads is called with
          CPUs,        \* runtime.NumCPU
          MaxChanges   \* calls of SetThreads (a bound)

Miner == 1 .. CPUs

VARIABLES threads,     \* ethash.threads
          ping,        \* Seal has received from ethash.update
          seal,        \* "off", "start", "select", "wait", "again", "returned"
          wanted,      \* the thread count this round was started with
          miner,       \* each miner: "none", "search", "found", "done"
          sealAbort,       \* whether this round's abort is closed
          result,      \* a block was received from found
          stop,        \* the caller has closed stop
          changes
sealVars == <<threads, ping, seal, wanted, miner, sealAbort, result, stop, changes>>

SealInit ==
  /\ threads \in Counts
  /\ ping = FALSE
  /\ seal = "off"
  /\ wanted = 0
  /\ miner = [i \in Miner |-> "none"]
  /\ sealAbort = FALSE /\ result = FALSE /\ stop = FALSE
  /\ changes = 0

\* Zero means all cores, less than zero none.
sealNumber(t) == IF t = 0 THEN CPUs ELSE IF t < 0 THEN 0 ELSE t

Begin ==
  /\ seal \in {"off", "again"}
  /\ seal' = "start"
  /\ wanted' = sealNumber(threads)
  /\ sealAbort' = FALSE
  /\ miner' = [i \in Miner |-> "none"]
  /\ UNCHANGED <<threads, ping, result, stop, changes>>

Launch ==
  /\ seal = "start"
  /\ seal' = "select"
  /\ miner' = [i \in Miner |-> IF i <= wanted THEN "search" ELSE "none"]
  /\ UNCHANGED <<threads, ping, wanted, sealAbort, result, stop, changes>>

\* update is unbuffered: the ping is lost unless Seal is waiting in its select.
SetThreads(t) ==
  /\ changes < MaxChanges
  /\ changes' = changes + 1
  /\ threads' = t
  /\ IF seal = "select"
     THEN seal' = "wait" /\ ping' = TRUE /\ sealAbort' = TRUE
     ELSE UNCHANGED <<seal, ping, sealAbort>>
  /\ UNCHANGED <<wanted, miner, result, stop>>

Find(i) ==
  /\ miner[i] = "search"
  /\ miner' = [miner EXCEPT ![i] = "found"]
  /\ UNCHANGED <<threads, ping, seal, wanted, sealAbort, result, stop, changes>>

SealReport(i) ==
  /\ miner[i] = "found"
  /\ seal = "select"
  /\ miner' = [miner EXCEPT ![i] = "done"]
  /\ result' = TRUE
  /\ seal' = "wait"
  /\ sealAbort' = TRUE
  /\ UNCHANGED <<threads, ping, wanted, stop, changes>>

MinerAborts(i) ==
  /\ sealAbort
  /\ miner[i] \in {"search", "found"}
  /\ miner' = [miner EXCEPT ![i] = "done"]
  /\ UNCHANGED <<threads, ping, seal, wanted, sealAbort, result, stop, changes>>

Stop ==
  /\ seal # "off" /\ ~stop
  /\ stop' = TRUE
  /\ UNCHANGED <<threads, ping, seal, wanted, miner, sealAbort, result, changes>>

Stopped ==
  /\ seal = "select" /\ stop
  /\ seal' = "wait"
  /\ sealAbort' = TRUE
  /\ UNCHANGED <<threads, ping, wanted, miner, result, stop, changes>>

\* pend.Wait, then the result or another round
Wait ==
  /\ seal = "wait"
  /\ \A i \in Miner : miner[i] \in {"none", "done"}
  /\ seal' = IF ping THEN "again" ELSE "returned"
  /\ ping' = FALSE
  /\ UNCHANGED <<threads, wanted, miner, sealAbort, result, stop, changes>>

SealNext ==
  \/ Begin \/ Launch \/ Stop \/ Stopped \/ Wait
  \/ \E t \in Counts : SetThreads(t)
  \/ \E i \in Miner : Find(i) \/ SealReport(i) \/ MinerAborts(i)

SealSpec == SealInit /\ [][SealNext]_sealVars

-----------------------------------------------------------------------------
SealTypeOK ==
  /\ threads \in Counts /\ changes \in 0 .. MaxChanges
  /\ seal \in {"off", "start", "select", "wait", "again", "returned"}
  /\ wanted \in 0 .. CPUs
  /\ miner \in [Miner -> {"none", "search", "found", "done"}]
  /\ {ping, sealAbort, result, stop} \subseteq BOOLEAN

\* No miner outlives its round, nobody waits for a miner that cannot end, and
\* Seal comes back without a block only when it was told to stop.
SealExact ==
  /\ seal \in {"off", "again", "returned"} =>
       \A i \in Miner : miner[i] \in {"none", "done"}
  /\ seal = "wait" => sealAbort
  /\ seal = "returned" => result \/ stop
  /\ seal # "select" => Cardinality({i \in Miner : miner[i] = "done"}) <= wanted

-----------------------------------------------------------------------------
(***************************************************************************)
(* The caches and the mining datasets of the ethash engine                  *)
(* (src/pkg/consensus/ethash/ethash.go).  Ethash.cache and Ethash.dataset   *)
(* run the same protocol: look the epoch up, evict the one used longest     *)
(* ago, take over or replace the pre-generated one of the next epoch, and   *)
(* generate content once, through a file under a temporary name that is     *)
(* renamed when it is complete.  A dataset is read back from disk instead   *)
(* of taking over the pre-generated one (Reload).  Instances are numbered   *)
(* in the order they are made.                                              *)
(***************************************************************************)

CONSTANTS Caller, Epochs,  \* users of the engine, the epochs they ask for
          inmem, ondisk,   \* instances kept in memory, files kept on disk
          Reload,          \* FALSE for caches, TRUE for datasets
          MaxInstances     \* instances ever made (a bound)

Inst == 1 .. MaxInstances

VARIABLES kept,     \* the map caches: instances, the one used longest ago first
          fcache,   \* the pre-generated instance, 0 for none
          inst,     \* each instance: its epoch, and how far its content is
          made,     \* instances made so far
          user,     \* each caller: what it does, the instances in its hands
          ahead,    \* the instances the started goroutines generate
          disk      \* the epochs with a complete file
cachesVars == <<kept, fcache, inst, made, user, ahead, disk>>

New(e) == [epoch |-> e, content |-> "none", mapped |-> FALSE]
Idle == [at |-> "idle", current |-> 0, future |-> 0]

CachesInit ==
  /\ kept = <<>> /\ fcache = 0 /\ made = 0
  /\ inst = [i \in Inst |-> New(0)]
  /\ user = [c \in Caller |-> Idle]
  /\ ahead = {}
  /\ disk \in SUBSET Epochs

Kept(e) == {i \in Range(kept) : inst[i].epoch = e}

\* The oldest make room for one more.
evicted ==
  IF Len(kept) >= inmem THEN SubSeq(kept, Len(kept) - inmem + 2, Len(kept)) ELSE kept

-----------------------------------------------------------------------------
(* The part of cache and dataset under the engine's lock.                   *)

Hit(c, e) ==
  /\ user[c].at = "idle"
  /\ \E i \in Kept(e) :
       user' = [user EXCEPT ![c] = [at |-> "generate", current |-> i, future |-> 0]]
  /\ UNCHANGED <<kept, fcache, inst, made, ahead, disk>>

Ready(e) == fcache # 0 /\ inst[fcache].epoch = e
Taken(e) == Ready(e) /\ ~Reload
Left(e) == IF Ready(e) THEN 0 ELSE fcache
Stale(e) == Left(e) # 0 /\ inst[Left(e)].epoch <= e
Current(e) == IF Taken(e) THEN fcache ELSE made + 1
Future(e) ==
  IF Left(e) # 0 /\ ~Stale(e) THEN 0
  ELSE IF Taken(e) THEN made + 1 ELSE made + 2
Released(e) ==
  (Range(kept) \ Range(evicted)) \cup (IF Stale(e) THEN {fcache} ELSE {})

Placed(i, e) ==
  CASE i > made /\ i = Current(e) -> New(e)
    [] i > made /\ i = Future(e) -> New(e + 1)
    [] i <= made /\ i \in Released(e) -> [inst[i] EXCEPT !.mapped = FALSE]
    [] OTHER -> inst[i]

Last2(a, b) == IF a > b THEN a ELSE b

Miss(c, e) ==
  /\ user[c].at = "idle"
  /\ Kept(e) = {}
  /\ Last2(Current(e), Future(e)) <= MaxInstances
  /\ made' = Last2(made, Last2(Current(e), Future(e)))
  /\ kept' = Append(evicted, Current(e))
  /\ fcache' = IF Future(e) # 0 THEN Future(e) ELSE Left(e)
  /\ inst' = [i \in Inst |-> Placed(i, e)]
  /\ user' = [user EXCEPT ![c] =
       [at |-> "generate", current |-> Current(e), future |-> Future(e)]]
  /\ UNCHANGED <<ahead, disk>>

-----------------------------------------------------------------------------
(* generate: once per instance; a second caller waits for the first.        *)

Asked == {user[c].current : c \in {c \in Caller : user[c].at = "generate"}} \cup ahead

\* A file with the magic number at its start is complete: it was renamed last.
memoryMap(e) == e \in disk

Load(i) ==
  /\ i \in Asked
  /\ inst[i].content = "none"
  /\ inst' = IF memoryMap(inst[i].epoch)
             THEN [inst EXCEPT ![i].content = "file", ![i].mapped = TRUE]
             ELSE [inst EXCEPT ![i].content = "running"]
  /\ UNCHANGED <<kept, fcache, made, user, ahead, disk>>

\* The files that are not kept any longer go, whichever way the content was made.
Pruned(d, e) == {x \in d : x > e - ondisk}

Generated(i) ==
  /\ inst[i].content = "running"
  /\ inst' = [inst EXCEPT ![i].content = "file", ![i].mapped = TRUE]
  /\ disk' = Pruned(disk \cup {inst[i].epoch}, inst[i].epoch)
  /\ UNCHANGED <<kept, fcache, made, user, ahead>>

\* No file could be made: in memory then, a dataset with twice its size.
GeneratedInMemory(i) ==
  /\ inst[i].content = "running"
  /\ inst' = [inst EXCEPT ![i].content = IF Reload THEN "oversized" ELSE "memory"]
  /\ disk' = Pruned(disk, inst[i].epoch)
  /\ UNCHANGED <<kept, fcache, made, user, ahead>>

Complete(i) == inst[i].content \in {"file", "memory", "oversized"}

\* The timestamp, and the goroutine for the future instance.
Touch(c) ==
  /\ user[c].at = "generate"
  /\ Complete(user[c].current)
  /\ kept' = IF user[c].current \in Range(kept)
             THEN Append(SelectSeq(kept, LAMBDA i : i # user[c].current), user[c].current)
             ELSE kept
  /\ ahead' = ahead \cup ({user[c].future} \ {0})
  /\ user' = [user EXCEPT ![c].at = "using", ![c].future = 0]
  /\ UNCHANGED <<fcache, inst, made, disk>>

AheadDone(i) ==
  /\ i \in ahead
  /\ Complete(i)
  /\ ahead' = ahead \ {i}
  /\ UNCHANGED <<kept, fcache, inst, made, user, disk>>

Used(c) ==
  /\ user[c].at = "using"
  /\ user' = [user EXCEPT ![c] = Idle]
  /\ UNCHANGED <<kept, fcache, inst, made, ahead, disk>>

CachesNext ==
  \/ \E c \in Caller, e \in Epochs : Hit(c, e) \/ Miss(c, e)
  \/ \E i \in Inst : Load(i) \/ Generated(i) \/ GeneratedInMemory(i) \/ AheadDone(i)
  \/ \E c \in Caller : Touch(c) \/ Used(c)

CachesSpec == CachesInit /\ [][CachesNext]_cachesVars

-----------------------------------------------------------------------------
CachesTypeOK ==
  /\ kept \in Seq(Inst) /\ fcache \in 0 .. MaxInstances /\ made \in 0 .. MaxInstances
  /\ \A i \in Inst : inst[i].content \in {"none", "running", "file", "memory", "oversized"}
  /\ \A c \in Caller : user[c].at \in {"idle", "generate", "using"}
  /\ ahead \subseteq Inst

\* At most inmem instances are kept, one per epoch; the pre-generated one is of
\* a later epoch than all of them; who uses an instance finds it complete; and
\* an instance that is kept or prepared has not been unmapped.
CachesExact ==
  /\ Len(kept) <= inmem
  /\ \A i, j \in Range(kept) : inst[i].epoch = inst[j].epoch => i = j
  /\ kept # <<>> => fcache # 0
  /\ \A i \in Range(kept) : inst[i].epoch < inst[fcache].epoch
  /\ \A c \in Caller : user[c].at = "using" => Complete(user[c].current)
  /\ \A i \in Range(kept) \cup ({fcache} \ {0}) : inst[i].content = "file" => inst[i].mapped

-----------------------------------------------------------------------------
(***************************************************************************)
(* The consensus rules of the ethash engine (src/pkg/consensus/ethash/      *)
(* consensus.go): the difficulty formulas of the three rule sets, the check *)
(* of a header against its parent and the check of a block's uncles, at     *)
(* work on a growing tree of blocks.  A block's place in the sequence       *)
(* blocks is its hash; the first is the genesis block.                      *)
(***************************************************************************)

CONSTANTS MinimumDifficulty, DifficultyBoundDivisor, DurationLimit,
          GasLimitBoundDivisor, MinGasLimit,       \* package params
          Homestead, Byzantium,                    \* fork block numbers
          expDiffPeriod, bombDelay,                \* 100000 and 2999999 in the code
          Generations, maxUncles,                  \* 7 and 2 in the code
          Steps, GasSteps,                         \* what a miner may choose
          Genesis,                                 \* difficulty and gas limit
          MaxBlocks

VARIABLES blocks, credited   \* the tree; the reward each block's coinbase got
rulesVars == <<blocks, credited>>

Max2(a, b) == IF a > b THEN a ELSE b
Bomb(period) == IF period > 1 THEN 2 ^ (period - 2) ELSE 0

\* x blocks of ten (nine) seconds cost x steps of the parent's difficulty.
Adjusted(parent, x) ==
  Max2(parent.difficulty + (parent.difficulty \div DifficultyBoundDivisor) * Max2(x, -99),
       MinimumDifficulty)

calcDifficultyByzantium(time, parent) ==
  Adjusted(parent, (IF parent.uncles = {} THEN 1 ELSE 2) - ((time - parent.time) \div 9))
    + Bomb(Max2(0, parent.number - bombDelay) \div expDiffPeriod)

calcDifficultyHomestead(time, parent) ==
  Adjusted(parent, 1 - ((time - parent.time) \div 10))
    + Bomb((parent.number + 1) \div expDiffPeriod)

calcDifficultyFrontier(time, parent) ==
  Max2(IF time - parent.time < DurationLimit
       THEN parent.difficulty + (parent.difficulty \div DifficultyBoundDivisor)
       ELSE parent.difficulty - (parent.difficulty \div DifficultyBoundDivisor),
       MinimumDifficulty)
    + Bomb((parent.number + 1) \div expDiffPeriod)

CalcDifficulty(time, parent) ==
  CASE parent.number + 1 >= Byzantium -> calcDifficultyByzantium(time, parent)
    [] parent.number + 1 < Byzantium /\ parent.number + 1 >= Homestead ->
         calcDifficultyHomestead(time, parent)
    [] OTHER -> calcDifficultyFrontier(time, parent)

Abs(n) == IF n < 0 THEN -n ELSE n

\* The checks of verifyHeader in their order; "" when all are passed.  An uncle
\* may be of the future (now is past every block's time otherwise).
verifyHeader(h, parent, now, uncle) ==
  CASE ~uncle /\ h.time > now -> "ErrFutureBlock"
    [] h.time <= parent.time -> "errZeroBlockTime"
    [] h.difficulty # CalcDifficulty(h.time, parent) -> "invalid difficulty"
    [] h.gasUsed > h.gasLimit -> "invalid gasUsed"
    [] \/ Abs(parent.gasLimit - h.gasLimit) >= parent.gasLimit \div GasLimitBoundDivisor
       \/ h.gasLimit < MinGasLimit -> "invalid gas limit"
    [] h.number # parent.number + 1 -> "ErrInvalidNumber"
    [] ~h.seal -> "errInvalidPoW"
    [] OTHER -> ""

-----------------------------------------------------------------------------
RECURSIVE Ancestors(_, _)
Ancestors(p, n) ==
  IF n = 0 \/ p = 0 THEN {} ELSE {p} \cup Ancestors(blocks[p].parent, n - 1)

PastUncles(as) == UNION {blocks[a].uncles : a \in as}

\* The uncle u of a block on top of parent p, with the ancestors as of p.
uncleError(u, p, as) ==
  CASE u \in PastUncles(as) -> "errDuplicateUncle"
    [] u \in as -> "errUncleIsAncestor"
    [] blocks[u].parent \notin as \/ blocks[u].parent = p -> "errDanglingUncle"
    [] OTHER -> verifyHeader(blocks[u], blocks[blocks[u].parent], 0, TRUE)

VerifyUncles(p, us) ==
  IF Cardinality(us) > maxUncles THEN "errTooManyUncles"
  ELSE IF \E u \in us : uncleError(u, p, Ancestors(p, Generations)) # "" THEN "invalid uncle"
  ELSE ""

frontierBlockReward == 5
byzantiumBlockReward == 3
\* The rewards for uncles are commented out in the code.
AccumulateRewards(number) ==
  IF number >= Byzantium THEN byzantiumBlockReward ELSE frontierBlockReward

-----------------------------------------------------------------------------
RulesInit ==
  /\ blocks = <<[number |-> 0, parent |-> 0, time |-> 0, difficulty |-> Genesis.difficulty,
                 gasLimit |-> Genesis.gasLimit, gasUsed |-> 0, uncles |-> {}, seal |-> TRUE]>>
  /\ credited = <<0>>

\* Prepare fills in the difficulty; the miner chooses the rest.
Header(p, dt, dg, us) ==
  [number |-> blocks[p].number + 1, parent |-> p, time |-> blocks[p].time + dt,
   difficulty |-> CalcDifficulty(blocks[p].time + dt, blocks[p]),
   gasLimit |-> blocks[p].gasLimit + dg, gasUsed |-> 0, uncles |-> us, seal |-> TRUE]

\* VerifyHeader, VerifyUncles and Finalize of one block.
Accept(p, dt, dg, us) ==
  /\ Len(blocks) < MaxBlocks
  /\ verifyHeader(Header(p, dt, dg, us), blocks[p], blocks[p].time + dt, FALSE) = ""
  /\ VerifyUncles(p, us) = ""
  /\ blocks' = Append(blocks, Header(p, dt, dg, us))
  /\ credited' = Append(credited, AccumulateRewards(blocks[p].number + 1))

RulesNext ==
  \E p \in DOMAIN blocks, dt \in Steps, dg \in GasSteps, us \in SUBSET DOMAIN blocks :
    Cardinality(us) <= maxUncles + 1 /\ Accept(p, dt, dg, us)

RulesSpec == RulesInit /\ [][RulesNext]_rulesVars

-----------------------------------------------------------------------------
RulesTypeOK ==
  /\ Len(blocks) \in 1 .. MaxBlocks /\ Len(credited) = Len(blocks)
  /\ \A b \in DOMAIN blocks : blocks[b].parent \in 0 .. b - 1

Branch(b) == Ancestors(b, MaxBlocks)

\* On every branch an uncle is included once, by a block that does not descend
\* from it, and its own parent is on the branch; the window of Generations
\* blocks that VerifyUncles looks back on is enough for that.
UnclesOnce ==
  \A b \in DOMAIN blocks :
    /\ \A x, y \in Branch(b) : x # y => blocks[x].uncles \cap blocks[y].uncles = {}
    /\ \A x \in Branch(b) : \A u \in blocks[x].uncles :
         u \notin Branch(b) /\ blocks[u].parent \in Branch(b) \ {blocks[x].parent}

\* The difficulty of a branch stays at or above the minimum and, the bomb
\* apart, moves by at most 99 steps down and two steps up per block; the gas
\* limit moves by less than its bound and stays above the minimum.
DifficultyBounded ==
  \A b \in DOMAIN blocks \ {1} :
    LET h == blocks[b]
        p == blocks[h.parent]
        step == p.difficulty \div DifficultyBoundDivisor
        bomb == 2 ^ (h.number \div expDiffPeriod)
    IN  /\ h.difficulty >= MinimumDifficulty
        /\ h.difficulty <= Max2(p.difficulty + 2 * step, MinimumDifficulty) + bomb
        /\ h.difficulty >= p.difficulty - 99 * step
        /\ h.gasLimit >= MinGasLimit

-----------------------------------------------------------------------------
(***************************************************************************)
(* The ethash algorithm (src/pkg/consensus/ethash/algorithm.go) over words  *)
(* of a small width: the cache made from a seed, the dataset made from the  *)
(* cache by several threads, each its own segment, and hashimoto, which a   *)
(* miner runs on the dataset and a verifier on the cache.  Keccak stands    *)
(* for the hash functions of package sha3; rows are sequences of words.     *)
(***************************************************************************)

CONSTANTS Keccak(_),       \* external: any function from sequences of words to rows
          W,               \* the modulus of a word, 2^32 in the code
          hashWords,       \* words of a row, 16 in the code
          cacheRows, cacheRounds, datasetParents, loopAccesses,
          Items,           \* rows of the dataset, an even number
          Thread,          \* 0 .. threads - 1
          Seeds, Nonces    \* seeds of epochs, and nonces tried

VARIABLES seed, cache,     \* the epoch's seed and its cache
          dataset,         \* the rows written so far; <<>> for one not written
          at,              \* each thread's next index
          writes           \* rows written
hashVars == <<seed, cache, dataset, at, writes>>

fnv(a, b) == ((a * 403) % W) ^^ b
fnvHash(mix, data) == [i \in DOMAIN mix |-> fnv(mix[i], data[i])]
xorRow(a, b) == [i \in DOMAIN a |-> a[i] ^^ b[i]]

\* Rows are numbered from 1 here.
Fill(n, s) == FoldLeft(LAMBDA c, i : Append(c, Keccak(c[i])), <<Keccak(s)>>, [i \in 1 .. n - 1 |-> i])

Memo(c, j) ==
  [c EXCEPT ![j] = Keccak(xorRow(c[((j - 2 + cacheRows) % cacheRows) + 1],
                                 c[(c[j][1] % cacheRows) + 1]))]

generateCache(s) ==
  FoldLeft(Memo, Fill(cacheRows, s),
           [k \in 1 .. cacheRounds * cacheRows |-> ((k - 1) % cacheRows) + 1])

Parents == [i \in 1 .. datasetParents |-> i - 1]
Mixed(c, index) == Keccak([c[(index % cacheRows) + 1] EXCEPT ![1] = @ ^^ (index % W)])

generateDatasetItem(c, index) ==
  Keccak(FoldLeft(LAMBDA mix, i :
                    fnvHash(mix, c[(fnv((index % W) ^^ i, mix[(i % hashWords) + 1])
                                      % cacheRows) + 1]),
                  Mixed(c, index), Parents))

-----------------------------------------------------------------------------
(* hashimoto with a lookup of dataset rows; rows of mix are two rows wide.  *)

Loop == [i \in 1 .. loopAccesses |-> i - 1]
Start(hash, nonce) == Keccak(hash \o <<nonce>>)

Compress(mix) ==
  [k \in 1 .. Len(mix) \div 4 |->
     fnv(fnv(fnv(mix[4 * k - 3], mix[4 * k - 2]), mix[4 * k - 1]), mix[4 * k])]

\* The digest, and the value compared with the target.
Digests(s, digest) == <<digest, Keccak(s \o digest)>>

hashimoto(hash, nonce, lookup) ==
  Digests(Start(hash, nonce), Compress(FoldLeft(LAMBDA mix, i :
      LET parent == fnv((i % W) ^^ Start(hash, nonce)[1], mix[(i % Len(mix)) + 1])
                      % (Items \div 2)
      IN  fnvHash(mix, lookup[2 * parent] \o lookup[2 * parent + 1]),
    Start(hash, nonce) \o Start(hash, nonce), Loop)))

hashimotoLight(hash, nonce) ==
  hashimoto(hash, nonce, [index \in DOMAIN dataset |-> generateDatasetItem(cache, index)])

hashimotoFull(hash, nonce) == hashimoto(hash, nonce, dataset)

-----------------------------------------------------------------------------
Threads == Cardinality(Thread)

batch == (Items + Threads - 1) \div Threads
Limit(t) == IF (t + 1) * batch > Items THEN Items ELSE (t + 1) * batch

HashInit ==
  /\ seed \in Seeds
  /\ cache = generateCache(seed)
  /\ dataset = [i \in 0 .. Items - 1 |-> <<>>]
  /\ at = [t \in Thread |-> t * batch]
  /\ writes = 0

generateDataset(t) ==
  /\ at[t] < Limit(t)
  /\ dataset' = [dataset EXCEPT ![at[t]] = generateDatasetItem(cache, at[t])]
  /\ at' = [at EXCEPT ![t] = @ + 1]
  /\ writes' = writes + 1
  /\ UNCHANGED <<seed, cache>>

HashNext == \E t \in Thread : generateDataset(t)

HashSpec == HashInit /\ [][HashNext]_hashVars

-----------------------------------------------------------------------------
HashTypeOK ==
  /\ Len(cache) = cacheRows
  /\ DOMAIN dataset = 0 .. Items - 1
  /\ writes \in 0 .. Items

\* Every row of the dataset is written by one thread, once; and when all
\* threads are through, a miner working on the dataset and a verifier working
\* on the cache compute the same digest for every header and nonce, so that
\* VerifySeal accepts what mine found.
SealersAgree ==
  /\ \A t, u \in Thread : t < u => Limit(t) <= u * batch
  /\ (\A t \in Thread : at[t] >= Limit(t)) =>
       /\ writes = Items
       /\ \A n \in Nonces : hashimotoFull(<<1>>, n) = hashimotoLight(<<1>>, n)
=============================================================================
