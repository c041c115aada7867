------------------------------ MODULE MCMining ------------------------------
(***************************************************************************)
(* Model checking of what makes blocks: the miner with a caller of its API, *)
(* and the proof-of-work engine ethash with its header verifier, sealer,   *)
(* caches, header and uncle rules, and its algorithm.  A behaviour         *)
(* exercises one part, chosen by the initial state.                        *)
(***************************************************************************)
EXTENDS Miner, SequencesExt

VARIABLES part,
          in, out, checked, coord, worker, computed, done, errors, errorsOut, verifyAbort,
          threads, ping, seal, wanted, miner, sealAbort, result, stop, changes,
          kept, fcache, inst, made, user, ahead, disk,
          blocks, credited,
          seed, cache, dataset, at, writes

\* A hash on words of five bits: enough for rows that differ.
Hash(s) == [i \in 1 .. 2 |-> FoldLeft(LAMBDA a, x : (5 * a + 3 * x + i) % 32, i, s)]

\* A mapped file that cannot and one that can be reopened; few generations of many
\* blocks with the bomb ticking, and more forks without it.
Fork == INSTANCE Ethash WITH
    Headers <- 4, Worker <- {"u", "v"}, Linked <- {1, 3}, Known <- {0}, Bad <- {0, 1}, ParentKnown <- TRUE,
    Counts <- {0, 1, 2}, CPUs <- 2, MaxChanges <- 2,
    Caller <- {"u", "v"}, Epochs <- {0, 1, 2}, inmem <- 1, ondisk <- 2, Reload <- FALSE, MaxInstances <- 3,
    MinimumDifficulty <- 131072, DifficultyBoundDivisor <- 2048, DurationLimit <- 13,
    GasLimitBoundDivisor <- 1024, MinGasLimit <- 5000, Homestead <- 2, Byzantium <- 3,
    expDiffPeriod <- 100, bombDelay <- 2, Generations <- 2, maxUncles <- 2, Steps <- {5}, GasSteps <- {0},
    Genesis <- [difficulty |-> 140000, gasLimit |-> 5000], MaxBlocks <- 7,
    Keccak <- Hash, W <- 32, hashWords <- 2, cacheRows <- 3, cacheRounds <- 2, datasetParents <- 3,
    loopAccesses <- 3, Items <- 8, Thread <- 0 .. 2, Seeds <- {<<0>>, <<7>>}, Nonces <- 0 .. 3
Bomb == INSTANCE Ethash WITH
    Headers <- 4, Worker <- {"u", "v"}, Linked <- {1, 3}, Known <- {0}, Bad <- {0, 1}, ParentKnown <- TRUE,
    Counts <- {0, 1, 2}, CPUs <- 2, MaxChanges <- 2,
    Caller <- {"u", "v"}, Epochs <- {0, 1, 2}, inmem <- 1, ondisk <- 2, Reload <- TRUE, MaxInstances <- 3,
    MinimumDifficulty <- 131072, DifficultyBoundDivisor <- 2048, DurationLimit <- 13,
    GasLimitBoundDivisor <- 1024, MinGasLimit <- 5000, Homestead <- 2, Byzantium <- 3,
    expDiffPeriod <- 1, bombDelay <- 2, Generations <- 3, maxUncles <- 2, Steps <- {5, 2000}, GasSteps <- {0},
    Genesis <- [difficulty |-> 140000, gasLimit |-> 5000], MaxBlocks <- 6,
    Keccak <- Hash, W <- 32, hashWords <- 2, cacheRows <- 3, cacheRounds <- 2, datasetParents <- 3,
    loopAccesses <- 3, Items <- 8, Thread <- 0 .. 2, Seeds <- {<<0>>, <<7>>}, Nonces <- 0 .. 3

mi == <<flag, chan, closed, todo, loop, sync, update, calls, heads, panic>>
ve == <<in, out, checked, coord, worker, computed, done, errors, errorsOut, verifyAbort>>
se == <<threads, ping, seal, wanted, miner, sealAbort, result, stop, changes>>
ca == <<kept, fcache, inst, made, user, ahead, disk>>
ru == <<blocks, credited>>
al == <<seed, cache, dataset, at, writes>>
allVars == <<part, mi, ve, se, ca, ru, al>>

AllInit == /\ part \in {"miner", "verify", "seal", "fresh", "reopen", "bombed", "forked", "algorithm"}
           /\ Init /\ Fork!VerifyInit
           /\ Fork!SealInit /\ (part # "seal" => threads = 0)
           /\ Fork!CachesInit /\ (part \notin {"fresh", "reopen"} => disk = {})
           /\ Fork!RulesInit
           /\ Fork!HashInit /\ (part # "algorithm" => seed = <<0>>)

AllNext ==
    \/ part = "miner" /\ Next /\ UNCHANGED <<part, ve, se, ca, ru, al>>
    \/ part = "verify" /\ Fork!VerifyNext /\ UNCHANGED <<part, mi, se, ca, ru, al>>
    \/ part = "seal" /\ Fork!SealNext /\ UNCHANGED <<part, mi, ve, ca, ru, al>>
    \/ part = "fresh" /\ Fork!CachesNext /\ UNCHANGED <<part, mi, ve, se, ru, al>>
    \/ part = "reopen" /\ Bomb!CachesNext /\ UNCHANGED <<part, mi, ve, se, ru, al>>
    \/ part = "bombed" /\ Bomb!RulesNext /\ UNCHANGED <<part, mi, ve, se, ca, al>>
    \/ part = "forked" /\ Fork!RulesNext /\ UNCHANGED <<part, mi, ve, se, ca, al>>
    \/ part = "algorithm" /\ Fork!HashNext /\ UNCHANGED <<part, mi, ve, se, ca, ru>>

\* The fairness of Miner, for the behaviours that exercise it.
AllSpec == /\ AllInit /\ [][AllNext]_allVars
           /\ \A c \in Caller : WF_mi(part = "miner" /\ CallerStep(c))
           /\ \A l \in Loop : WF_mi(part = "miner" /\ LoopStep(l)) /\ SF_mi(part = "miner" /\ Stopped(l))
           /\ WF_mi(part = "miner" /\ UpdateQuit)

-----------------------------------------------------------------------------
\* The engine (ethash.go, sealer.go, consensus.go, algorithm.go): VerifyHeaders reports
\* every header's own verdict in order; Seal returns one block or none and leaves no
\* miner behind; a cache handed out is the epoch's and complete, and no more than inmem
\* are kept; an uncle is rewarded once on a chain and is no ancestor of it; difficulty
\* moves within its bounds; a miner on the dataset and a verifier on the cache compute
\* the same digest.
EngineExact ==
    /\ TypeOK /\ Fork!VerifyTypeOK /\ Fork!SealTypeOK /\ Fork!CachesTypeOK /\ Fork!RulesTypeOK /\ Fork!HashTypeOK
    /\ Fork!VerdictsInOrder /\ Fork!SealExact
    /\ IF part = "reopen" THEN Bomb!CachesExact ELSE Fork!CachesExact
    /\ IF part = "forked" THEN Fork!UnclesOnce /\ Fork!DifficultyBounded
                          ELSE Bomb!UnclesOnce /\ Bomb!DifficultyBounded
    /\ Fork!SealersAgree
=============================================================================
