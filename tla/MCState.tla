------------------------------ MODULE MCState ------------------------------
(***************************************************************************)
(* Model checking of the state below the chain: the account state and its  *)
(* journal, block execution by the miner and by the importing nodes, the   *)
(* trie, its iterators and proofs, and the nonces managed for the pool.  A *)
(* behaviour exercises one part, chosen by the initial state; the others   *)
(* stay where they are.                                                    *)
(***************************************************************************)
EXTENDS Integers, Sequences

VARIABLES part,
          plan, ops, db, tries, ref, disk, codeDB, saved, live,
          parent, work, heads, txs, block, phase,
          root, nodeDB, gen, written, trieOps, lost,
          kind, maps, start, its, missing, at, done, seen, skipped, byHash,
          nonce, account, last,
          nodes, pos, data, code, over, error, broken, visited

Acct(n, b, c, r) == [nonce |-> n, balance |-> b, contribution |-> 0, records |-> <<>>, code |-> c, root |-> r]

Entry(l, d, c) == [leaf |-> l, data |-> d, code |-> c]

\* Pending transactions of a sender: one of every kind, and pairs of them.
Tx(ty, f, to, v, n, d) ==
    [type |-> ty, from |-> f, to |-> to, value |-> v, nonce |-> n, data |-> d, hash |-> <<ty, f, to, v, n, d>>]
TxsOf(f, n) == {Tx("Binary", f, "n", 0, n, ""), Tx("Binary", f, "b", 1, n, ""), Tx("Binary", f, "n", 3, n, ""),
                Tx("ConfirmationData", f, "", 0, n, "d"), Tx("AuthorizationData", f, "", 0, n, "d"),
                Tx("AuthorizationData", f, "b", 0, n, "d"), Tx("TransferData", f, "n", 1, n, "d"),
                Tx("TransferData", f, "b", 0, n, "d"), Tx("LoginCandidate", f, "", 0, n, ""),
                Tx("LogoutCandidate", f, "", 0, n, "")}
Upto1(f, n) == {<<>>} \union {<<t>> : t \in TxsOf(f, n)}
Pairs(f, n) == {<<t, u>> : t \in TxsOf(f, n), u \in TxsOf(f, n + 1)}
FreshState == [objs |-> <<>>, dirty |-> {}, journal |-> <<>>, revs |-> <<>>, nextRev |-> 0, refund |-> 0,
               logs |-> 0, preimages |-> {}, committed |-> FALSE]

Sd == INSTANCE StateDB WITH
    DeleteEmpty <- TRUE, Addr <- {"a", "b"}, Stored <- [x \in {"a"} |-> Acct(1, 1, 1, 1)], Value <- {0, 1},
    Record <- {1, 2}, MaxOps <- 4,
    Plans <- {{"balance", "create", "snapshot", "finalise"}, {"create", "suicide", "snapshot", "finalise"},
              {"slot", "code", "snapshot", "commit"}, {"addRecords", "records", "snapshot", "finalise"},
              {"addContribution", "contribution", "snapshot", "copy"}, {"misc", "snapshot", "copy", "nonce"}},
    MaxNonce <- 4,
    States <- {<<Entry(TRUE, 2, TRUE)>>,
               <<Entry(FALSE, 0, FALSE), Entry(TRUE, 1, FALSE), Entry(FALSE, 0, FALSE), Entry(TRUE, 3, TRUE),
                 Entry(TRUE, 1, TRUE)>>},
    Coinbase <- "c", Reward <- 1, DataHash <- [d |-> <<"data">>],
    Genesis <- [s |-> FreshState, tr |-> [x \in {"a", "c"} |-> Acct(0, 2, 0, 0)],
                rs |-> [objs |-> <<>>, dirty |-> {}, journal |-> <<>>], rtr |-> <<>>, cand |-> {"c"}],
    Pending <- <<{[a |-> x, b |-> y] : x \in Upto1("a", 0) \union Pairs("a", 0), y \in {<<>>, <<Tx("Binary", "b", "n", 1, 0, "")>>, <<Tx("TransferData", "b", "n", 0, 0, "d")>>}},
                 {[a |-> x, b |-> <<>>] : x \in Upto1("a", 1)}>>

Tr == INSTANCE Trie WITH
    Keys <- {<<0, 0>>, <<0, 1>>, <<1, 1>>, <<0, 0, 0, 1>>}, Values <- {1, 2}, Small <- {1}, MaxNibble <- 1,
    cachelimit <- 1, MaxOps <- 5, db <- nodeDB, ref <- written, ops <- trieOps,
    Starts <- {<<>>, <<0, 1>>, <<1, 0>>}, Kinds <- {"node", "prefix", "difference", "union", "proof"},
    Maps <- UNION {[D -> {1, 2}] : D \in {{}, {<<0, 1>>, <<0, 0>>}, {<<0, 1>>, <<1, 1>>},
                                          {<<0, 0>>, <<0, 0, 0, 1>>, <<1, 1>>}}}

sd == <<plan, ops, db, tries, ref, disk, codeDB, saved, live>>
ex == <<parent, work, heads, txs, block, phase>>
tr == <<root, nodeDB, gen, written, trieOps, lost>>
ti == <<kind, maps, start, its, missing, at, done, seen, skipped, byHash>>
ms == <<nonce, account, last>>
si == <<nodes, pos, data, code, over, error, broken, visited>>
vars == <<part, sd, ex, tr, ti, ms, si>>

\* Where the parts with many initial states stay while another one is exercised.
NoBlock == /\ parent = <<>> /\ work = [s |-> FreshState, rs |-> FreshState, tr |-> <<>>, rtr |-> <<>>]
           /\ heads = <<>> /\ txs = <<>> /\ block = 1 /\ phase = "done"
NoIterator == /\ kind = "node" /\ maps = <<<<>>, <<>>>> /\ start = <<>> /\ its = <<>> /\ missing = {} /\ at = <<>>
              /\ done = FALSE /\ seen = {} /\ skipped = {} /\ byHash = TRUE

Init ==
    /\ part \in {"accounts", "execution", "trie", "iterator", "nonces", "walk"}
    /\ Sd!Init /\ (part # "accounts" => "misc" \in plan)
    /\ IF part = "execution" THEN Sd!ExecInit ELSE NoBlock
    /\ Tr!Init
    /\ IF part = "iterator" THEN Tr!ItInit ELSE NoIterator
    /\ Sd!ManagedInit
    /\ Sd!WalkInit /\ (part # "walk" => Len(nodes) = 1 /\ broken = {})

Next ==
    \/ part = "accounts" /\ Sd!Next /\ UNCHANGED <<part, ex, tr, ti, ms, si>>
    \/ part = "execution" /\ Sd!ExecNext /\ UNCHANGED <<part, sd, tr, ti, ms, si>>
    \/ part = "trie" /\ Tr!Next /\ UNCHANGED <<part, sd, ex, ti, ms, si>>
    \/ part = "iterator" /\ Tr!ItNext /\ UNCHANGED <<part, sd, ex, tr, ms, si>>
    \/ part = "nonces" /\ Sd!ManagedNext /\ UNCHANGED <<part, sd, ex, tr, ti, si>>
    \/ part = "walk" /\ Sd!WalkNext /\ UNCHANGED <<part, sd, ex, tr, ti, ms>>

Spec == Init /\ [][Next]_vars

-----------------------------------------------------------------------------
Types == /\ Sd!TypeOK /\ Sd!ExecTypeOK /\ Tr!ItTypeOK /\ Tr!TypeOK /\ Sd!ManagedTypeOK /\ Sd!WalkTypeOK

\* RevertToSnapshot brings back everything readers saw when the snapshot was taken,
\* except contributions and record lists, and a copy reads as the original did
\* (statedb.go: RevertToSnapshot, Copy; journal.go).
SnapshotsRestore == [][Sd!RevertRestores /\ Sd!CopyFaithful]_sd

\* No write to an account is lost: what Finalise and CommitTo skip is what the trie
\* holds, and the code of every committed account is stored (the onDirty hooks).  A
\* block the worker sealed is accepted by every node that executes it again: the
\* transactions that failed and were reverted left no trace in the roots (worker.go:
\* commitTransaction; state_processor.go: Process).  Execution conserves value up to the
\* reward, counts each sender's transactions in the nonce, and keeps the transactions of
\* each data record (state_transition.go); the nonces managed for the pool are never
\* behind the state or given out twice (managed_state.go).
LedgerExact == /\ Types
               /\ Sd!NothingLost /\ Sd!CodeStored /\ Sd!NonceFresh
               /\ Sd!MinedBlockAccepted /\ Sd!BalanceConserved /\ Sd!NoncesCount /\ Sd!RecordsKept

\* A trie is the canonical trie of the map written to it, whatever the order of the
\* operations and whatever was unloaded or could not be read, and what it no longer
\* holds dirty in memory is in the database (trie.go, hasher.go).  Iterators return
\* exactly the nodes they promise, past nodes that could not be read, and proofs show
\* only what the trie holds (iterator.go, proof.go, encoding.go; state/iterator.go).
TrieExact == /\ Tr!Canonical /\ Tr!CleanIsStored
             /\ Tr!IterationExact /\ Tr!ProofSound /\ Tr!EncodingExact /\ Sd!VisitsOnce
=============================================================================
