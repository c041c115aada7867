------------------------------ MODULE StateObjects -------------------------
(***************************************************************************)
(* The accounts of core/state as one StateDB value s over its account trie *)
(* tr: the cache of live objects, the set of dirty ones, the journal       *)
(* behind Snapshot and RevertToSnapshot, and what Finalise, CommitTo and   *)
(* Copy do.  Amounts, codes, record hashes and the single storage slot of  *)
(* an account are small integers; the storage trie of an account is the    *)
(* value of that slot (data.root).                                         *)
(***************************************************************************)
EXTENDS Integers, SequencesExt

CONSTANT DeleteEmpty   \* the argument of Finalise and CommitTo: empty accounts go (EIP158)

Nothing == -1

Account == [nonce |-> 0, balance |-> 0, contribution |-> 0, records |-> <<>>, code |-> 0, root |-> 0]

newObject(data) == [data |-> data, slot |-> Nothing, flush |-> Nothing, dirtyCode |-> FALSE, suicided |-> FALSE,
                    touched |-> FALSE, deleted |-> FALSE, hooked |-> TRUE]

Fresh == [objs |-> <<>>, dirty |-> {}, journal |-> <<>>, revs |-> <<>>, nextRev |-> 0, refund |-> 0,
          logs |-> 0, preimages |-> {}, committed |-> FALSE]

empty(o) == o.data.nonce = 0 /\ o.data.balance = 0 /\ o.data.contribution = 0 /\ o.data.code = 0

\* The value of the slot that GetState returns.
GetState(o) == IF o.slot # Nothing THEN o.slot ELSE o.data.root

Put(f, a, v) == [x \in DOMAIN f \union {a} |-> IF x = a THEN v ELSE f[x]]
Without(f, A) == [x \in DOMAIN f \ A |-> f[x]]

-----------------------------------------------------------------------------
(* Objects of one StateDB s over its trie tr.                              *)

getStateObject(s, tr, a) ==
    IF a \in DOMAIN s.objs \/ a \notin DOMAIN tr THEN s
    ELSE [s EXCEPT !.objs = Put(@, a, newObject(tr[a]))]

Has(s, a) == a \in DOMAIN s.objs /\ ~s.objs[a].deleted

\* What every low-level setter ends with: the first write marks the address dirty.
Write(s, a, o) == [s EXCEPT !.objs[a] = [o EXCEPT !.hooked = FALSE],
                            !.dirty = IF o.hooked THEN @ \union {a} ELSE @]

Entry(k, a, v) == [k |-> k, a |-> a, v |-> v, obj |-> <<>>]
Log(s, e) == [s EXCEPT !.journal = Append(@, e)]

create(s, a) ==
    [s EXCEPT !.objs = Put(@, a, [newObject(Account) EXCEPT !.hooked = FALSE]),
              !.dirty = @ \union {a},
              !.journal = Append(@, IF Has(s, a) THEN [Entry("reset", a, <<>>) EXCEPT !.obj = <<s.objs[a]>>]
                                                 ELSE Entry("create", a, <<>>))]

orNew(s, a) == IF Has(s, a) THEN s ELSE create(s, a)
GetOrNewStateObject(s, tr, a) == orNew(getStateObject(s, tr, a), a)

prevOf(o, f) == IF f = "slot" THEN <<GetState(o)>> ELSE IF f = "records" THEN o.data.records ELSE <<o.data[f]>>

with(o, f, v) ==
    IF f = "slot" THEN [o EXCEPT !.slot = v[1], !.flush = v[1]]
    ELSE IF f = "records" THEN [o EXCEPT !.data.records = v]
    ELSE [o EXCEPT !.data[f] = v[1], !.dirtyCode = (f = "code") \/ @]

\* setBalance, setNonce, ...: the write alone.
setRaw(s, a, f, v) == Write(s, a, with(s.objs[a], f, v))

\* SetBalance, SetNonce, ...: the old value goes to the journal first.
set(s, a, f, v) == setRaw(Log(s, Entry(f, a, prevOf(s.objs[a], f))), a, f, v)

touch(s, a) ==
    Write(Log(s, Entry("touch", a, <<IF s.objs[a].touched THEN 1 ELSE 0, IF s.objs[a].hooked THEN 0 ELSE 1>>)),
          a, [s.objs[a] EXCEPT !.touched = TRUE])

-----------------------------------------------------------------------------
(* Undoing one journal entry.                                              *)

Fields == {"balance", "contribution", "nonce", "code", "records", "slot"}

undoCreate(s, e) == [s EXCEPT !.objs = Without(@, {e.a}), !.dirty = @ \ {e.a}]

undoTouch(s, e) ==
    IF e.v[1] = 1 THEN s
    ELSE [s EXCEPT !.objs[e.a].touched = FALSE, !.dirty = IF e.v[2] = 0 THEN @ \ {e.a} ELSE @]

\* A wrong variant: the balance stays zero.
undoSuicideFlagOnly(s, e) == [s EXCEPT !.objs[e.a].suicided = (e.v[1] = 1)]

undoSuicide(s, e) ==
    setRaw([s EXCEPT !.objs[e.a].suicided = (e.v[1] = 1)], e.a, "balance", <<e.v[2]>>)

undo(s, e) ==
    CASE e.k = "create" -> undoCreate(s, e)
      [] e.k = "reset" -> [s EXCEPT !.objs[e.a] = e.obj[1]]
      [] e.k = "suicide" -> undoSuicide(s, e)
      [] e.k = "touch" -> undoTouch(s, e)
      [] e.k \in Fields -> setRaw(s, e.a, e.k, e.v)
      [] e.k = "refund" -> [s EXCEPT !.refund = e.v[1]]
      [] e.k = "log" -> [s EXCEPT !.logs = @ - 1]
      [] e.k = "preimage" -> [s EXCEPT !.preimages = @ \ {e.v[1]}]

replay(s, n) == FoldLeft(undo, s, Reverse(SubSeq(s.journal, n + 1, Len(s.journal))))

\* Undo down to the i-th valid revision, which goes with the ones above it.
revert(s, i) ==
    [replay(s, s.revs[i].index) EXCEPT !.journal = SubSeq(s.journal, 1, s.revs[i].index),
                                       !.revs = SubSeq(@, 1, i - 1)]

-----------------------------------------------------------------------------
(* Writing objects to the trie.                                            *)

clearJournalAndRefund(s) == [s EXCEPT !.journal = <<>>, !.revs = <<>>, !.refund = 0]

updateTrie(o) == IF o.flush = Nothing THEN o ELSE [o EXCEPT !.data.root = o.flush, !.flush = Nothing]

doomed(o) == o.suicided \/ (DeleteEmpty /\ empty(o))

flushed(o) == IF doomed(o) THEN [o EXCEPT !.deleted = TRUE] ELSE updateTrie(o)

finalised(s) == clearJournalAndRefund(
    [s EXCEPT !.objs = [a \in DOMAIN @ |-> IF a \in s.dirty THEN flushed(@[a]) ELSE @[a]]])

\* The trie after the objects in A, already flushed, are deleted from or put in it.
stored(tr, objs, A) ==
    [a \in (DOMAIN tr \ {x \in A : objs[x].deleted}) \union {x \in A : ~objs[x].deleted} |->
        IF a \in A THEN objs[a].data ELSE tr[a]]

\* CommitTo also deletes the suicided objects that are not dirty and clears the dirty set.
toCommit(s) == {a \in DOMAIN s.objs : a \in s.dirty \/ s.objs[a].suicided}

committed(s) == clearJournalAndRefund(
    [s EXCEPT !.objs = [a \in DOMAIN @ |-> IF a \in toCommit(s) THEN [flushed(@[a]) EXCEPT !.dirtyCode = FALSE]
                                           ELSE @[a]],
              !.dirty = {}, !.committed = TRUE])

newCode(s) == {s.objs[a].data.code : a \in {x \in s.dirty : s.objs[x].dirtyCode /\ ~doomed(s.objs[x])}}

deepCopy(o) == [newObject(o.data) EXCEPT !.slot = o.flush, !.flush = o.flush, !.dirtyCode = o.dirtyCode,
                                         !.suicided = o.suicided, !.deleted = o.deleted]

copied(s) == [Fresh EXCEPT !.objs = [a \in s.dirty |-> deepCopy(s.objs[a])], !.dirty = s.dirty,
                           !.refund = s.refund, !.logs = s.logs, !.preimages = s.preimages]

-----------------------------------------------------------------------------
(* What a reader gets.                                                     *)

seen(o) == [data |-> [o.data EXCEPT !.root = GetState(o)], suicided |-> o.suicided]

readable(s, tr) == {a \in DOMAIN s.objs \union DOMAIN tr : a \in DOMAIN s.objs => Has(s, a)}

view(s, tr) == [a \in readable(s, tr) |-> IF a \in DOMAIN s.objs THEN seen(s.objs[a]) ELSE seen(newObject(tr[a]))]
=============================================================================
