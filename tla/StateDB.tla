------------------------------- MODULE StateDB --------------------------------
(*****************************************************************************)
(* The account state, the nonces managed on top of it, the iterator over all *)
(* nodes of a state, and the execution of blocks on the accounts, the data   *)
(* records and the candidates by the miner and by the importing nodes.       *)
(*****************************************************************************)
EXTENDS Integers, SequencesExt, FiniteSetsExt, StateObjects

-----------------------------------------------------------------------------
(***************************************************************************)
(* The operations of the account state of core/state, in any order.  A     *)
(* handle is one StateDB value: "orig", and the "copy" that Copy makes.    *)
(***************************************************************************)

CONSTANTS Addr,        \* addresses
          Stored,      \* the accounts in the trie the state is opened on
          Value,       \* amounts, nonces, codes and slot values written
          Record,      \* record hashes
          Plans,       \* sets of operation names a behaviour may use
          MaxOps       \* bound on the number of operations

VARIABLES plan, ops, db, tries, ref, disk, codeDB, saved, live
vars == <<plan, ops, db, tries, ref, disk, codeDB, saved, live>>

Handle == {"orig", "copy"}

Observe(h) == [accounts |-> view(db[h], tries[ref[h]]), refund |-> db[h].refund, logs |-> db[h].logs,
               preimages |-> db[h].preimages]

-----------------------------------------------------------------------------
Init ==
    /\ plan \in Plans
    /\ ops = 0
    /\ db = [h \in Handle |-> Fresh]
    /\ disk = Stored
    /\ tries = [h \in Handle |-> Stored]
    /\ ref = [h \in Handle |-> h]
    /\ codeDB = {0} \union {Stored[a].code : a \in DOMAIN Stored}
    /\ saved = [h \in Handle |-> <<>>]
    /\ live = {"orig"}

May(h, op) == h \in live /\ op \in plan /\ ~db[h].committed /\ ops < MaxOps /\ ops' = ops + 1

\* A step that changes the memory of handle h only.
Set(h, s) == /\ db' = [db EXCEPT ![h] = s]
             /\ UNCHANGED <<plan, tries, ref, disk, codeDB, saved, live>>

New(h, a) == GetOrNewStateObject(db[h], tries[ref[h]], a)

AddBalance(h, a, v) ==
    /\ May(h, "balance")
    /\ Set(h, IF v # 0 THEN set(New(h, a), a, "balance", <<New(h, a).objs[a].data.balance + v>>)
              ELSE IF empty(New(h, a).objs[a]) THEN touch(New(h, a), a) ELSE New(h, a))

SubBalance(h, a, v) ==
    /\ May(h, "balance")
    /\ v <= New(h, a).objs[a].data.balance       \* callers check CanTransfer first
    /\ Set(h, IF v = 0 THEN New(h, a) ELSE set(New(h, a), a, "balance", <<New(h, a).objs[a].data.balance - v>>))

SetField(h, a, f, v) == May(h, f) /\ Set(h, set(New(h, a), a, f, <<v>>))

SetRecords(h, a, r) == May(h, "records") /\ Set(h, set(New(h, a), a, "records", <<r>>))

\* The three below change the object without a journal entry.
AddContribution(h, a, v) ==
    /\ May(h, "addContribution")
    /\ Set(h, IF v # 0 THEN setRaw(New(h, a), a, "contribution", <<New(h, a).objs[a].data.contribution + v>>)
              ELSE IF empty(New(h, a).objs[a]) THEN touch(New(h, a), a) ELSE New(h, a))

AddRecords(h, a, r) ==
    /\ May(h, "addRecords")
    /\ Set(h, IF Contains(New(h, a).objs[a].data.records, r) THEN New(h, a)
              ELSE setRaw(New(h, a), a, "records", Append(New(h, a).objs[a].data.records, r)))

\* The first record is never removed: the code tests index > 0.  Not after Copy: the
\* removal shifts a backing array that the copy shares.
RemoveRecords(h, a, r) ==
    /\ May(h, "addRecords") /\ "copy" \notin live
    /\ Set(h, IF Contains(New(h, a).objs[a].data.records, r) /\ New(h, a).objs[a].data.records[1] # r
              THEN setRaw(New(h, a), a, "records", Remove(New(h, a).objs[a].data.records, r))
              ELSE New(h, a))

Suicide(h, a) ==
    /\ May(h, "suicide")
    /\ LET s == getStateObject(db[h], tries[ref[h]], a)
       IN  IF ~Has(s, a) THEN Set(h, s)
           ELSE Set(h, Write(Log(s, Entry("suicide", a, <<IF s.objs[a].suicided THEN 1 ELSE 0,
                                                          s.objs[a].data.balance>>)),
                             a, [s.objs[a] EXCEPT !.suicided = TRUE, !.data.balance = 0]))

carry(s, a, p) == setRaw(setRaw(s, a, "balance", <<p.data.balance>>), a, "contribution", <<p.data.contribution>>)

CreateAccount(h, a) ==
    /\ May(h, "create")
    /\ LET s == getStateObject(db[h], tries[ref[h]], a)
       IN  Set(h, IF Has(s, a) THEN carry(create(s, a), a, s.objs[a]) ELSE create(s, a))

AddRefund(h, v) ==
    May(h, "misc") /\ Set(h, [Log(db[h], Entry("refund", "", <<db[h].refund>>)) EXCEPT !.refund = @ + v])

AddLog(h) == May(h, "misc") /\ Set(h, [Log(db[h], Entry("log", "", <<>>)) EXCEPT !.logs = @ + 1])

AddPreimage(h, v) ==
    /\ May(h, "misc")
    /\ Set(h, IF v \in db[h].preimages THEN db[h]
              ELSE [Log(db[h], Entry("preimage", "", <<v>>)) EXCEPT !.preimages = @ \union {v}])

Snapshot(h) ==
    /\ May(h, "snapshot")
    /\ db' = [db EXCEPT ![h].revs = Append(@, [id |-> db[h].nextRev, index |-> Len(db[h].journal)]),
                        ![h].nextRev = @ + 1]
    /\ saved' = [saved EXCEPT ![h] = Append(@, Observe(h))]
    /\ UNCHANGED <<plan, tries, ref, disk, codeDB, live>>

RevertToSnapshot(h, i) ==
    /\ May(h, "snapshot")
    /\ db' = [db EXCEPT ![h] = revert(@, i)]
    /\ saved' = [saved EXCEPT ![h] = SubSeq(@, 1, i - 1)]
    /\ UNCHANGED <<plan, tries, ref, disk, codeDB, live>>

Finalise(h) ==
    /\ May(h, "finalise")
    /\ db' = [db EXCEPT ![h] = finalised(@)]
    /\ tries' = [tries EXCEPT ![ref[h]] = stored(@, finalised(db[h]).objs, db[h].dirty)]
    /\ saved' = [saved EXCEPT ![h] = <<>>]
    /\ UNCHANGED <<plan, ref, disk, codeDB, live>>

CommitTo(h) ==
    /\ May(h, "commit")
    /\ db' = [db EXCEPT ![h] = committed(@)]
    /\ tries' = [tries EXCEPT ![ref[h]] = stored(@, committed(db[h]).objs, toCommit(db[h]))]
    /\ disk' = tries'[ref[h]]
    /\ codeDB' = codeDB \union newCode(db[h])
    /\ saved' = [saved EXCEPT ![h] = <<>>]
    /\ UNCHANGED <<plan, ref, live>>

\* A new StateDB on the committed root: Reset, and New, which BlockChain calls per block.
Reset(h) ==
    /\ h \in live /\ db[h].committed /\ ops < MaxOps /\ ops' = ops + 1
    /\ db' = [db EXCEPT ![h] = [Fresh EXCEPT !.nextRev = db[h].nextRev]]
    /\ tries' = [tries EXCEPT ![h] = disk]
    /\ ref' = [ref EXCEPT ![h] = h]
    /\ UNCHANGED <<plan, disk, codeDB, saved, live>>

\* The copy gets deep copies of the dirty objects and the same trie.
Copy ==
    /\ May("orig", "copy") /\ live = {"orig"}
    /\ db' = [db EXCEPT !["copy"] = copied(db["orig"])]
    /\ ref' = [ref EXCEPT !["copy"] = ref["orig"]]
    /\ live' = Handle
    /\ UNCHANGED <<plan, tries, disk, codeDB, saved>>

Next ==
    \E h \in Handle :
        \/ \E a \in Addr :
            \/ \E v \in Value : AddBalance(h, a, v) \/ SubBalance(h, a, v) \/ AddContribution(h, a, v)
            \/ \E v \in Value, f \in Fields \ {"records"} : SetField(h, a, f, v)
            \/ \E r \in Record : SetRecords(h, a, r) \/ AddRecords(h, a, r) \/ RemoveRecords(h, a, r)
            \/ Suicide(h, a) \/ CreateAccount(h, a)
        \/ \E v \in Value : AddRefund(h, v) \/ AddPreimage(h, v)
        \/ AddLog(h) \/ Snapshot(h) \/ Finalise(h) \/ CommitTo(h) \/ Reset(h)
        \/ \E i \in DOMAIN db[h].revs : RevertToSnapshot(h, i)
        \/ Copy

Spec == Init /\ [][Next]_vars

-----------------------------------------------------------------------------
TypeOK == /\ live \subseteq Handle
          /\ \A h \in Handle : /\ db[h].dirty \subseteq DOMAIN db[h].objs
                               /\ Len(saved[h]) = Len(db[h].revs)

Journaled(o) == [o EXCEPT !.accounts =
                   [a \in DOMAIN @ |-> [@[a] EXCEPT !.data.contribution = 0, !.data.records = <<>>]]]

\* RevertToSnapshot brings back everything readers saw when the snapshot was taken,
\* except contributions and record lists, through any mix of creations, resets,
\* suicides, touches and nested snapshots (statedb.go:575, journal.go).
RevertRestores ==
    \A h \in Handle : \A i \in DOMAIN db[h].revs :
        RevertToSnapshot(h, i) => Journaled(Observe(h)') = Journaled(saved[h][i])

\* A write is never lost: an object that Finalise and CommitTo would skip has the
\* content of the trie (MarkStateObjectDirty, the onDirty hook).
NothingLost ==
    \A h \in live : ref[h] = h /\ ref["copy"] # "orig" =>
        \A a \in DOMAIN db[h].objs \ db[h].dirty :
            LET o == db[h].objs[a]
            IN  ~o.deleted => /\ a \in DOMAIN tries[h] /\ tries[h][a] = o.data
                              /\ o.flush = Nothing /\ ~o.suicided

\* The code of every committed account is in the database (CommitTo, dirtyCode).
CodeStored == \A a \in DOMAIN disk : disk[a].code \in codeDB

\* The copy reads as the original did: the objects Copy leaves out are clean, so the
\* trie gives them back, and pending slot writes come along (Copy, deepCopy).
CopyFaithful == Copy => Observe("copy")' = Observe("orig")

-----------------------------------------------------------------------------
(***************************************************************************)
(* state.ManagedState: the nonces the transaction pool hands out on top of *)
(* a state that is replaced under it, for one address.  An account tracks  *)
(* nstart and the number of nonces taken from there; the flags of the      *)
(* nonces are all set, so only their number is kept.                       *)
(***************************************************************************)

CONSTANTS MaxNonce

VARIABLES nonce,     \* nonce of the address in the backing state
          account,   \* {} or {[nstart, n]}
          last       \* the nonces NewNonce returned and RemoveNonce did not take back
managedVars == <<nonce, account, last>>

None == {}
hasAccount == account # None
newAccount == {[nstart |-> nonce, n |-> 0]}
next(a) == a.nstart + a.n

\* The state's nonce may have passed the tracked one.
getAccount == IF ~hasAccount \/ \E a \in account : next(a) < nonce THEN newAccount ELSE account
ManagedAccount == CHOOSE a \in getAccount : TRUE

GetNonce == IF hasAccount THEN next(ManagedAccount) ELSE nonce

ManagedInit == nonce = 0 /\ account = None /\ last = {}

NewNonce ==
    /\ next(ManagedAccount) < MaxNonce
    /\ account' = {[ManagedAccount EXCEPT !.n = @ + 1]}
    /\ last' = last \union {next(ManagedAccount)}
    /\ UNCHANGED nonce

\* n - nstart wraps below nstart and is then larger than any count.
RemoveNonce(n) ==
    /\ hasAccount
    /\ account' = IF n - ManagedAccount.nstart \in 0 .. ManagedAccount.n THEN {[ManagedAccount EXCEPT !.n = n - ManagedAccount.nstart]} ELSE getAccount
    /\ last' = IF n - ManagedAccount.nstart \in 0 .. ManagedAccount.n THEN {x \in last : x < n} ELSE last
    /\ UNCHANGED nonce

SetNonce(n) == nonce' = n /\ account' = {[nstart |-> n, n |-> 0]} /\ last' = {x \in last : x < n}

\* Another state below: the chain went on, or was reorganised.
SetState(n) == nonce' = n /\ UNCHANGED <<account, last>>

Read == hasAccount /\ account' = getAccount /\ UNCHANGED <<nonce, last>>

ManagedNext == \/ NewNonce \/ Read
               \/ \E n \in 0 .. MaxNonce : RemoveNonce(n) \/ SetNonce(n) \/ SetState(n)

ManagedSpec == ManagedInit /\ [][ManagedNext]_managedVars

ManagedTypeOK == nonce \in 0 .. MaxNonce /\ \A a \in account : next(a) \in 0 .. MaxNonce

\* The nonce handed out is never one the state has used, nor one handed out before
\* and not taken back, however the state is replaced (GetNonce, getAccount).
NonceFresh == GetNonce >= nonce /\ GetNonce \notin last

-----------------------------------------------------------------------------
(***************************************************************************)
(* state.NodeIterator: the walk over the state trie that visits, at every  *)
(* account leaf, the nodes of its storage trie and its code before the     *)
(* leaf.  A state trie is the sequence of its nodes in pre-order.          *)
(***************************************************************************)

CONSTANTS States   \* sequences of [leaf, data (number of storage nodes), code]

VARIABLES nodes, pos, data, code, over, error, broken, visited
walkVars == <<nodes, pos, data, code, over, error, broken, visited>>

Current == nodes[pos]

WalkInit ==
    /\ nodes \in States
    /\ broken \in {{}} \union {{i} : i \in 1 .. Len(nodes)}   \* leaves whose storage or code cannot be read
    /\ pos = 0 /\ data = 0 /\ code = FALSE /\ over = FALSE /\ error = FALSE /\ visited = <<>>

\* retrieve: what the iterator shows after a step; data counts from 1.
entry(p, d, c) == IF d > 0 THEN <<p, "data", d>> ELSE IF c THEN <<p, "code", 0>> ELSE <<p, "node", 0>>
Show == visited' = Append(visited, entry(pos', data', code'))

DataStep ==
    /\ ~over /\ ~error /\ data > 0
    /\ data' = IF data < Current.data THEN data + 1 ELSE 0
    /\ UNCHANGED <<nodes, pos, code, over, error, broken>>
    /\ Show

CodeStep ==
    /\ ~over /\ ~error /\ data = 0 /\ code
    /\ code' = FALSE
    /\ UNCHANGED <<nodes, pos, data, over, error, broken>>
    /\ Show

NodeStep ==
    /\ ~over /\ ~error /\ data = 0 /\ ~code
    /\ IF pos = Len(nodes) THEN over' = TRUE /\ UNCHANGED <<pos, data, code, error, visited>>
       ELSE /\ pos' = pos + 1
            /\ IF pos + 1 \in broken THEN error' = TRUE /\ UNCHANGED <<data, code, visited>>
               ELSE /\ data' = IF nodes[pos + 1].leaf /\ nodes[pos + 1].data > 0 THEN 1 ELSE 0
                    /\ code' = (nodes[pos + 1].leaf /\ nodes[pos + 1].code)
                    /\ UNCHANGED error
                    /\ Show
            /\ UNCHANGED over
    /\ UNCHANGED <<nodes, broken>>

WalkNext == DataStep \/ CodeStep \/ NodeStep

WalkSpec == WalkInit /\ [][WalkNext]_walkVars

WalkTypeOK == pos \in 0 .. Len(nodes) /\ error \in BOOLEAN /\ over \in BOOLEAN

entries == UNION {{<<i, "node", 0>>} \union (IF nodes[i].leaf THEN {<<i, "data", d>> : d \in 1 .. nodes[i].data} ELSE {})
                  \union (IF nodes[i].leaf /\ nodes[i].code THEN {<<i, "code", 0>>} ELSE {}) : i \in 1 .. Len(nodes)}

\* Each state node, storage node and code is visited exactly once, what an account
\* refers to before the account's leaf; the walk ends or reports an error.
VisitsOnce ==
    /\ \A i, j \in 1 .. Len(visited) : visited[i] = visited[j] => i = j
    /\ over => {visited[i] : i \in 1 .. Len(visited)} = entries
    /\ \A i, j \in 1 .. Len(visited) : i < j => visited[i][1] <= visited[j][1] /\ (visited[i][1] = visited[j][1] => visited[i][2] # "node")
-----------------------------------------------------------------------------
(***************************************************************************)
(* The data records of core/state (StateDBRecord): one value s over its    *)
(* record trie tr, with the operations block execution calls.  A record    *)
(* has an origin, an owner, the hashes of the transactions that touched it *)
(* and a status.  No record is ever empty and none commits suicide, so     *)
(* Finalise deletes nothing.                                               *)
(***************************************************************************)

NoAddress == ""      \* the zero address

EmptyRecord == [origin |-> NoAddress, owner |-> NoAddress, txs |-> <<>>, status |-> 0]

FreshRecords == [objs |-> <<>>, dirty |-> {}, journal |-> <<>>]

newObjectRecord(d) == [data |-> d, hooked |-> TRUE]

load(s, tr, k) ==
    IF k \in DOMAIN s.objs \/ k \notin DOMAIN tr THEN s
    ELSE [s EXCEPT !.objs = [x \in DOMAIN @ \union {k} |-> IF x = k THEN newObjectRecord(tr[k]) ELSE @[x]]]

Exist(s, tr, k) == k \in DOMAIN load(s, tr, k).objs

\* A new record is marked dirty before its creation goes to the journal.
createRecord(s, k) ==
    [objs |-> [x \in DOMAIN s.objs \union {k} |->
                 IF x = k THEN [data |-> EmptyRecord, hooked |-> FALSE] ELSE s.objs[x]],
     dirty |-> s.dirty \union {k},
     journal |-> Append(s.journal, [k |-> "create", h |-> k, prev |-> EmptyRecord])]

orNewRecord(s, k) == IF k \in DOMAIN s.objs THEN s ELSE createRecord(s, k)
GetOrNewRecord(s, tr, k) == orNewRecord(load(s, tr, k), k)

\* setOrigin, setOwner, setTxs: the write alone, marking the record dirty once.
put(s, k, d) == [s EXCEPT !.objs[k] = [data |-> d, hooked |-> FALSE],
                          !.dirty = IF s.objs[k].hooked THEN @ \union {k} ELSE @]

journalled(s, f, k) == [s EXCEPT !.journal = Append(@, [k |-> f, h |-> k, prev |-> s.objs[k].data])]

objSetOrigin(s, k, a) == put(journalled(s, "origin", k), k, [s.objs[k].data EXCEPT !.origin = a])
objSetOwner(s, k, a) == put(journalled(s, "owner", k), k, [s.objs[k].data EXCEPT !.owner = a])
objSetTxs(s, k, t) == put(journalled(s, "txs", k), k, [s.objs[k].data EXCEPT !.txs = t])

\* StateDBRecord.SetOwner calls the object's SetOrigin.
SetOwner(s, k, a) == objSetOrigin(s, k, a)

AddTxHash(s, k, t) == objSetTxs(s, k, Append(s.objs[k].data.txs, t))

GetOwner(s, tr, k) == IF Exist(s, tr, k) THEN load(s, tr, k).objs[k].data.owner ELSE NoAddress
GetStatus(s, tr, k) == IF Exist(s, tr, k) THEN load(s, tr, k).objs[k].data.status ELSE 100

\* Undoing a list of transactions goes through SetTxs and so writes a new journal
\* entry, which the truncation in RevertToSnapshot drops.
undoRecord(s, e) ==
    CASE e.k = "create" -> [s EXCEPT !.objs = [x \in DOMAIN @ \ {e.h} |-> @[x]], !.dirty = @ \ {e.h}]
      [] e.k = "origin" -> put(s, e.h, [s.objs[e.h].data EXCEPT !.origin = e.prev.origin])
      [] e.k = "owner" -> put(s, e.h, [s.objs[e.h].data EXCEPT !.owner = e.prev.owner])
      [] e.k = "txs" -> objSetTxs(s, e.h, e.prev.txs)

\* RevertToSnapshot with a snapshot taken when the journal had n entries.
revertRecords(s, n) ==
    [FoldLeft(undoRecord, s, Reverse(SubSeq(s.journal, n + 1, Len(s.journal)))) EXCEPT
        !.journal = SubSeq(s.journal, 1, n)]

\* Finalise writes every dirty record, which stays dirty, and drops the journal.
finalisedRecords(s) == [s EXCEPT !.journal = <<>>]
storedRecords(s, tr) == [k \in DOMAIN tr \union s.dirty |-> IF k \in s.dirty THEN s.objs[k].data ELSE tr[k]]

-----------------------------------------------------------------------------
(***************************************************************************)
(* Executing transactions: the miner's worker assembles a block from the   *)
(* pending transactions, taking a snapshot before each and reverting the   *)
(* ones that fail (commitTransactions), and finalises it; then every node  *)
(* runs the block's transactions on the parent's state (Process) and       *)
(* compares the roots with the header (ValidateState, ValidatePocState).   *)
(* The two state databases are those above.                                *)
(* A world is [s, tr, rs, rtr, cand]: the account state and its trie, the  *)
(* record state and its trie, and the candidates of the PoC context.       *)
(***************************************************************************)

CONSTANTS Genesis,    \* the world before the first block
          Coinbase, Reward,
          Pending,    \* for each block, the possible pending lists by sender
          DataHash    \* data payload -> record hash (BytesToHash of its encoding)

VARIABLES parent, work, heads, txs, block, phase
execVars == <<parent, work, heads, txs, block, phase>>

Blocks == Len(Pending)

-----------------------------------------------------------------------------
(* The state transition.  A result is [ok, err, w].                        *)

Ok(w) == [ok |-> TRUE, err |-> "", w |-> w]
Fail(e, w) == [ok |-> FALSE, err |-> e, w |-> w]

onState(w, s) == [w EXCEPT !.s = s]
onRecords(w, rs) == [w EXCEPT !.rs = rs]

acct(w, a) == w.s.objs[a]

\* from() and to(): an account that does not exist is created.
touchAccount(w, a) == onState(w, GetOrNewStateObject(w.s, w.tr, a))

validate(t) ==
    /\ t.type \notin {"Binary", "TransferData"} => t.value = 0
    /\ t.type \notin {"Binary", "LoginCandidate", "LogoutCandidate", "ConfirmationData"} => t.to # NoAddress
    /\ t.type \in {"LoginCandidate", "LogoutCandidate"} => t.data = ""

\* preCheck, whose first step is from().
preCheck(w, t) == IF acct(w, t.from).data.nonce < t.nonce THEN "too high"
                  ELSE IF acct(w, t.from).data.nonce > t.nonce THEN "too low" ELSE ""

incNonce(w, a) == onState(w, set(w.s, a, "nonce", <<acct(w, a).data.nonce + 1>>))

addBalance(s, a, v) == IF v # 0 THEN set(s, a, "balance", <<s.objs[a].data.balance + v>>)
                       ELSE IF empty(s.objs[a]) THEN touch(s, a) ELSE s

subBalance(s, a, v) == IF v = 0 THEN s ELSE set(s, a, "balance", <<s.objs[a].data.balance - v>>)

\* A wrong variant: the sender is not debited.
TransferNoDebit(w, from, to, v) == onState(w, addBalance(w.s, to, v))

Transfer(w, from, to, v) == onState(w, addBalance(subBalance(w.s, from, v), to, v))

CanTransfer(w, a, v) == acct(w, a).data.balance >= v

\* TransitionDb after preCheck: both accounts exist, the nonce is already raised.
pay(w, t) == IF CanTransfer(w, t.from, t.value) THEN Ok(Transfer(w, t.from, t.to, t.value))
             ELSE Fail("insufficient balance", w)

TransitionDb(w, t) == IF preCheck(w, t) # "" THEN Fail(preCheck(w, t), w)
                      ELSE pay(incNonce(touchAccount(w, t.to), t.from), t)

AddRecord(w, a, r) ==
    IF Contains(acct(w, a).data.records, r) THEN w
    ELSE onState(w, setRaw(w.s, a, "records", Append(acct(w, a).data.records, r)))

\* The first record of an account is never removed (index > 0).
RemoveRecord(w, a, r) ==
    IF Contains(acct(w, a).data.records, r) /\ acct(w, a).data.records[1] # r
    THEN onState(w, setRaw(w.s, a, "records", Remove(acct(w, a).data.records, r))) ELSE w

contribute(w, a, v) == onState(w, setRaw(w.s, a, "contribution", <<acct(w, a).data.contribution + v>>))

newRecord(rs, rtr, k, a, t) == objSetTxs(objSetOwner(objSetOrigin(GetOrNewRecord(rs, rtr, k), k, a), k, a), k, <<t>>)

confirm(w, t) ==
    IF Exist(w.rs, w.rtr, DataHash[t.data]) THEN Fail("exists", w)
    ELSE Ok(contribute(AddRecord(onRecords(w, newRecord(w.rs, w.rtr, DataHash[t.data], t.from, t.hash)),
                                 t.from, DataHash[t.data]), t.from, 2))

moveRecord(rs, k, to, tx) == AddTxHash(SetOwner(rs, k, to), k, tx)

\* The record lists of the two accounts are changed with the transaction's hash.
moved(w, t) == RemoveRecord(AddRecord(touchAccount(w, t.to), t.to, t.hash), t.from, t.hash)

transferData(w, t) ==
    IF GetOwner(w.rs, w.rtr, DataHash[t.data]) # t.from THEN Fail("not the owner", w)
    ELSE IF GetStatus(w.rs, w.rtr, DataHash[t.data]) # 0 THEN Fail("status", w)
    ELSE Ok(contribute(moved(onRecords(w, moveRecord(load(w.rs, w.rtr, DataHash[t.data]), DataHash[t.data],
                                                     t.to, t.hash)), t), t.from, 1))

dataMessage(w, t) ==
    CASE t.type = "ConfirmationData" -> confirm(w, t)
      [] t.type = "AuthorizationData" -> Ok(w)
      [] t.type = "TransferData" -> transferData(w, t)

ApplyDataMessage(w, t) == IF preCheck(w, t) # "" THEN Fail(preCheck(w, t), w)
                          ELSE dataMessage(incNonce(w, t.from), t)

\* Neither the nonce nor the account is looked at.
applyPocMessage(w, t) ==
    Ok([w EXCEPT !.cand = IF t.type = "LoginCandidate" THEN @ \union {t.from} ELSE @ \ {t.from}])

FinaliseWorld(w) ==
    [w EXCEPT !.s = finalised(w.s), !.tr = stored(w.tr, finalised(w.s).objs, w.s.dirty),
              !.rs = finalisedRecords(w.rs), !.rtr = storedRecords(w.rs, w.rtr)]

applied(w, t) ==
    CASE t.type = "Binary" -> TransitionDb(touchAccount(w, t.from), t)
      [] t.type \in {"ConfirmationData", "AuthorizationData", "TransferData"} ->
            ApplyDataMessage(touchAccount(w, t.from), t)
      [] OTHER -> applyPocMessage(w, t)

finish(r) == IF r.ok THEN Ok(FinaliseWorld(r.w)) ELSE r

ApplyTransaction(w, t) == IF ~validate(t) THEN Fail("invalid", w) ELSE finish(applied(w, t))

-----------------------------------------------------------------------------
(* The end of a block: the reward, and the roots in the header.            *)

reward(w) == FinaliseWorld(onState(w, addBalance(GetOrNewStateObject(w.s, w.tr, Coinbase), Coinbase, Reward)))

roots(w) == [state |-> w.tr, records |-> w.rtr, cand |-> w.cand]

\* The world a node starts a block with: new state databases on the parent's roots.
open(r) == [s |-> Fresh, tr |-> r.state, rs |-> FreshRecords, rtr |-> r.records, cand |-> r.cand]

\* Process: the first transaction that fails makes the block invalid.
processed(r, t) == IF r.ok THEN ApplyTransaction(r.w, t) ELSE r
Process(w, ts) == FoldLeft(processed, Ok(w), ts)

-----------------------------------------------------------------------------
ExecInit ==
    /\ parent = roots(Genesis)
    /\ work = open(roots(Genesis))
    /\ heads \in Pending[1]
    /\ txs = <<>> /\ block = 1 /\ phase = "mine"

\* The journal positions and the PoC context saved before the transaction.
reverted(w, before) ==
    [w EXCEPT !.s = [replay(w.s, Len(before.s.journal)) EXCEPT !.journal = before.s.journal],
              !.rs = revertRecords(w.rs, Len(before.rs.journal)), !.cand = before.cand]

commitTransaction(r, t) ==
    IF r.ok THEN work' = r.w /\ txs' = Append(txs, t)
    ELSE work' = reverted(r.w, work) /\ UNCHANGED txs

\* Shift takes the sender's next transaction, Pop drops the sender (nonce too high).
advance(r, a) == heads' = [heads EXCEPT ![a] = IF r.err = "too high" THEN <<>> ELSE SubSeq(@, 2, Len(@))]

\* One turn of commitTransactions: the best-priced head is any sender's head.
CommitTransaction(a) ==
    /\ phase = "mine" /\ heads[a] # <<>>
    /\ LET r == ApplyTransaction(work, heads[a][1]) IN commitTransaction(r, heads[a][1]) /\ advance(r, a)
    /\ UNCHANGED <<parent, block, phase>>

Finalize ==
    /\ phase = "mine" /\ \A a \in DOMAIN heads : heads[a] = <<>>
    /\ work' = reward(work)
    /\ phase' = "sealed"
    /\ UNCHANGED <<parent, heads, txs, block>>

\* A node that imports the sealed block: it becomes the parent of the next.
local(ts) == Process(open(parent), ts)
accepted == local(txs).ok /\ roots(reward(local(txs).w)) = roots(work)

Import ==
    /\ phase = "sealed" /\ accepted
    /\ parent' = roots(work)
    /\ IF block < Blocks THEN /\ block' = block + 1 /\ phase' = "mine"
                              /\ heads' \in Pending[block + 1]
                              /\ work' = open(roots(work))
                         ELSE phase' = "done" /\ UNCHANGED <<block, heads, work>>
    /\ txs' = <<>>

ExecNext == (\E a \in DOMAIN heads : CommitTransaction(a)) \/ Finalize \/ Import

ExecSpec == ExecInit /\ [][ExecNext]_vars

-----------------------------------------------------------------------------
ExecTypeOK == /\ phase \in {"mine", "sealed", "done"} /\ block \in 1 .. Blocks
          /\ work.s.dirty \subseteq DOMAIN work.s.objs /\ work.rs.dirty \subseteq DOMAIN work.rs.objs

total(tr) == MapThenSumSet(LAMBDA a : tr[a].balance, DOMAIN tr)

\* A block the worker sealed passes Process, ValidateState and ValidatePocState on
\* every node: the transactions that failed and were reverted while it was assembled
\* left no trace in the roots (worker.go:commitTransaction, state_processor.go:Process).
MinedBlockAccepted == phase = "sealed" => accepted

\* Executing a block moves value but makes none except the reward (Transfer).
BalanceConserved ==
    phase = "sealed" => total(work.tr) = total(parent.state) + Reward

\* An account's nonce counts its transfers and data messages: none of them is in the
\* chain twice, and none is skipped (preCheck, SetNonce).
counted(a) == Len(SelectSeq(txs, LAMBDA t : t.from = a /\ t.type \notin {"LoginCandidate", "LogoutCandidate"}))
nonceOf(tr, a) == IF a \in DOMAIN tr THEN tr[a].nonce ELSE 0
NoncesCount == phase = "sealed" =>
    \A a \in DOMAIN heads : nonceOf(work.tr, a) = nonceOf(parent.state, a) + counted(a)

\* A record, once confirmed, keeps a sender who confirmed it as its owner, lists
\* every transaction that touched it once, and no two records share a transaction.
RecordsKept ==
    \A k \in DOMAIN work.rtr :
        /\ work.rtr[k].owner # NoAddress
        /\ IsInjective(work.rtr[k].txs)
        /\ \A l \in DOMAIN work.rtr \ {k} : ToSet(work.rtr[k].txs) \intersect ToSet(work.rtr[l].txs) = {}
=============================================================================
