--------------------------------- MODULE Host ---------------------------------
(*****************************************************************************)
(* What a node keeps for its user: the key store, the cache of key files and *)
(* the manager of wallets (package accounts), and the node itself with its   *)
(* services and endpoints (package node).                                    *)
(*****************************************************************************)
EXTENDS Integers, Sequences, FiniteSets, SequencesExt

-----------------------------------------------------------------------------
(***************************************************************************)
(* The key store's unlocked keys and key files (accounts/keystore/         *)
(* keystore.go, key.go, keystore_passphrase.go): TimedUnlock, Lock and the *)
(* goroutine that expires an unlock, signing, and the change of a key      *)
(* file's passphrase by a temporary file and a rename.                     *)
(*                                                                         *)
(* One address; an unlocked entry is [timed, aborted, zeroed], named by    *)
(* its index (the pointer the code compares).                              *)
(***************************************************************************)

CONSTANTS Caller,       \* goroutines calling TimedUnlock
          Pass,         \* passphrases
          MaxEntries    \* bound: unlocks that succeed

VARIABLES file,      \* the key file: [complete, pass]
          temp,      \* Update: [pc, old, new]
          entries,   \* every unlocked value ever made
          unlocked,  \* the entry in the map, or 0
          keyCall,      \* [Caller -> [pc, timed]]
          lock,      \* Lock: [pc, u, raced, left]
          expirer,   \* set of [u, by]: goroutines in expire
          signed     \* "none", or what the last SignHash signed with
keyVars == <<file, temp, entries, unlocked, keyCall, lock, expirer, signed>>

KeyInit ==
    /\ \E p \in Pass : file = [complete |-> TRUE, pass |-> p]
    /\ temp = [pc |-> "idle", old |-> "", new |-> ""] /\ entries = <<>> /\ unlocked = 0
    /\ keyCall = [c \in Caller |-> [pc |-> "idle", timed |-> FALSE]]
    /\ lock = [pc |-> "idle", u |-> 0, raced |-> FALSE, left |-> 0] /\ expirer = {} /\ signed = "none"

\* GetKey: the file is read and decrypted; the content must be whole and the passphrase right.
getDecryptedKey(p) == file.complete /\ file.pass = p

-----------------------------------------------------------------------------
(* Unlocking.                                                              *)
Decrypt(c, p, timed) ==
    /\ keyCall[c].pc = "idle" /\ getDecryptedKey(p)
    /\ keyCall' = [keyCall EXCEPT ![c] = [pc |-> "store", timed |-> timed]]
    /\ UNCHANGED <<file, temp, entries, unlocked, lock, expirer, signed>>
Forever == unlocked # 0 /\ ~entries[unlocked].timed
Aborted == [u \in 1 .. Len(entries) |-> IF u = unlocked THEN [entries[u] EXCEPT !.aborted = TRUE] ELSE entries[u]]
TimedUnlock(c) ==
    /\ keyCall[c].pc = "store" /\ Len(entries) < MaxEntries
    /\ keyCall' = [keyCall EXCEPT ![c].pc = "idle"]
    /\ IF Forever THEN UNCHANGED <<entries, unlocked, expirer, lock>>
       ELSE LET u == Len(entries) + 1 IN
            /\ entries' = Append(Aborted, [timed |-> keyCall[c].timed, aborted |-> FALSE, zeroed |-> FALSE])
            /\ unlocked' = u /\ lock' = [lock EXCEPT !.raced = TRUE]
            /\ expirer' = IF keyCall[c].timed THEN expirer \union {[u |-> u, by |-> "timer"]} ELSE expirer
    /\ UNCHANGED <<file, temp, signed>>

-----------------------------------------------------------------------------
(* expire: the abort channel or the timer; only the same entry is dropped. *)
Drop(u) ==
    IF unlocked = u THEN unlocked' = 0 /\ entries' = [entries EXCEPT ![u].zeroed = TRUE]
    ELSE UNCHANGED <<unlocked, entries>>
Returned(e) == lock' = IF e.by = "lock" THEN [lock EXCEPT !.pc = "done", !.left = unlocked'] ELSE lock
ExpireAborted(e) ==
    /\ e \in expirer /\ entries[e.u].aborted /\ expirer' = expirer \ {e} /\ UNCHANGED <<unlocked, entries>> /\ Returned(e)
    /\ UNCHANGED <<file, temp, keyCall, signed>>
Expire(e) ==
    /\ e \in expirer /\ expirer' = expirer \ {e} /\ Drop(e.u) /\ Returned(e)
    /\ UNCHANGED <<file, temp, keyCall, signed>>
\* Lock reads the entry, gives the mutex up and expires the entry at once.
Lock ==
    /\ lock.pc # "run"
    /\ IF unlocked = 0 THEN lock' = [pc |-> "done", u |-> 0, raced |-> FALSE, left |-> 0] /\ UNCHANGED expirer
       ELSE /\ lock' = [pc |-> "run", u |-> unlocked, raced |-> FALSE, left |-> 0]
            /\ expirer' = expirer \union {[u |-> unlocked, by |-> "lock"]}
    /\ UNCHANGED <<file, temp, entries, unlocked, keyCall, signed>>

SignHash ==
    /\ unlocked # 0 /\ signed' = IF entries[unlocked].zeroed THEN "zero" ELSE "key"
    /\ UNCHANGED <<file, temp, entries, unlocked, keyCall, lock, expirer>>

-----------------------------------------------------------------------------
(* Update: decrypt, write a hidden temporary file, move it into place.     *)
Update(old, new) ==
    /\ temp.pc = "idle" /\ getDecryptedKey(old) /\ temp' = [pc |-> "write", old |-> old, new |-> new]
    /\ UNCHANGED <<file, entries, unlocked, keyCall, lock, expirer, signed>>
WriteTempInPlace ==
    /\ temp.pc = "write" /\ temp' = [temp EXCEPT !.pc = "rename"] /\ file' = [file EXCEPT !.complete = FALSE]
    /\ UNCHANGED <<entries, unlocked, keyCall, lock, expirer, signed>>
\* The write may fail (the temporary file is removed) and the process may die before the rename.
WriteTemp ==
    /\ temp.pc = "write" /\ \E pc \in {"rename", "idle"} : temp' = [temp EXCEPT !.pc = pc]
    /\ UNCHANGED <<file, entries, unlocked, keyCall, lock, expirer, signed>>
Rename ==
    /\ temp.pc = "rename" /\ temp' = [temp EXCEPT !.pc = "idle"] /\ file' = [complete |-> TRUE, pass |-> temp.new]
    /\ UNCHANGED <<entries, unlocked, keyCall, lock, expirer, signed>>
Crash ==
    /\ temp.pc = "rename" /\ temp' = [temp EXCEPT !.pc = "idle"]
    /\ entries' = <<>> /\ unlocked' = 0 /\ expirer' = {} /\ signed' = "none"
    /\ keyCall' = [c \in Caller |-> [pc |-> "idle", timed |-> FALSE]]
    /\ lock' = [pc |-> "idle", u |-> 0, raced |-> FALSE, left |-> 0] /\ UNCHANGED file

KeyNext ==
    \/ \E c \in Caller : TimedUnlock(c) \/ \E p \in Pass, timed \in BOOLEAN : Decrypt(c, p, timed)
    \/ \E e \in expirer : ExpireAborted(e) \/ Expire(e)
    \/ Lock \/ SignHash \/ WriteTemp \/ Rename \/ Crash
    \/ \E old, new \in Pass : Update(old, new)
KeySpec == KeyInit /\ [][KeyNext]_keyVars

KeyTypeOK ==
    /\ file.complete \in BOOLEAN /\ file.pass \in Pass /\ unlocked \in 0 .. Len(entries) /\ Len(entries) <= MaxEntries
    /\ \A e \in expirer : e.u \in 1 .. Len(entries)

\* The key in the map is never a zeroed one and so nothing is signed with one (expire
\* compares the entry it was launched with); a timed unlock in the map has a goroutine that
\* will end it, not told to quit (TimedUnlock); a Lock with no unlock in between leaves
\* nothing unlocked; and the key file is whole at every moment, a crash included ("Atomic
\* write: create a temporary hidden file first then move it into place").
UnlocksExact ==
    /\ unlocked # 0 => ~entries[unlocked].zeroed
    /\ unlocked # 0 /\ entries[unlocked].timed =>
          ~entries[unlocked].aborted /\ [u |-> unlocked, by |-> "timer"] \in expirer
    /\ lock.pc = "done" /\ ~lock.raced => lock.left = 0
    /\ signed # "zero" /\ file.complete

-----------------------------------------------------------------------------
(***************************************************************************)
(* The key store's live index of the key directory (accounts/keystore/     *)
(* account_cache.go, file_cache.go, watch.go, NewAccount and Delete of     *)
(* keystore.go): scans compare the directory with the last one, a watcher  *)
(* asks for a scan a little after a change, and the first use starts it.   *)
(*                                                                         *)
(* Addr gives the address a key file holds; a file may also hold junk.     *)
(* Every change has a later modification time.                             *)
(***************************************************************************)

CONSTANTS File, CacheAddr, Scanner,  \* [File -> address]; "watch" and the callers of accounts()
          CacheMaxChanges            \* bound: changes of the directory

VARIABLES dir,      \* [File -> "none", "key" or "junk"]
          mod,      \* [File -> time of its last change]
          now,
          all,      \* files with an entry in the cache
          byAddr,   \* [address -> files]
          fileC,    \* the file cache: [all, lastMod]
          watch,    \* watcher: [pc, watching, event, triggered]
          throttle, \* "nil", "armed" or "fired"
          scan,     \* [Scanner -> [pc, list, add, del, got]]
          cacheCall,     \* NewAccount / Delete in progress: [pc, file]
          lost      \* "gap": a change neither listed nor watched; "overlap": of two scans;
                    \* "unscanned": a file changed again between NewAccount or Delete and the next scan
cacheVars == <<dir, mod, now, all, byAddr, fileC, watch, throttle, scan, cacheCall, lost>>

Address == {CacheAddr[f] : f \in File}
NoScan == [pc |-> "idle", list |-> {}, mods |-> <<>>, add |-> {}, del |-> {}, got |-> {}]
CacheInit ==
    /\ dir \in [File -> {"none", "key"}] /\ mod = [f \in File |-> 0] /\ now = 0
    /\ all = {} /\ byAddr = [a \in Address |-> {}] /\ fileC = [all |-> {}, lastMod |-> -1]
    /\ watch = [pc |-> "off", watching |-> FALSE, event |-> FALSE, triggered |-> FALSE]
    /\ throttle = "nil" /\ scan = [s \in Scanner |-> NoScan] /\ cacheCall = [pc |-> "idle", file |-> "none"] /\ lost = {"gap"}

-----------------------------------------------------------------------------
(* The directory.  A change is noticed by a watch that is in place.        *)
Gap == {g \in {"gap"} : ~watch.watching}
Unscanned(f) == {u \in {"unscanned"} : f \in all \ fileC.all \/ (cacheCall.pc # "idle" /\ cacheCall.file = f)}
Changed(f, content) ==
    /\ now < CacheMaxChanges /\ now' = now + 1 /\ dir' = [dir EXCEPT ![f] = content] /\ mod' = [mod EXCEPT ![f] = now + 1]
    /\ watch' = IF watch.watching THEN [watch EXCEPT !.event = TRUE] ELSE watch
CacheChange(f) ==
    /\ \E content \in {"none", "key", "junk"} \ {dir[f]} : Changed(f, content)
    /\ lost' = lost \union Gap \union Unscanned(f)
    /\ UNCHANGED <<all, byAddr, fileC, throttle, scan, cacheCall>>

-----------------------------------------------------------------------------
(* The cache under its mutex.                                              *)
add(f) == all' = all \union {f} /\ byAddr' = [byAddr EXCEPT ![CacheAddr[f]] = @ \union {f}]
delete(f) == all' = all \ {f} /\ byAddr' = [byAddr EXCEPT ![CacheAddr[f]] = @ \ {f}]

\* maybeReload: not while the watcher runs, and not again before the timer has fired.
maybeReload(s) ==
    /\ s # "watch" /\ scan[s].pc = "idle" /\ watch.pc # "running" /\ throttle # "armed"
    /\ throttle' = "armed" /\ watch' = IF watch.pc = "off" THEN [watch EXCEPT !.pc = "starting"] ELSE watch
    /\ scan' = [scan EXCEPT ![s].pc = "list"]
    /\ UNCHANGED <<dir, mod, now, all, byAddr, fileC, cacheCall, lost>>
Throttle ==
    /\ throttle = "armed" /\ throttle' = "fired"
    /\ UNCHANGED <<dir, mod, now, all, byAddr, fileC, watch, scan, cacheCall, lost>>

\* scan: list the directory, then compare and replace the file cache under its mutex.
List(s) ==
    /\ scan[s].pc = "list"
    /\ scan' = [scan EXCEPT ![s] = [NoScan EXCEPT !.pc = "diff", !.list = {f \in File : dir[f] # "none"}, !.mods = mod]]
    /\ lost' = (lost \ {"gap"}) \union {o \in {"overlap"} : \E t \in Scanner \ {s} : scan[t].pc \notin {"idle", "list"}}
    /\ UNCHANGED <<dir, mod, now, all, byAddr, fileC, watch, throttle, cacheCall>>
MaxOf(S) == IF S = {} THEN -1 ELSE CHOOSE x \in S : \A y \in S : y <= x
Diff(s) ==
    /\ scan[s].pc = "diff"
    /\ LET list == scan[s].list
           mods == {f \in list : scan[s].mods[f] > fileC.lastMod} IN
       scan' = [scan EXCEPT ![s].pc = "read", ![s].add = (list \ fileC.all) \union mods,
                            ![s].del = (fileC.all \ list) \union (mods \cap fileC.all)]
    /\ fileC' = [all |-> scan[s].list, lastMod |-> MaxOf({scan[s].mods[f] : f \in scan[s].list})]
    /\ UNCHANGED <<dir, mod, now, all, byAddr, watch, throttle, cacheCall, lost>>

\* scanAccounts: new files, then gone ones, then changed ones (deleted, read again, added).
ReadAccount(s) ==
    /\ scan[s].pc = "read"
    /\ \E f \in scan[s].add :
          /\ f \in scan[s].del => scan[s].add \subseteq scan[s].del /\ scan[s].del \subseteq scan[s].add
          /\ IF f \in scan[s].del THEN delete(f) ELSE UNCHANGED <<all, byAddr>>
          /\ scan' = [scan EXCEPT ![s].add = @ \ {f}, ![s].del = @ \ {f},
                                  ![s].got = IF dir[f] = "key" THEN {f} ELSE {}, ![s].pc = IF dir[f] = "key" THEN "add" ELSE "read"]
    /\ UNCHANGED <<dir, mod, now, fileC, watch, throttle, cacheCall, lost>>
AddAccount(s) ==
    /\ scan[s].pc = "add" /\ \E f \in scan[s].got : add(f)
    /\ scan' = [scan EXCEPT ![s].pc = "read", ![s].got = {}]
    /\ UNCHANGED <<dir, mod, now, fileC, watch, throttle, cacheCall, lost>>
DeleteByFile(s) ==
    /\ scan[s].pc = "read" /\ scan[s].add \subseteq scan[s].del
    /\ \E f \in scan[s].del \ scan[s].add : delete(f) /\ scan' = [scan EXCEPT ![s].del = @ \ {f}]
    /\ UNCHANGED <<dir, mod, now, fileC, watch, throttle, cacheCall, lost>>
ScanEnds(s) ==
    /\ scan[s].pc = "read" /\ scan[s].add \union scan[s].del = {} /\ scan' = [scan EXCEPT ![s] = NoScan]
    /\ watch' = IF s = "watch" THEN [watch EXCEPT !.triggered = FALSE] ELSE watch
    /\ UNCHANGED <<dir, mod, now, all, byAddr, fileC, throttle, cacheCall, lost>>

-----------------------------------------------------------------------------
(* The watcher's loop.                                                     *)
Watch ==
    /\ watch.pc = "starting" /\ ~watch.watching
    /\ watch' \in {[watch EXCEPT !.watching = TRUE], [watch EXCEPT !.pc = "off"]}
    /\ UNCHANGED <<dir, mod, now, all, byAddr, fileC, throttle, scan, cacheCall, lost>>
Running ==
    /\ watch.pc = "starting" /\ watch.watching /\ watch' = [watch EXCEPT !.pc = "running"]
    /\ UNCHANGED <<dir, mod, now, all, byAddr, fileC, throttle, scan, cacheCall, lost>>
Event ==
    /\ watch.pc = "running" /\ watch.event /\ scan["watch"].pc = "idle"
    /\ watch' = [watch EXCEPT !.event = FALSE, !.triggered = TRUE]
    /\ UNCHANGED <<dir, mod, now, all, byAddr, fileC, throttle, scan, cacheCall, lost>>
Debounce ==
    /\ watch.pc = "running" /\ watch.triggered /\ scan["watch"].pc = "idle" /\ scan' = [scan EXCEPT !["watch"].pc = "list"]
    /\ UNCHANGED <<dir, mod, now, all, byAddr, fileC, watch, throttle, cacheCall, lost>>

-----------------------------------------------------------------------------
(* NewAccount and Delete: the file first, then the cache.                  *)
NewAccount(f) ==
    /\ cacheCall.pc = "idle" /\ dir[f] = "none" /\ Changed(f, "key") /\ cacheCall' = [pc |-> "add", file |-> f]
    /\ lost' = lost \union Gap /\ UNCHANGED <<all, byAddr, fileC, throttle, scan>>
Delete(f) ==
    /\ cacheCall.pc = "idle" /\ f \in all /\ dir[f] = "key" /\ Changed(f, "none") /\ cacheCall' = [pc |-> "delete", file |-> f]
    /\ lost' = lost \union Gap /\ UNCHANGED <<all, byAddr, fileC, throttle, scan>>
CallEnds ==
    /\ \/ cacheCall.pc = "add" /\ add(cacheCall.file)
       \/ cacheCall.pc = "delete" /\ delete(cacheCall.file)
    /\ cacheCall' = [cacheCall EXCEPT !.pc = "idle"]
    /\ UNCHANGED <<dir, mod, now, fileC, watch, throttle, scan, lost>>

CacheNext ==
    \/ \E f \in File : CacheChange(f) \/ NewAccount(f) \/ Delete(f)
    \/ \E s \in Scanner : maybeReload(s) \/ List(s) \/ Diff(s) \/ ReadAccount(s) \/ AddAccount(s) \/ DeleteByFile(s) \/ ScanEnds(s)
    \/ Throttle \/ Watch \/ Running \/ Event \/ Debounce \/ CallEnds
CacheSpec == CacheInit /\ [][CacheNext]_cacheVars

-----------------------------------------------------------------------------
\* find with an address only: no key, the key, or an ambiguity.
find(a) == CASE Cardinality(byAddr[a]) = 1 -> "one" [] byAddr[a] = {} -> "none" [] OTHER -> "ambiguous"

CacheTypeOK ==
    /\ all \subseteq File /\ fileC.all \subseteq File /\ watch.pc \in {"off", "starting", "running"}
    /\ throttle \in {"nil", "armed", "fired"} /\ \A s \in Scanner : scan[s].pc \in {"idle", "list", "diff", "read", "add"}

Keys == {f \in File : dir[f] = "key"}
CacheQuiet == /\ watch.pc = "running" /\ ~watch.event /\ ~watch.triggered
              /\ \A s \in Scanner : scan[s].pc = "idle" /\ cacheCall.pc = "idle"
\* The list and the index by address always hold the same accounts (add, delete,
\* deleteByFile), so find answers for the list.  With the watcher running and nothing
\* pending the cache is the directory ("A watcher is running and will keep the cache
\* up-to-date"), unless a change fell between the first listing and the start of the
\* watch, two scans overlapped, or a file of NewAccount or Delete changed before a scan had seen it.
CacheFollows ==
    /\ \A a \in Address : byAddr[a] = {f \in all : CacheAddr[f] = a}
    /\ \A a \in Address : find(a) = "one" <=> Cardinality({f \in all : CacheAddr[f] = a}) = 1
    /\ CacheQuiet /\ lost = {} => all = Keys

-----------------------------------------------------------------------------
(***************************************************************************)
(* The wallets of the key store and of the account manager (refreshWallets *)
(* and the updater of accounts/keystore/keystore.go, accounts/manager.go): *)
(* a refresh turns the difference between accounts and wallets into events *)
(* that it fires after giving the mutex up, and the manager applies them   *)
(* to its own sorted list.                                                 *)
(*                                                                         *)
(* An account is <<url, address>>, urls are ordered by number.             *)
(***************************************************************************)

CONSTANTS URL, ManagerAddr,      \* a set of numbers; addresses an account file may hold
          Refresher,      \* "updater" and callers of Wallets, NewAccount, ...
          Capacity,       \* of the manager's updates channel
          ManagerMaxChanges      \* bound: changes of the account list

VARIABLES accounts,  \* [URL -> address or "none"]: the cache's list
          changes,
          wallets,   \* the key store's wallets, sorted by url
          refresh,   \* [Refresher -> events still to be fired]
          updating, updater,   \* flag; "off", "select", "refresh" or "test"
          subs,      \* subscriptions of the update feed
          updates,   \* the manager's channel
          am,        \* the manager: [pc, wallets]
          missed     \* ways the manager's list may have come to differ
managerVars == <<accounts, changes, wallets, refresh, updating, updater, subs, updates, am, missed>>

-----------------------------------------------------------------------------
(* Sorted lists of wallets.                                                *)
Search(s, u) == Cardinality({k \in 1 .. Len(s) : s[k][1] < u}) + 1   \* sort.Search
merge(s, w) == InsertAt(s, Search(s, w[1]), w)
drop(s, w) == IF Search(s, w[1]) > Len(s) THEN s ELSE RemoveAt(s, Search(s, w[1]))
Sorted(f) == SetToSortSeq({<<u, f[u]>> : u \in {v \in URL : f[v] # "none"}}, LAMBDA x, y : x[1] < y[1])

\* refreshWallets: old wallets before the account are dropped, a missing one arrives, an
\* equal one stays, and one with the url but another address is passed over.
Walk(acc, ws) == LET rest == SelectSeq(ws, LAMBDA w : w[1] >= acc[1]) IN
    [dropped |-> SelectSeq(ws, LAMBDA w : w[1] < acc[1]),
     arrived |-> rest = <<>> \/ rest[1][1] > acc[1],
     kept |-> rest # <<>> /\ rest[1] = acc,
     rest |-> IF rest # <<>> /\ rest[1] = acc THEN Tail(rest) ELSE rest]
Fire(kind, ws) == [k \in 1 .. Len(ws) |-> [kind |-> kind, wallet |-> ws[k]]]
Step(r, acc) == LET w == Walk(acc, r.old) IN
    [old |-> w.rest, new |-> IF w.arrived \/ w.kept THEN Append(r.new, acc) ELSE r.new,
     events |-> r.events \o Fire("dropped", w.dropped) \o (IF w.arrived THEN Fire("arrived", <<acc>>) ELSE <<>>)]
refreshed(ws, accs) == FoldLeft(Step, [old |-> ws, new |-> <<>>, events |-> <<>>], accs)
RefreshEvents(r) == r.events \o Fire("dropped", r.old)

ManagerInit ==
    /\ accounts \in {f \in [URL -> ManagerAddr \union {"none"}] : \A u \in URL : u > 1 => f[u] = "none"} /\ changes = 0
    /\ wallets = Sorted(accounts) /\ refresh = [r \in Refresher |-> <<>>] /\ updating = FALSE /\ updater = "off"
    /\ subs = {} /\ updates = <<>> /\ am = [pc |-> "new", wallets |-> <<>>] /\ missed = {}

-----------------------------------------------------------------------------
ManagerChange ==
    /\ changes < ManagerMaxChanges /\ changes' = changes + 1
    /\ \E u \in URL : \E a \in (ManagerAddr \union {"none"}) \ {accounts[u]} : accounts' = [accounts EXCEPT ![u] = a]
    /\ UNCHANGED <<wallets, refresh, updating, updater, subs, updates, am, missed>>

\* The part of refreshWallets under ks.mu.
Refresh(r) ==
    LET res == refreshed(wallets, Sorted(accounts)) IN
    /\ refresh[r] = <<>> /\ wallets' = res.new /\ refresh' = [refresh EXCEPT ![r] = RefreshEvents(res)]
    /\ missed' = missed \union {o \in {"overlap"} : RefreshEvents(res) # <<>> /\ \E q \in Refresher : refresh[q] # <<>>}
                        \union {s \in {"startup"} : RefreshEvents(res) # <<>> /\ am.pc = "subscribe"}
Wallets(r) ==
    /\ r \notin {"updater", "am"} /\ Refresh(r)
    /\ UNCHANGED <<accounts, changes, updating, updater, subs, updates, am>>
\* updateFeed.Send of the next event: to the manager if it has subscribed by now.
Send(r) ==
    /\ refresh[r] # <<>> /\ refresh' = [refresh EXCEPT ![r] = Tail(@)]
    /\ IF "am" \in subs THEN Len(updates) < Capacity /\ updates' = Append(updates, refresh[r][1]) ELSE UNCHANGED updates
    /\ missed' = missed \union {s \in {"startup"} : "am" \notin subs /\ am.pc = "subscribe"}
    /\ UNCHANGED <<accounts, changes, wallets, updating, updater, subs, am>>

\* The updater refreshes on a change or after a while, and stops when nobody listens.
UpdaterRefreshes ==
    /\ updater = "select" /\ Refresh("updater") /\ updater' = "test"
    /\ UNCHANGED <<accounts, changes, updating, subs, updates, am>>
UpdaterStops ==
    /\ updater = "test" /\ refresh["updater"] = <<>>
    /\ IF subs = {} THEN updating' = FALSE /\ updater' = "off" ELSE updater' = "select" /\ UNCHANGED updating
    /\ UNCHANGED <<accounts, changes, wallets, refresh, subs, updates, am, missed>>
Subscribe(s) ==
    /\ subs' = subs \union {s}
    /\ IF updating THEN UNCHANGED <<updating, updater>> ELSE updating' = TRUE /\ updater' = "select"
Listen ==
    /\ "other" \notin subs /\ Subscribe("other")
    /\ UNCHANGED <<accounts, changes, wallets, refresh, updates, am, missed>>
Unlisten ==
    /\ "other" \in subs /\ subs' = subs \ {"other"}
    /\ UNCHANGED <<accounts, changes, wallets, refresh, updating, updater, updates, am, missed>>

-----------------------------------------------------------------------------
(* The manager: the wallets of its backend first, then the subscription.   *)
NewManager ==
    /\ am.pc = "new" /\ Refresh("am") /\ am' = [pc |-> "subscribe", wallets |-> wallets']
    /\ UNCHANGED <<accounts, changes, updating, updater, subs, updates>>
ManagerSubscribes ==
    /\ am.pc = "subscribe" /\ refresh["am"] = <<>> /\ Subscribe("am") /\ am' = [am EXCEPT !.pc = "run"]
    /\ missed' = missed \union {o \in {"startup"} : \E r \in Refresher : refresh[r] # <<>>}
    /\ UNCHANGED <<accounts, changes, wallets, refresh, updates>>
update ==
    /\ am.pc = "run" /\ updates # <<>> /\ updates' = Tail(updates)
    /\ am' = [am EXCEPT !.wallets = IF updates[1].kind = "arrived" THEN merge(@, updates[1].wallet) ELSE drop(@, updates[1].wallet)]
    /\ UNCHANGED <<accounts, changes, wallets, refresh, updating, updater, subs, missed>>
Close ==
    /\ am.pc = "run" /\ am' = [am EXCEPT !.pc = "closed"] /\ subs' = subs \ {"am"}
    /\ UNCHANGED <<accounts, changes, wallets, refresh, updating, updater, updates, missed>>

ManagerNext == \/ ManagerChange \/ \E r \in Refresher : Wallets(r) \/ Send(r)
               \/ UpdaterRefreshes \/ UpdaterStops \/ Listen \/ Unlisten
               \/ NewManager \/ ManagerSubscribes \/ update \/ Close
ManagerSpec == ManagerInit /\ [][ManagerNext]_managerVars

-----------------------------------------------------------------------------
ManagerTypeOK ==
    /\ updater \in {"off", "select", "test"} /\ subs \subseteq {"am", "other"} /\ Len(updates) <= Capacity
    /\ am.pc \in {"new", "subscribe", "run", "closed"} /\ missed \subseteq {"overlap", "startup"}

InOrder(s) == \A k \in 2 .. Len(s) : s[k - 1][1] <= s[k][1]
ManagerQuiet == updates = <<>> /\ \A r \in Refresher : refresh[r] = <<>>
\* While somebody listens the update loop runs (Subscribe and updater under ks.mu).  Both
\* lists stay sorted, and once every event is applied the manager has the wallets of its
\* backend, unless two refreshes fired their events at the same time or a wallet changed
\* between the backend's list and the subscription (NewManager).
WalletsMirrored ==
    /\ subs # {} => updating /\ updater # "off"
    /\ InOrder(wallets) /\ InOrder(am.wallets)
    /\ am.pc = "run" /\ ManagerQuiet /\ missed = {} => am.wallets = wallets

-----------------------------------------------------------------------------
(***************************************************************************)
(* The node: a container that starts and stops its services, the p2p       *)
(* server and the RPC endpoints (node/node.go), and the admin calls that   *)
(* start and stop endpoints while it runs (node/api.go).                   *)
(*                                                                         *)
(* Start, Stop and the admin calls hold the node's lock from end to end,   *)
(* so each is one step; the goroutine accepting IPC connections, waiters   *)
(* and attached clients run between them.                                  *)
(***************************************************************************)
CONSTANTS Service, Waiter,
          MaxStarts     \* bound: attempts to start

Endpoint == {"inproc", "ipc", "http", "ws"}

VARIABLES server,    \* n.server is set
          p2p,       \* p2p servers running
          dirLock,   \* the instance directory's lock is held
          service,   \* [Service -> "none", "built", "running" or "stopped"]
          enabled,   \* endpoints with an address to listen at
          handler,   \* endpoints being served
          starts, ipc,   \* attempts; generation of the IPC listener, or 0
          accept,    \* [generation -> "none", "accepting", "spinning" or "ended"]
          stopped,   \* stop channels (by generation) that are closed
          gen,       \* generation of the current stop channel
          wait,      \* [Waiter -> the channel it waits on, or 0]
          late       \* an endpoint was started through the API of a stopped node
nodeVars == <<server, p2p, dirLock, service, enabled, handler, starts, ipc, accept, stopped, gen, wait, late>>

NodeInit ==
    /\ server = FALSE /\ p2p = 0 /\ dirLock = FALSE /\ service = [s \in Service |-> "none"]
    /\ \E http, ws \in BOOLEAN : enabled = {"inproc", "ipc"} \union {e \in {"http"} : http} \union {e \in {"ws"} : ws}
    /\ handler = {} /\ starts = 0 /\ ipc = 0 /\ accept = [g \in 1 .. MaxStarts |-> "none"]
    /\ stopped = {} /\ gen = 0 /\ wait = [w \in Waiter |-> 0] /\ late = FALSE

-----------------------------------------------------------------------------
(* Start.                                                                  *)
\* Services that are built and started when Start gives up at a point.
Failed(built, started) ==
    service' = [s \in Service |-> IF s \in started THEN "stopped" ELSE IF s \in built THEN "built" ELSE service[s]]
NotStarted == UNCHANGED <<server, p2p, enabled, handler, ipc, accept, stopped, gen, late>>

\* Another process holds the directory, or this node still does after a failed Start.
OpenDataDirFails ==
    /\ ~server /\ starts < MaxStarts /\ starts' = starts + 1
    /\ NotStarted /\ UNCHANGED <<dirLock, service, wait>>
Begin == /\ ~server /\ starts < MaxStarts /\ ~dirLock /\ starts' = starts + 1 /\ dirLock' = TRUE
ConstructFails(built) ==
    /\ Begin /\ built # Service /\ Failed(built, {}) /\ NotStarted /\ UNCHANGED wait
ServerStartFails == Begin /\ Failed(Service, {}) /\ NotStarted /\ UNCHANGED wait
ServiceStartFails(started) ==
    /\ Begin /\ started # Service /\ Failed(Service, started) /\ NotStarted /\ UNCHANGED wait

\* startRPC: in order, each failure undoing the ones before it.
Taken(e) == e \in handler /\ e \in {"http", "ws"}
Before(e) == CASE e = "ipc" -> {"inproc"} [] e = "http" -> {"inproc", "ipc"} [] OTHER -> {"inproc", "ipc", "http"}
RPCFails(e) ==
    /\ Begin /\ e \in enabled /\ \A f \in Before(e) : ~Taken(f)
    /\ Failed(Service, Service) /\ handler' = handler \ Before(e)
    /\ UNCHANGED <<server, p2p, enabled, stopped, gen, late, wait>>
    /\ accept' = IF "ipc" \in Before(e) THEN [accept EXCEPT ![starts + 1] = "accepting"] ELSE accept
    /\ ipc' = 0
Start ==
    /\ Begin /\ \A e \in enabled : ~Taken(e)
    /\ service' = [s \in Service |-> "running"] /\ server' = TRUE /\ p2p' = p2p + 1
    /\ handler' = enabled /\ ipc' = starts + 1 /\ accept' = [accept EXCEPT ![starts + 1] = "accepting"]
    /\ gen' = gen + 1 /\ UNCHANGED <<enabled, stopped, wait, late>>

\* Stop: the in-process handler is left as it is.
Stop ==
    /\ server /\ server' = FALSE /\ p2p' = p2p - 1 /\ dirLock' = FALSE
    /\ service' = [s \in Service |-> "stopped"] /\ handler' = handler \cap {"inproc"} /\ ipc' = 0
    /\ stopped' = stopped \union {gen}
    /\ UNCHANGED <<enabled, starts, accept, gen, wait, late>>

-----------------------------------------------------------------------------
(* Admin calls, from a client of any endpoint that is served.              *)
StartEndpoint(e) ==
    /\ handler # {} /\ e \notin handler /\ handler' = handler \union {e} /\ enabled' = enabled \union {e}
    /\ late' = (late \/ ~server)
    /\ UNCHANGED <<server, p2p, dirLock, service, starts, ipc, accept, stopped, gen, wait>>
StopEndpoint(e) ==
    /\ handler # {} /\ e \in handler /\ handler' = handler \ {e}
    /\ UNCHANGED <<server, p2p, dirLock, service, enabled, starts, ipc, accept, stopped, gen, wait, late>>

\* The goroutine of a closed IPC listener ends if it finds none; with a new one in place it
\* goes on accepting on the closed one.
AcceptFails(g) ==
    /\ accept[g] \in {"accepting", "spinning"} /\ ipc # g
    /\ accept' = [accept EXCEPT ![g] = IF ipc = 0 THEN "ended" ELSE "spinning"]
    /\ UNCHANGED <<server, p2p, dirLock, service, enabled, handler, starts, ipc, stopped, gen, wait, late>>

Wait(w) ==
    /\ wait[w] = 0 /\ server /\ wait' = [wait EXCEPT ![w] = gen]
    /\ UNCHANGED <<server, p2p, dirLock, service, enabled, handler, starts, ipc, accept, stopped, gen, late>>
WaitEnds(w) ==
    /\ wait[w] # 0 /\ wait[w] \in stopped /\ wait' = [wait EXCEPT ![w] = 0]
    /\ UNCHANGED <<server, p2p, dirLock, service, enabled, handler, starts, ipc, accept, stopped, gen, late>>

NodeNext ==
        \/ OpenDataDirFails \/ ServerStartFails \/ Start \/ Stop
        \/ \E S \in SUBSET Service : ConstructFails(S) \/ ServiceStartFails(S)
        \/ \E e \in {"ipc", "http", "ws"} : RPCFails(e)
        \/ \E e \in {"http", "ws"} : StartEndpoint(e) \/ StopEndpoint(e)
        \/ \E g \in 1 .. MaxStarts : AcceptFails(g)
        \/ \E w \in Waiter : Wait(w) \/ WaitEnds(w)
NodeSpec == NodeInit /\ [][NodeNext]_nodeVars

-----------------------------------------------------------------------------
NodeTypeOK ==
    /\ server \in BOOLEAN /\ dirLock \in BOOLEAN /\ p2p \in 0 .. 1 /\ handler \subseteq Endpoint /\ enabled \subseteq Endpoint
    /\ ipc \in 0 .. MaxStarts /\ gen \in 0 .. MaxStarts /\ stopped \subseteq 1 .. MaxStarts

\* A running node has the p2p server, every service, the directory lock and a goroutine
\* accepting IPC connections; a stopped one, or one whose Start failed at any point, has no
\* service and no network server running and no endpoint open to the outside, unless one was
\* opened through the in-process API afterwards.  Whoever waits for the node waits for
\* something that has happened or that Stop will do (Wait, n.stop).
NodeExact ==
    /\ server => /\ p2p = 1 /\ dirLock /\ \A s \in Service : service[s] = "running"
                 /\ ipc # 0 /\ accept[ipc] # "ended" /\ {"inproc", "ipc"} \subseteq handler
    /\ ~server => /\ p2p = 0 /\ \A s \in Service : service[s] # "running"
                  /\ ipc = 0 /\ (handler \subseteq {"inproc"} \/ late)
    /\ \A w \in Waiter : wait[w] = 0 \/ wait[w] \in stopped \/ (server /\ wait[w] = gen)
=============================================================================
