--------------------------------- MODULE Trie ---------------------------------
(*****************************************************************************)
(* Package trie: its nodes, the operations on a trie, and iterators and      *)
(* proofs.                                                                   *)
(*****************************************************************************)
EXTENDS Integers, SequencesExt, FiniteSets

-----------------------------------------------------------------------------
(***************************************************************************)
(* The nodes of package trie: short, full, value and hash nodes, how they  *)
(* are loaded from the database, the key encodings, and the canonical trie *)
(* of a map.  The hash of a node stands for the content below it, so a     *)
(* hash is that content (strip) and a database is a set of contents.       *)
(* Nibbles are 0 .. MaxNibble and the terminator is 16.                    *)
(***************************************************************************)

CONSTANTS Small,       \* the values whose leaves encode to less than a hash
          MaxNibble

Index == 0 .. MaxNibble \union {16}

Nil == [t |-> "nil"]
Value(v) == [t |-> "value", v |-> v]
Hash(s) == [t |-> "hash", of |-> s]
newFlag(g) == [hash |-> FALSE, dirty |-> TRUE, gen |-> g]
Short(k, c, f) == [t |-> "short", key |-> k, val |-> c, flags |-> f]
Full(c, f) == [t |-> "full", kids |-> c, flags |-> f]

NoFlags == [hash |-> FALSE, dirty |-> FALSE, gen |-> 0]

RECURSIVE strip(_)
strip(n) == CASE n.t = "short" -> Short(n.key, strip(n.val), NoFlags)
              [] n.t = "full" -> Full([i \in Index |-> strip(n.kids[i])], NoFlags)
              [] n.t = "hash" -> n.of
              [] OTHER -> n

\* The encoding is shorter than a hash: a leaf with a small value.
Embedded(s) == s.t = "short" /\ s.val.t = "value" /\ s.val.v \in Small

keybytesToHex(k) == Append(k, 16)

prefixLen(a, b) == Len(LongestCommonPrefix({a, b}))

from(s, i) == SubSeq(s, i, Len(s))
upTo(s, i) == SubSeq(s, 1, i)

-----------------------------------------------------------------------------
(* Loading a node from the database (resolveHash, decodeNode).             *)

decodeRef(s, g) == IF s.t \in {"nil", "value"} THEN s
                   ELSE IF Embedded(s) THEN [s EXCEPT !.flags.gen = g] ELSE Hash(s)

decodeNode(s, g) ==
    IF s.t = "short" THEN Short(s.key, decodeRef(s.val, g), [NoFlags EXCEPT !.hash = TRUE, !.gen = g])
    ELSE Full([i \in Index |-> decodeRef(s.kids[i], g)], [NoFlags EXCEPT !.hash = TRUE, !.gen = g])

\* e is what the operations of a trie see of it: the readable contents, the generation.
readable(e, s) == s \in e.db

-----------------------------------------------------------------------------
(* The compact encoding of a key in a short node: the flag nibble carries  *)
(* the terminator and the parity, nibbles are packed into bytes.           *)

hasTerm(h) == h # <<>> /\ Last(h) = 16
noTerm(h) == IF hasTerm(h) THEN Front(h) ELSE h

decodeNibbles(h) == [i \in 1 .. Len(h) \div 2 |-> 16 * h[2 * i - 1] + h[2 * i]]
nibbles(b) == [i \in 1 .. 2 * Len(b) |-> IF i % 2 = 1 THEN b[(i + 1) \div 2] \div 16 ELSE b[i \div 2] % 16]

flagOf(h) == IF hasTerm(h) THEN 2 ELSE 0
hexToCompact(h) ==
    IF Len(noTerm(h)) % 2 = 1
    THEN <<16 * (flagOf(h) + 1) + h[1]>> \o decodeNibbles(Tail(noTerm(h)))
    ELSE <<16 * flagOf(h)>> \o decodeNibbles(noTerm(h))

\* base has the flag nibble first; without the terminator flag keybytesToHex's is dropped.
chopFlag(base) == from(base, IF base[1] % 2 = 1 THEN 2 ELSE 3)
compactToHex(c) ==
    chopFlag(IF nibbles(c)[1] < 2 THEN nibbles(c) ELSE keybytesToHex(nibbles(c)))

hexToKeybytes(h) == decodeNibbles(noTerm(h))

-----------------------------------------------------------------------------
(* The trie of a map, defined without insertion or deletion.               *)

RECURSIVE canon(_)
suffixes(m, i) == [k \in {Tail(x) : x \in {y \in DOMAIN m : y[1] = i}} |-> m[<<i>> \o k]]
chop(m, l) == [k \in {from(x, l + 1) : x \in DOMAIN m} |-> m[(CHOOSE y \in DOMAIN m : from(y, l + 1) = k)]]
common(m) == Len(LongestCommonPrefix(DOMAIN m))
prefixOf(m) == upTo(CHOOSE y \in DOMAIN m : TRUE, common(m))

canonFull(m) == Full([i \in Index |-> canon(suffixes(m, i))], NoFlags)
canon(m) ==
    IF DOMAIN m = {} THEN Nil
    ELSE IF DOMAIN m = {<<>>} THEN Value(m[<<>>])
    ELSE IF \E k \in DOMAIN m : DOMAIN m = {k} THEN Short(CHOOSE k \in DOMAIN m : TRUE, Value(m[CHOOSE k \in DOMAIN m : TRUE]), NoFlags)
    ELSE IF common(m) > 0 THEN Short(prefixOf(m), canonFull(chop(m, common(m))), NoFlags)
    ELSE canonFull(m)

hexMap(m) == [k \in {keybytesToHex(x) : x \in DOMAIN m} |-> m[upTo(k, Len(k) - 1)]]

RECURSIVE subnodes(_)
subnodes(n) == {n} \union (CASE n.t = "short" -> subnodes(n.val)
                             [] n.t = "full" -> UNION {subnodes(n.kids[i]) : i \in Index}
                             [] OTHER -> {})

RECURSIVE closed(_, _)
closed(d, s) == CASE s.t = "short" -> (Embedded(s) \/ s \in d) /\ closed(d, s.val)
                  [] s.t = "full" -> s \in d /\ \A i \in Index : closed(d, s.kids[i])
                  [] OTHER -> TRUE

-----------------------------------------------------------------------------
(***************************************************************************)
(* The Merkle Patricia trie of package trie: insertion, deletion and       *)
(* lookup on a tree of short, full, value and hash nodes that is loaded    *)
(* from the database on demand, hashing and commit, and the unloading of   *)
(* nodes whose cache generation is old.  The hash of a node stands for the *)
(* content below it, so a hash is that content (strip); a database is the  *)
(* set of contents stored in it.  Nibbles are 0 .. MaxNibble and the       *)
(* terminator 16.                                                          *)
(***************************************************************************)

CONSTANTS Keys,        \* keys, as sequences of nibbles without terminator
          Values,
          cachelimit,  \* cache generations kept
          MaxOps       \* bound on the operations of a behaviour

VARIABLES root, db, gen, ref, ops, lost
vars == <<root, db, gen, ref, ops, lost>>

-----------------------------------------------------------------------------
(* tryGet: the value, the node with what was resolved on the way, whether  *)
(* anything was resolved, and whether a node was missing.                  *)

RECURSIVE tryGet(_, _, _)
got(r, n) == [v |-> r.v, n |-> n, resolved |-> r.resolved, err |-> r.err]
found(v, n) == [v |-> v, n |-> n, resolved |-> FALSE, err |-> FALSE]

getShort(e, n, r) == got(r, IF ~r.err /\ r.resolved THEN [n EXCEPT !.val = r.n, !.flags.gen = e.gen] ELSE n)
getFull(e, n, i, r) == got(r, IF ~r.err /\ r.resolved THEN [n EXCEPT !.kids[i] = r.n, !.flags.gen = e.gen] ELSE n)

tryGet(e, n, key) ==
    CASE n.t = "nil" -> found(Nil, Nil)
      [] n.t = "value" -> found(n, n)
      [] n.t = "short" -> IF ~IsPrefix(n.key, key) THEN found(Nil, n)
                          ELSE getShort(e, n, tryGet(e, n.val, from(key, Len(n.key) + 1)))
      [] n.t = "full" -> getFull(e, n, key[1], tryGet(e, n.kids[key[1]], Tail(key)))
      [] n.t = "hash" -> IF ~readable(e, n.of) THEN [v |-> Nil, n |-> n, resolved |-> TRUE, err |-> TRUE]
                         ELSE [tryGet(e, decodeNode(n.of, e.gen), key) EXCEPT !.resolved = TRUE]

-----------------------------------------------------------------------------
(* insert: whether the node changed, the new node, an error.               *)

Res(d, n) == [dirty |-> d, n |-> n, err |-> FALSE]
Missing(n) == [dirty |-> FALSE, n |-> n, err |-> TRUE]

\* The parent's new node, unless nothing changed below.
lift(r, old, new) == IF r.err THEN Missing(old) ELSE IF ~r.dirty THEN Res(FALSE, old) ELSE Res(TRUE, new)

leaf(e, key, v) == IF key = <<>> THEN v ELSE Short(key, v, newFlag(e.gen))

\* A short node and a key that part after m nibbles: a branch with the two rests.
branch(e, n, key, v, m) ==
    Full([i \in Index |-> IF i = n.key[m + 1] THEN leaf(e, from(n.key, m + 2), n.val)
                          ELSE IF i = key[m + 1] THEN leaf(e, from(key, m + 2), v) ELSE Nil], newFlag(e.gen))

underPrefix(e, key, m, b) == IF m = 0 THEN b ELSE Short(upTo(key, m), b, newFlag(e.gen))

RECURSIVE insert(_, _, _, _)
insertFull(e, n, i, r) == lift(r, n, Full([n.kids EXCEPT ![i] = r.n], newFlag(e.gen)))
insertShort(e, n, r) == lift(r, n, Short(n.key, r.n, newFlag(e.gen)))

insert(e, n, key, v) ==
    IF key = <<>> THEN Res(n # v, v)
    ELSE CASE n.t = "nil" -> Res(TRUE, Short(key, v, newFlag(e.gen)))
           [] n.t = "short" ->
                IF IsPrefix(n.key, key) THEN insertShort(e, n, insert(e, n.val, from(key, Len(n.key) + 1), v))
                ELSE Res(TRUE, underPrefix(e, key, prefixLen(key, n.key),
                                           branch(e, n, key, v, prefixLen(key, n.key))))
           [] n.t = "full" -> insertFull(e, n, key[1], insert(e, n.kids[key[1]], Tail(key), v))
           [] n.t = "hash" -> IF ~readable(e, n.of) THEN Missing(Nil)
                              ELSE insert(e, decodeNode(n.of, e.gen), key, v)

-----------------------------------------------------------------------------
(* delete reduces the trie to minimal form on the way up.                  *)

merged(e, n, c) == IF c.t = "short" THEN Short(n.key \o c.key, c.val, newFlag(e.gen))
                   ELSE Short(n.key, c, newFlag(e.gen))

left(kids) == {i \in Index : kids[i].t # "nil"}

resolve(e, n) == IF n.t = "hash" THEN decodeNode(n.of, e.gen) ELSE n

\* A wrong variant: a short child is not merged.
absorbNever(e, i, c, orig) == Short(<<i>>, orig, newFlag(e.gen))

\* One child is left: its key takes the nibble in front, if it is a short node.
absorb(e, i, c, orig) == IF i # 16 /\ c.t = "short" THEN Short(<<i>> \o c.key, c.val, newFlag(e.gen))
                         ELSE Short(<<i>>, orig, newFlag(e.gen))

reduceTo(e, i, c) == IF i # 16 /\ c.t = "hash" /\ ~readable(e, c.of) THEN Missing(Nil)
                     ELSE Res(TRUE, absorb(e, i, resolve(e, c), c))

reduce(e, kids) == IF \E i \in Index : left(kids) = {i}
                   THEN LET i == CHOOSE j \in Index : left(kids) = {j} IN reduceTo(e, i, kids[i])
                   ELSE Res(TRUE, Full(kids, newFlag(e.gen)))

RECURSIVE delete(_, _, _)
deleteShort(e, n, r) == lift(r, n, IF r.dirty THEN merged(e, n, r.n) ELSE n)
deleteFull(e, n, i, r) == IF r.err \/ ~r.dirty THEN lift(r, n, n) ELSE reduce(e, [n.kids EXCEPT ![i] = r.n])

delete(e, n, key) ==
    CASE n.t = "nil" -> Res(FALSE, Nil)
      [] n.t = "value" -> Res(TRUE, Nil)
      [] n.t = "short" -> IF ~IsPrefix(n.key, key) THEN Res(FALSE, n)
                          ELSE IF n.key = key THEN Res(TRUE, Nil)
                          ELSE deleteShort(e, n, delete(e, n.val, from(key, Len(n.key) + 1)))
      [] n.t = "full" -> deleteFull(e, n, key[1], delete(e, n.kids[key[1]], Tail(key)))
      [] n.t = "hash" -> IF ~readable(e, n.of) THEN Missing(Nil)
                         ELSE delete(e, decodeNode(n.of, e.gen), key)

-----------------------------------------------------------------------------
(* hash: in commit mode nodes are stored and old clean ones are unloaded.  *)

canUnload(e, f) == ~f.dirty /\ (e.gen - f.gen) % 65536 >= cachelimit

RECURSIVE hashed(_, _, _, _)
cacheHash(n, commit, force) ==
    [n EXCEPT !.flags.hash = force \/ ~Embedded(strip(n)), !.flags.dirty = IF commit THEN FALSE ELSE @]

hashChildren(e, n, commit) ==
    IF n.t = "short" THEN [n EXCEPT !.val = hashed(e, @, commit, FALSE)]
    ELSE [n EXCEPT !.kids = [i \in Index |-> IF i = 16 THEN @[i] ELSE hashed(e, @[i], commit, FALSE)]]

\* The cached node that replaces n.
hashed(e, n, commit, force) ==
    IF n.t \notin {"short", "full"} THEN n
    ELSE IF n.flags.hash /\ ~commit THEN n
    ELSE IF n.flags.hash /\ canUnload(e, n.flags) THEN Hash(strip(n))
    ELSE IF n.flags.hash /\ ~n.flags.dirty THEN n
    ELSE cacheHash(hashChildren(e, n, commit), commit, force)

\* What a commit of n puts in the database.
RECURSIVE puts(_, _, _)
putChildren(e, n) ==
    IF n.t = "short" THEN puts(e, n.val, FALSE) ELSE UNION {puts(e, n.kids[i], FALSE) : i \in Index \ {16}}

puts(e, n, force) ==
    IF n.t \notin {"short", "full"} \/ (n.flags.hash /\ (canUnload(e, n.flags) \/ ~n.flags.dirty)) THEN {}
    ELSE putChildren(e, n) \union (IF force \/ ~Embedded(strip(n)) THEN {strip(n)} ELSE {})

-----------------------------------------------------------------------------
Env == [db |-> db \ lost, gen |-> gen]

Init == root = Nil /\ db = {} /\ gen = 0 /\ ref = <<>> /\ ops = 0 /\ lost = {}

May == ops < MaxOps /\ ops' = ops + 1

TryGet(k) ==
    /\ May
    /\ LET r == tryGet(Env, root, keybytesToHex(k)) IN root' = IF ~r.err /\ r.resolved THEN r.n ELSE root
    /\ UNCHANGED <<db, gen, ref, lost>>

TryUpdate(k, v) ==
    /\ May
    /\ LET r == insert(Env, root, keybytesToHex(k), Value(v))
       IN  IF r.err THEN UNCHANGED <<root, ref>>
           ELSE root' = r.n /\ ref' = [x \in DOMAIN ref \union {k} |-> IF x = k THEN v ELSE ref[x]]
    /\ UNCHANGED <<db, gen, lost>>

TryDelete(k) ==
    /\ May
    /\ LET r == delete(Env, root, keybytesToHex(k))
       IN  IF r.err THEN UNCHANGED <<root, ref>>
           ELSE root' = r.n /\ ref' = [x \in DOMAIN ref \ {k} |-> ref[x]]
    /\ UNCHANGED <<db, gen, lost>>

\* Hash computes and caches the hashes without storing anything.
TrieHash == May /\ root' = hashed(Env, root, FALSE, TRUE) /\ UNCHANGED <<db, gen, ref, lost>>

CommitTo ==
    /\ May
    /\ db' = db \union puts(Env, root, TRUE)
    /\ root' = hashed(Env, root, TRUE, TRUE)
    /\ gen' = gen + 1
    /\ UNCHANGED <<ref, lost>>

\* A new trie on the committed root (New), as after a restart.
New ==
    /\ May /\ strip(root) \in db \ lost
    /\ root' = decodeNode(strip(root), 0)
    /\ gen' = 0
    /\ UNCHANGED <<db, ref, lost>>

\* A stored node cannot be read (MissingNodeError).
Lose(s) == May /\ lost = {} /\ lost' = {s} /\ UNCHANGED <<root, db, gen, ref>>

Next == \/ \E k \in Keys : TryGet(k) \/ TryDelete(k) \/ \E v \in Values : TryUpdate(k, v)
        \/ TrieHash \/ CommitTo \/ New
        \/ \E s \in db : Lose(s)

Spec == Init /\ [][Next]_vars

-----------------------------------------------------------------------------
TypeOK == gen \in 0 .. MaxOps /\ ops \in 0 .. MaxOps /\ DOMAIN ref \subseteq Keys

\* The trie is the canonical trie of the map written, whatever the order of the
\* insertions and deletions, what was loaded, unloaded, hashed or could not be read:
\* equal maps have equal roots, and a failed operation changes nothing (trie.go).
Canonical == strip(root) = canon(hexMap(ref))

\* A node that memory no longer holds, or holds as clean, is in the database with
\* everything below it (hasher.go: store, canUnload; the dirty flag).
CleanIsStored ==
    \A n \in subnodes(root) :
        /\ n.t = "hash" => closed(db, n.of)
        /\ n.t \in {"short", "full"} /\ ~n.flags.dirty /\ n.flags.hash => closed(db, strip(n))

-----------------------------------------------------------------------------
(***************************************************************************)
(* The iterators of package trie over loaded tries: the node iterator with *)
(* its stack, seek and retry after a missing node, and the difference,     *)
(* union and prefix iterators built on it; Merkle proofs and their         *)
(* verification.  An iterator is a record; Next of each is an operator.    *)
(***************************************************************************)

CONSTANTS Maps,      \* the contents of the tries, as maps from keys
          Starts,    \* keys to seek
          Kinds      \* the iterators started, out of "node", "prefix", "difference", "union", "proof"

VARIABLES kind, maps, start, its, missing, at, done, seen, skipped, byHash
itVars == <<kind, maps, start, its, missing, at, done, seen, skipped, byHash>>

End == "end"    Failed == "missing"    SeekFailed == "seek"    OK == "ok"

NoHash == Nil
hashOf(n) == IF n.t = "hash" THEN n.of
             ELSE IF n.t \in {"short", "full"} /\ n.flags.hash THEN strip(n) ELSE NoHash

newIterator(r) == [root |-> r, stack |-> <<>>, path |-> <<>>, err |-> OK]

state(h, n, len) == [hash |-> h, node |-> n, index |-> -1, pathlen |-> len]

pop(it) == [it EXCEPT !.path = upTo(@, Last(it.stack).pathlen), !.stack = Front(@)]

push(it, st, path) ==
    [it EXCEPT !.path = path,
               !.stack = (IF @ = <<>> THEN @ ELSE [@ EXCEPT ![Len(@)].index = @ + 1]) \o <<st>>]

\* state.resolve, with the contents that cannot be read.
resolvable(gone, st) == st.node.t # "hash" \/ st.node.of \notin gone
resolved(st) == IF st.node.t = "hash" THEN [st EXCEPT !.node = decodeNode(st.node.of, 0), !.hash = st.node.of] ELSE st

\* nextChild: the child to visit after index, if any.
childIndexes(st) ==
    CASE st.node.t = "full" -> {i \in Index : i > st.index /\ st.node.kids[i].t # "nil"}
      [] st.node.t = "short" -> IF st.index < 0 THEN {0} ELSE {}
      [] OTHER -> {}
firstOf(S) == CHOOSE i \in S : \A j \in S : i <= j
child(st, i) == IF st.node.t = "full" THEN st.node.kids[i] ELSE st.node.val
step(st, i) == IF st.node.t = "full" THEN <<i>> ELSE st.node.key
before(it, i) == IF Last(it.stack).node.t = "full"
                 THEN [it EXCEPT !.stack[Len(it.stack)].index = i - 1] ELSE it

Peek(it, st, path, err) == [it |-> it, st |-> st, path |-> path, err |-> err]

descendTo(it, gone, i, st) ==
    Peek(before(it, i), resolved(st), it.path \o step(Last(it.stack), i), IF resolvable(gone, st) THEN OK ELSE Failed)

RECURSIVE climb(_, _)
climb(it, gone) ==
    IF it.stack = <<>> THEN Peek(it, state(Nil, Nil, 0), <<>>, End)
    ELSE IF childIndexes(Last(it.stack)) = {} THEN climb(pop(it), gone)
    ELSE LET i == firstOf(childIndexes(Last(it.stack)))
             c == child(Last(it.stack), i)
         IN  descendTo(it, gone, i, state(hashOf(c), c, Len(it.path)))

peek(it, gone, descend) ==
    IF it.stack = <<>> THEN LET st == state(strip(it.root), it.root, 0)
                            IN  Peek(it, resolved(st), <<>>, IF resolvable(gone, st) THEN OK ELSE Failed)
    ELSE climb(IF descend THEN it ELSE pop(it), gone)

\* bytes.Compare
Less(a, b) == a # b /\ (IsPrefix(a, b) \/ \E i \in 1 .. Len(a) : i <= Len(b) /\ upTo(a, i - 1) = upTo(b, i - 1) /\ a[i] < b[i])

RECURSIVE seek(_, _, _)
seekOn(p, gone, key) ==
    IF p.err = End THEN [p.it EXCEPT !.err = End]
    ELSE IF p.err # OK THEN [p.it EXCEPT !.err = SeekFailed]
    ELSE IF ~Less(p.path, key) THEN [p.it EXCEPT !.err = OK]
    ELSE seek(push(p.it, p.st, p.path), gone, key)
seek(it, gone, key) == seekOn(peek(it, gone, IsPrefix(it.path, key)), gone, key)

advance(p) == IF p.err # OK THEN [p.it EXCEPT !.err = p.err] ELSE [push(p.it, p.st, p.path) EXCEPT !.err = OK]
stepOn(it, gone, descend) == IF it.err \in {End, SeekFailed} THEN it ELSE advance(peek(it, gone, descend))
Next_(it, gone, descend, key) ==
    stepOn(IF it.err = SeekFailed THEN seek(it, gone, key) ELSE it, gone, descend)

Moved(it) == it.err = OK

Leaf(it) == hasTerm(it.path)
Top(it) == IF it.stack = <<>> THEN state(NoHash, Nil, 0) ELSE Last(it.stack)
Node(it) == [path |-> it.path, hash |-> Top(it).hash, blob |-> IF Leaf(it) THEN Top(it).node ELSE Nil]

-----------------------------------------------------------------------------
(* compareNodes: by path, then by hash, then by the value of a leaf.  The  *)
(* order of two hashes is that of their contents' encodings, or (order =   *)
(* FALSE) its reverse; no hash comes before every hash.                    *)

RECURSIVE enc(_)
enc(s) == CASE s.t = "nil" -> <<0>>
            [] s.t = "value" -> <<1, s.v>>
            [] s.t = "short" -> <<2, Len(s.key)>> \o s.key \o enc(s.val)
            [] OTHER -> <<3>> \o FlattenSeq([i \in 1 .. MaxNibble + 2 |-> enc(s.kids[IF i = MaxNibble + 2 THEN 16 ELSE i - 1])])

hashLess(order, a, b) == IF NoHash \in {a, b} THEN a = NoHash ELSE Less(enc(a), enc(b)) = order
sign(x) == IF x < 0 THEN -1 ELSE IF x > 0 THEN 1 ELSE 0

compareNodes(order, a, b) ==
    IF a.path # b.path THEN (IF Less(a.path, b.path) THEN -1 ELSE 1)
    ELSE IF a.hash # b.hash THEN (IF hashLess(order, a.hash, b.hash) THEN -1 ELSE 1)
    ELSE IF a.blob = b.blob THEN 0 ELSE sign(a.blob.v - b.blob.v)

\* it = [a, b, eof]: NewDifferenceIterator has advanced a.
forward(it) == Next_(it, {}, TRUE, <<>>)
past(it, n) == Next_(it, {}, n.hash = NoHash, <<>>)

RECURSIVE scan(_, _)
differAfter(order, d, n) ==
    IF ~Moved(n.b) THEN [d EXCEPT !.b = n.b]
    ELSE IF ~Moved(n.a) THEN [a |-> n.a, b |-> n.b, eof |-> TRUE]
    ELSE scan(order, n)
scan(order, d) ==
    CASE compareNodes(order, Node(d.a), Node(d.b)) = -1 ->
            (IF Moved(forward(d.a)) THEN scan(order, [d EXCEPT !.a = forward(d.a)]) ELSE [d EXCEPT !.a = forward(d.a), !.eof = TRUE])
      [] compareNodes(order, Node(d.a), Node(d.b)) = 1 -> d
      [] OTHER -> differAfter(order, d, [d EXCEPT !.a = past(d.a, Node(d.a)), !.b = past(d.b, Node(d.a))])

differenceNext(order, d) ==
    IF ~Moved(forward(d.b)) \/ d.eof THEN [d EXCEPT !.b = forward(d.b)]
    ELSE scan(order, [d EXCEPT !.b = forward(d.b)])

\* A union is the set of its iterators, numbered; least is heap.Pop.
leastOf(order, u) == CHOOSE i \in DOMAIN u : \A j \in DOMAIN u \ {i} :
    compareNodes(order, Node(u[i]), Node(u[j])) < (IF i < j THEN 1 ELSE 0)
drop(u, i) == [j \in DOMAIN u \ {i} |-> u[j]]
pushBack(u, i, it) == IF Moved(it) THEN [j \in DOMAIN u \union {i} |-> IF j = i THEN it ELSE u[j]] ELSE drop(u, i)

mustSkip(order, least, other, descend) ==
    \/ ~descend /\ IsPrefix(least.path, other.path)
    \/ compareNodes(order, Node(least), Node(other)) = 0

RECURSIVE skipSame(_, _, _, _)
skipOne(order, u, least, descend, i) ==
    IF mustSkip(order, least, u[i], descend) THEN skipSame(order, pushBack(u, i, past(u[i], Node(u[i]))), least, descend) ELSE u
skipSame(order, u, least, descend) == IF DOMAIN u = {} THEN u ELSE skipOne(order, u, least, descend, leastOf(order, u))

unionStep(order, u, i, descend) ==
    pushBack(skipSame(order, drop(u, i), u[i], descend), i, Next_(u[i], {}, descend, <<>>))
unionNext(order, u, descend) == unionStep(order, u, leastOf(order, u), descend)

-----------------------------------------------------------------------------
(* Prove collects the stored nodes on the path of a key; VerifyProof       *)
(* follows the hashes from the root through them.                          *)

RECURSIVE proofNodes(_, _)
proofNodes(n, key) ==
    CASE key = <<>> \/ n.t \in {"nil", "value"} -> <<>>
      [] n.t = "short" -> <<n>> \o (IF IsPrefix(n.key, key) THEN proofNodes(n.val, from(key, Len(n.key) + 1)) ELSE <<>>)
      [] n.t = "full" -> <<n>> \o proofNodes(n.kids[key[1]], Tail(key))
Prove(content, key) == {n \in ToSet(proofNodes(content, key)) : n = content \/ ~Embedded(n)}

RECURSIVE get(_, _)
get(n, key) ==
    CASE n.t = "short" -> IF IsPrefix(n.key, key) THEN get(n.val, from(key, Len(n.key) + 1)) ELSE [n |-> Nil, rest |-> <<>>]
      [] n.t = "full" -> get(n.kids[key[1]], Tail(key))
      [] OTHER -> [n |-> n, rest |-> key]

NoNode == [t |-> "error"]
RECURSIVE VerifyProof(_, _, _)
verifyOn(g, proof) == IF g.n.t = "hash" THEN VerifyProof(g.n.of, g.rest, proof) ELSE g.n
VerifyProof(want, key, proof) == IF want \notin proof THEN NoNode ELSE verifyOn(get(decodeNode(want, 0), key), proof)

-----------------------------------------------------------------------------
(* The behaviours: one iterator is started on one or two tries and stepped *)
(* to its end.                                                             *)

content(m) == canon(hexMap(m))
loaded(m) == IF content(m) = Nil THEN Nil ELSE decodeNode(content(m), 0)

begin(k, r1, r2) ==
    CASE k \in {"node", "prefix"} -> <<seek(newIterator(r1), missing, start)>>
      [] k = "difference" -> <<forward(newIterator(r1)), newIterator(r2)>>
      [] k = "union" -> <<newIterator(r1), newIterator(r2)>>
      [] OTHER -> <<>>

ItInit ==
    /\ kind \in Kinds
    /\ maps \in Maps \X Maps
    /\ kind \in {"node", "prefix"} => maps[1] = maps[2]
    /\ start \in IF kind \in {"node", "prefix", "proof"} THEN Starts ELSE {<<>>}
    /\ missing \in {{}} \union (IF kind = "node" THEN {{s} : s \in subnodes(content(maps[1]))} ELSE {})
    /\ its = begin(kind, loaded(maps[1]), loaded(maps[2]))
    /\ byHash \in IF kind \in {"difference", "union"} THEN BOOLEAN ELSE {TRUE}
    /\ at = <<>> /\ seen = {} /\ skipped = {} /\ done = FALSE

yields(it) == seen' = seen \union {Node(it)} /\ at' = it.path

\* nodeIterator.Next; after a failure iteration is resumed with descend = true.
NodeNext(descend) ==
    /\ kind = "node" /\ ~done /\ (its[1].err # OK \/ seen = {} => descend)
    /\ LET it == Next_(its[1], missing, descend, start)
       IN  /\ its' = <<it>>
           /\ IF Moved(it) THEN yields(it) ELSE UNCHANGED <<seen, at>>
           /\ done' = (it.err = End)
    /\ skipped' = IF descend THEN skipped ELSE skipped \union {at}
    /\ UNCHANGED <<kind, maps, start, byHash, missing>>

\* A content becomes unreadable, once, and readable again.
ItLose(s) == kind = "node" /\ ~done /\ missing = {} /\ missing' = {s} /\ UNCHANGED <<kind, maps, start, its, at, done, seen, skipped, byHash>>
Restore == missing # {} /\ missing' = {} /\ UNCHANGED <<kind, maps, start, its, at, done, seen, skipped, byHash>>

\* prefixIterator.Next stops at the first node without the prefix.
PrefixNext ==
    /\ kind = "prefix" /\ ~done
    /\ LET it == Next_(its[1], {}, TRUE, start)
       IN  /\ its' = <<it>>
           /\ IF Moved(it) /\ IsPrefix(start, it.path) THEN yields(it) /\ UNCHANGED done
              ELSE done' = TRUE /\ UNCHANGED <<seen, at>>
    /\ UNCHANGED <<kind, maps, start, byHash, missing, skipped>>

eofOf(d) == Len(d) = 3
asPair(d) == IF d.eof THEN <<d.a, d.b, d.a>> ELSE <<d.a, d.b>>

DifferenceNext ==
    /\ kind = "difference" /\ ~done
    /\ LET d == differenceNext(byHash, [a |-> its[1], b |-> its[2], eof |-> eofOf(its)])
       IN  /\ its' = asPair(d)
           /\ IF Moved(d.b) THEN yields(d.b) /\ UNCHANGED done ELSE done' = TRUE /\ UNCHANGED <<seen, at>>
    /\ UNCHANGED <<kind, maps, start, byHash, missing, skipped>>

live(s) == [i \in {j \in DOMAIN s : s[j].err = OK} |-> s[i]]
asSeq(u) == [i \in 1 .. 2 |-> IF i \in DOMAIN u THEN u[i] ELSE [newIterator(Nil) EXCEPT !.err = End]]

UnionNext ==
    /\ kind = "union" /\ ~done
    /\ LET u == unionNext(byHash, live(its), TRUE)
       IN  /\ its' = asSeq(u)
           /\ IF DOMAIN u = {} THEN done' = TRUE /\ UNCHANGED <<seen, at>>
              ELSE yields(u[leastOf(byHash, u)]) /\ UNCHANGED done
    /\ UNCHANGED <<kind, maps, start, byHash, missing, skipped>>

ItNext == \/ \E d \in BOOLEAN : NodeNext(d)
          \/ \E s \in subnodes(content(maps[1])) : ItLose(s)
          \/ Restore \/ PrefixNext \/ DifferenceNext \/ UnionNext

ItSpec == ItInit /\ [][ItNext]_itVars

-----------------------------------------------------------------------------
(* The reference: the nodes of a content with their paths.                 *)

RECURSIVE nodesAt(_, _, _)
nodesAt(s, path, top) ==
    {[path |-> path, hash |-> IF s.t \in {"nil", "value"} \/ (~top /\ Embedded(s)) THEN NoHash ELSE s,
      blob |-> IF s.t = "value" THEN s ELSE Nil]}
    \union (CASE s.t = "short" -> nodesAt(s.val, path \o s.key, FALSE)
              [] s.t = "full" -> UNION {nodesAt(s.kids[i], Append(path, i), FALSE) : i \in {j \in Index : s.kids[j].t # "nil"}}
              [] OTHER -> {})
\* The root of an empty trie is no node, though some iterators stop at it.
EmptyRoot == [path |-> <<>>, hash |-> NoHash, blob |-> Nil]
nodes(m) == nodesAt(content(m), <<>>, TRUE) \ {EmptyRoot}

ItTypeOK == kind \in Kinds /\ done \in BOOLEAN /\ Cardinality(missing) <= 1

\* Nothing is yielded that the tries do not hold, and an iterator that was stepped to
\* its end yielded all it promises: every node from the start key on, whatever could
\* not be read in between; every node below a prefix; the nodes of b that are not in
\* a; the nodes of both (iterator.go).
Expected ==
    CASE kind = "node" -> {n \in nodes(maps[1]) : ~Less(n.path, start)}
      [] kind = "prefix" -> {n \in nodes(maps[1]) : IsPrefix(start, n.path)}
      [] kind = "difference" -> nodes(maps[2]) \ nodes(maps[1])
      [] kind = "union" -> nodes(maps[1]) \union nodes(maps[2])
      [] OTHER -> {}
below == {n \in nodes(maps[1]) : \E p \in skipped : IsPrefix(p, n.path) /\ p # n.path}
IterationExact ==
    /\ seen \ {EmptyRoot} \subseteq Expected \ below
    /\ done => Expected \ below \subseteq seen

\* A proof made for a key shows its value, or that it has none; a part of it, or a
\* proof from another trie, never shows anything else (proof.go).
ProofSound ==
    kind = "proof" =>
        LET c == content(maps[1])
            key == keybytesToHex(start)
            value == get(c, key).n
        IN  /\ c # Nil => VerifyProof(c, key, Prove(c, key)) = value
            /\ \A p \in SUBSET (Prove(c, key) \union Prove(content(maps[2]), key)) :
                  VerifyProof(c, key, p) \in {value, NoNode}

\* The key encodings lose nothing on the paths of a trie (encoding.go).
EncodingExact ==
    \A it \in ToSet(its) :
        /\ compactToHex(hexToCompact(it.path)) = it.path
        /\ Leaf(it) => nibbles(hexToKeybytes(it.path)) = noTerm(it.path)
=============================================================================
