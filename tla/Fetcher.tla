------------------------------- MODULE Fetcher -------------------------------
(***************************************************************************)
(* The block fetcher (eth/fetcher/fetcher.go): announcements of blocks are *)
(* turned into requests for headers and bodies, and blocks wait in a queue *)
(* until they fit on the chain.                                            *)
(*                                                                         *)
(* The fetcher is one goroutine; an action is one round of its loop, the   *)
(* clean-up and the imports at the head of the next round included.  Each  *)
(* import is a goroutine of its own.  Ages are not measured: any of the    *)
(* announcements may be old enough when a timer fires.                     *)
(***************************************************************************)
EXTENDS Integers, Sequences, FiniteSets, FiniteSetsExt, SequencesExt

CONSTANTS
    Peer, Hash,
    Number, Parent, Body,    \* of each block; Parent may be outside Hash
    EmptyBody,               \* the body of a block without transactions
    Invalid,                 \* blocks whose header does not verify
    Genesis,
    hashLimit, blockLimit, maxUncleDist, maxQueueDist,
    MaxNotify                \* bound: announcements

None == "none"

VARIABLES
    fetch,    \* the state of the Fetcher
    blocks,   \* blocks of the local chain
    dropped,  \* peers the fetcher has dropped
    notified  \* announcements so far

vars == <<fetch, blocks, dropped, notified>>

Init ==
    /\ fetch = [announces |-> [p \in Peer |-> 0],
                announced |-> [h \in Hash |-> <<>>],
                fetching |-> [h \in Hash |-> <<>>],      \* at most one element
                fetched |-> [h \in Hash |-> <<>>],
                completing |-> [h \in Hash |-> <<>>],    \* at most one element
                queue |-> {},
                queued |-> [h \in Hash |-> None],        \* the origin of the block
                queues |-> [p \in Peer |-> 0],
                importing |-> {}, done |-> {},           \* goroutines of insert
                quit |-> FALSE]
    /\ blocks = {Genesis} /\ dropped = {} /\ notified = 0

chainHeight == Max({IF b = Genesis THEN 0 ELSE Number[b] : b \in blocks})
TooFar(n) == n - chainHeight < -maxUncleDist \/ n - chainHeight > maxQueueDist

-----------------------------------------------------------------------------
(* Bookkeeping *)

\* The announcements of h, wherever they stand.
entries(f, h) == f.announced[h] \o f.fetching[h] \o f.fetched[h] \o f.completing[h]
counted(f, p, H) == Cardinality({<<h, i>> \in H \X (1 .. MaxNotify + 3) :
                                    i \in DOMAIN entries(f, h) /\ entries(f, h)[i].origin = p})

forgetHash(f, H) ==
    LET Without(table) == [h \in Hash |-> IF h \in H THEN <<>> ELSE table[h]] IN
    [f EXCEPT !.announces = [p \in Peer |-> @[p] - counted(f, p, H)],
              !.announced = Without(@), !.fetching = Without(@),
              !.fetched = Without(@), !.completing = Without(@)]

forgetBlock(f, H) ==
    [f EXCEPT !.queues = [p \in Peer |-> @[p] - Cardinality({h \in H : f.queued[h] = p})],
              !.queued = [h \in Hash |-> IF h \in H THEN None ELSE @[h]]]

enqueue(f, p, h, far) ==
    IF f.queues[p] + 1 > blockLimit \/ far THEN forgetHash(f, {h})
    ELSE IF f.queued[h] # None THEN f
    ELSE [f EXCEPT !.queues[p] = @ + 1, !.queued[h] = p, !.queue = @ \cup {h}]

\* The head of the loop: expired fetches are forgotten, and blocks that could
\* fit are imported, or forgotten when they are old or known.
Round(f, expired) ==
    LET g == forgetHash(f, expired)
        fits == {h \in g.queue : Number[h] <= chainHeight + 1}
        stale == {h \in fits : Number[h] + maxUncleDist < chainHeight \/ h \in blocks} IN
    forgetBlock([g EXCEPT !.queue = @ \ fits, !.importing = @ \cup (fits \ stale)], stale)

\* One round of the loop after the event that led to f.
Then(f) ==
    /\ ~fetch.quit
    /\ \E expired \in SUBSET {h \in Hash : f.fetching[h] # <<>>} : fetch' = Round(f, expired)

-----------------------------------------------------------------------------
(* Events *)

\* A peer announces block h, which it says has number n.
Notify(p, h, n) ==
    LET count == fetch.announces[p] + 1 IN
    /\ p \notin dropped /\ notified < MaxNotify
    /\ notified' = notified + 1
    /\ Then(IF count > hashLimit \/ TooFar(n) \/ fetch.fetching[h] # <<>>
               \/ fetch.completing[h] # <<>>
            THEN fetch
            ELSE [fetch EXCEPT !.announces[p] = count,
                               !.announced[h] = Append(@, [origin |-> p, number |-> n])])
    /\ UNCHANGED <<blocks, dropped>>

\* A peer propagates a whole block.
Enqueue(p, h) ==
    /\ p \notin dropped
    /\ Then(enqueue(fetch, p, h, TooFar(Number[h])))
    /\ UNCHANGED <<blocks, dropped, notified>>

\* The timer of announcements: one of the peers that announced an old hash is
\* asked for the header.
FetchTimer(old, pick) ==
    /\ \A h \in old : pick[h] \in Range(fetch.announced[h])
    /\ Then([forgetHash(fetch, old) EXCEPT
               !.fetching = [h \in Hash |-> IF h \in old \ blocks THEN <<pick[h]>> ELSE @[h]]])
    /\ UNCHANGED <<blocks, dropped, notified>>

\* The timer of fetched headers: their bodies are asked for.
CompleteTimer ==
    LET due == {h \in Hash : fetch.fetched[h] # <<>>} IN
    /\ due # {}
    /\ Then([forgetHash(fetch, due) EXCEPT
               !.completing = [h \in Hash |-> IF h \in due \ blocks THEN <<fetch.fetched[h][1]>> ELSE @[h]]])
    /\ UNCHANGED <<blocks, dropped, notified>>

\* A header arrives (the handler passes on single headers only).  The block of
\* a header without a body is complete.
FilterHeaders(p, h) ==
    LET ann == fetch.fetching[h] IN
    /\ ann # <<>> /\ ann[1].origin = p
    /\ fetch.fetched[h] = <<>> /\ fetch.completing[h] = <<>> /\ fetch.queued[h] = None
    /\ \/ /\ Number[h] # ann[1].number
          /\ dropped' = dropped \cup {p}
          /\ Then(forgetHash(fetch, {h}))
       \/ /\ Number[h] = ann[1].number /\ UNCHANGED dropped
          /\ Then(IF h \in blocks THEN forgetHash(fetch, {h})
                  ELSE IF Body[h] = EmptyBody
                  THEN enqueue([fetch EXCEPT !.completing[h] = ann], p, h, TooFar(Number[h]))
                  ELSE [fetch EXCEPT !.fetched[h] = ann])
    /\ UNCHANGED <<blocks, notified>>

complete(f, p, match, known, far) ==
    FoldSet(LAMBDA h, e : enqueue(e, p, h, h \in far), forgetHash(f, match \cap known), match \ known)

\* A body arrives and completes every block it belongs to.  A message of several
\* bodies is like several messages.
FilterBodies(p, body) ==
    LET match == {h \in Hash : /\ fetch.completing[h] # <<>> /\ fetch.queued[h] = None
                               /\ Body[h] = body /\ fetch.completing[h][1].origin = p} IN
    /\ match # {}
    /\ Then(complete(fetch, p, match, blocks, {h \in match : TooFar(Number[h])}))
    /\ UNCHANGED <<blocks, dropped, notified>>

\* The goroutine of insert: it gives up without the parent, drops the peer for
\* a bad header, and the import itself may fail.
Insert(h) ==
    /\ h \in fetch.importing
    /\ fetch' = [fetch EXCEPT !.importing = @ \ {h}, !.done = @ \cup {h}]
    /\ \/ Parent[h] \notin blocks /\ UNCHANGED <<blocks, dropped>>
       \/ /\ Parent[h] \in blocks /\ h \in Invalid
          /\ dropped' = dropped \cup {fetch.queued[h]} /\ UNCHANGED blocks
       \/ /\ Parent[h] \in blocks /\ h \notin Invalid
          /\ blocks' \in {blocks, blocks \cup {h}} /\ UNCHANGED dropped
    /\ UNCHANGED notified

Done(h) ==
    /\ h \in fetch.done
    /\ Then(forgetBlock(forgetHash([fetch EXCEPT !.done = @ \ {h}], {h}), {h}))
    /\ UNCHANGED <<blocks, dropped, notified>>

\* The downloader or the miner extends the chain.
ChainGrows(h) ==
    /\ h \notin blocks /\ Parent[h] \in blocks /\ h \notin Invalid
    /\ blocks' = blocks \cup {h}
    /\ UNCHANGED <<fetch, dropped, notified>>

Stop ==
    /\ ~fetch.quit
    /\ fetch' = [fetch EXCEPT !.quit = TRUE]
    /\ UNCHANGED <<blocks, dropped, notified>>

Next ==
    \/ \E p \in Peer, h \in Hash :
          \/ \E n \in {Number[h], Number[h] + 1} : Notify(p, h, n)
          \/ Enqueue(p, h) \/ FilterHeaders(p, h) \/ FilterBodies(p, Body[h])
    \/ \E old \in SUBSET {h \in Hash : fetch.announced[h] # <<>>} \ {{}} :
          \E pick \in [old -> [origin : Peer, number : {Number[h] + i : h \in Hash, i \in 0 .. 1}]] :
             FetchTimer(old, pick)
    \/ CompleteTimer \/ Stop
    \/ \E h \in Hash : Insert(h) \/ Done(h) \/ ChainGrows(h)

Spec == Init /\ [][Next]_vars

-----------------------------------------------------------------------------
(* Properties. *)

\* A queued block is in the queue or with exactly one import, and the allowance
\* of a peer counts exactly its queued blocks (enqueue, forgetBlock).
QueueExact ==
    /\ {h \in Hash : fetch.queued[h] # None} = fetch.queue \cup fetch.importing \cup fetch.done
    /\ fetch.queue \cap (fetch.importing \cup fetch.done) = {}
    /\ fetch.importing \cap fetch.done = {}
    /\ \A p \in Peer :
          /\ fetch.queues[p] = Cardinality({h \in Hash : fetch.queued[h] = p})
          /\ fetch.queues[p] <= blockLimit

\* A hash is requested once at a time, and what a peer has announced is never
\* counted more than once, so that a peer within its limit is listened to.
RequestsExclusive ==
    /\ \A h \in Hash :
          fetch.completing[h] # <<>> /\ fetch.queued[h] = None => fetch.fetched[h] = <<>>
    /\ \A p \in Peer : fetch.announces[p] <=
          Cardinality({<<h, i>> \in Hash \X (1 .. MaxNotify) :
                          i \in DOMAIN fetch.announced[h] /\ fetch.announced[h][i].origin = p})

=============================================================================
