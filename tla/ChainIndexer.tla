---------------------------- MODULE ChainIndexer ----------------------------
(***************************************************************************)
(* core.ChainIndexer (core/chain_indexer.go): indexer 1 is fed with the    *)
(* events of the chain, each further indexer is the child of the one       *)
(* before.  The update loop of an indexer processes a section without its  *)
(* lock, header by header, while the chain reorganises.                    *)
(*                                                                         *)
(* The canonical chain is a sequence of labels; the hash of a block is the *)
(* chain up to it, the hash before the first block is <<>>.                *)
(***************************************************************************)
EXTENDS Integers, Sequences, FiniteSets, SequencesExt, FiniteSetsExt

CONSTANTS Indexers,      \* number of indexers
          sectionSize, confirmsReq,
          Label,         \* what tells two blocks of a height apart
          MaxLength,     \* bound: length of a chain
          MaxReorgs, MaxFailures, MaxRestarts

Ids == 1 .. Indexers

VARIABLES chain,     \* the canonical chain of the database
          unposted,  \* heads whose event is not posted yet
          events,    \* the event channel
          listening, \* Start has subscribed to the events
          prev,      \* the previous header of the event loop, <<>> before it runs
          ix,        \* [Ids -> [known, stored, heads, cascaded, update, timer]]
          loop,      \* [Ids -> the update loop]
          missed,    \* [Ids -> sections whose invalidation was missed]
          left       \* [reorgs, failures, restarts] left
vars == <<chain, unposted, events, listening, prev, ix, loop, missed, left>>

Idle == [pc |-> "idle", section |-> 0, oldHead |-> <<>>, number |-> 0, lastHead |-> <<>>]
NewIndexer(heads) == [known |-> 0, stored |-> Len(heads), heads |-> heads, cascaded |-> 0, update |-> FALSE, timer |-> FALSE]
Init ==
    /\ chain = <<CHOOSE l \in Label : TRUE>>
    /\ unposted = <<>> /\ events = <<>> /\ listening = FALSE /\ prev = <<>>
    /\ ix = [i \in Ids |-> NewIndexer(<<>>)] /\ loop = [i \in Ids |-> Idle]
    /\ missed = [i \in Ids |-> {}]
    /\ left = [reorgs |-> MaxReorgs, failures |-> MaxFailures, restarts |-> MaxRestarts]

-----------------------------------------------------------------------------
(* The chain: external to the indexer.  The database changes first, the    *)
(* event of the new head follows.                                          *)
Extend ==
    /\ Len(chain) < MaxLength
    /\ chain' = Append(chain, Last(chain))
    /\ unposted' = Append(unposted, chain') /\ UNCHANGED <<events, listening, prev, ix, loop, missed, left>>
Reorg ==
    /\ left.reorgs > 0 /\ Len(chain) < MaxLength /\ left' = [left EXCEPT !.reorgs = @ - 1]
    /\ \E n \in 1 .. Len(chain) - 1, l \in Label :
          l # chain[n + 1] /\ chain' = SubSeq(chain, 1, n) \o [k \in 1 .. Len(chain) + 1 - n |-> l]
    /\ unposted' = Append(unposted, chain') /\ UNCHANGED <<events, listening, prev, ix, loop, missed>>
PostEvent ==
    /\ unposted # <<>> /\ unposted' = Tail(unposted)
    /\ events' = IF listening THEN Append(events, Head(unposted)) ELSE events
    /\ UNCHANGED <<chain, listening, prev, ix, loop, missed, left>>

-----------------------------------------------------------------------------
(* setValidSections and newHead.                                           *)
setValidSections(x, n) == [x EXCEPT !.stored = n, !.heads = SubSeq(@, 1, IF n < Len(@) THEN n ELSE Len(@))]
SectionHead(x, n) == IF n \in 1 .. Len(x.heads) THEN x.heads[n] ELSE <<>>   \* of section n - 1

Reverted(x, changed) ==
    LET y == [x EXCEPT !.known = IF changed < @ THEN changed ELSE @] IN
    IF changed < x.stored THEN setValidSections(y, changed) ELSE y
\* The indexers a reorganisation to block head reaches: each passes it on only
\* if it lies before the head it last cascaded.
RECURSIVE Reorged(_, _, _)
Reorged(xs, i, head) ==
    LET changed == head \div sectionSize
        start == changed * sectionSize
        x == Reverted(xs[i], changed)
    IN IF i > Indexers THEN xs
       ELSE IF start < x.cascaded THEN Reorged([xs EXCEPT ![i] = [x EXCEPT !.cascaded = start]], i + 1, start)
       ELSE [xs EXCEPT ![i] = x]
Advanced(x, head) ==
    LET sections == (head + 1 - confirmsReq) \div sectionSize IN
    IF head >= confirmsReq /\ sections > x.known THEN [x EXCEPT !.known = sections, !.update = TRUE] ELSE x

\* History: what a reorganisation to block head should have removed and did not,
\* as the section was in processing or the indexer was not told.
MissedBy(i, head, xs) ==
    LET valid == head \div sectionSize IN
    {n \in missed[i] : n < xs[i].stored}
    \union {n \in 0 .. xs[i].stored - 1 : n >= valid}
    \union (IF loop[i].pc # "idle" /\ loop[i].section >= valid THEN {loop[i].section} ELSE {})

-----------------------------------------------------------------------------
(* The event loop of indexer 1.                                            *)
Start ==
    /\ ~listening /\ listening' = TRUE /\ UNCHANGED <<chain, unposted, events, prev, ix, loop, missed, left>>
\* The first head: what changed while the indexer was down stays unnoticed.
StartLoop ==
    /\ listening /\ prev = <<>> /\ prev' = chain /\ ix' = [ix EXCEPT ![1] = Advanced(@, Len(chain) - 1)]
    /\ missed' = [i \in Ids |-> missed[i] \union {n \in 0 .. ix[i].stored - 1 : ~IsPrefix(ix[i].heads[n + 1], chain)}]
    /\ UNCHANGED <<chain, unposted, events, listening, loop, left>>
FindCommonAncestor(a, b) == Max({n \in 0 .. MaxLength : n <= Len(a) /\ n <= Len(b) /\ SubSeq(a, 1, n) = SubSeq(b, 1, n)}) - 1
HandleEvent ==
    /\ prev # <<>> /\ events # <<>> /\ events' = Tail(events)
    /\ LET header == Head(events)
           moved == SubSeq(header, 1, Len(header) - 1) # prev
           ancestor == FindCommonAncestor(prev, header)
           xs == IF moved THEN Reorged(ix, 1, ancestor) ELSE ix
       IN /\ ix' = [xs EXCEPT ![1] = Advanced(@, Len(header) - 1)]
          /\ missed' = IF moved THEN [i \in Ids |-> MissedBy(i, ancestor, xs)] ELSE missed
          /\ prev' = header
    /\ UNCHANGED <<chain, unposted, listening, loop, left>>

-----------------------------------------------------------------------------
(* The update loop: Begin caches the section and its predecessor under the *)
(* lock, ProcessHeader runs without it, Complete takes it again.           *)
Begin(i) ==
    /\ loop[i].pc = "idle" /\ ix[i].update
    /\ ix' = [ix EXCEPT ![i].update = FALSE]
    /\ loop' = IF ix[i].known > ix[i].stored
               THEN [loop EXCEPT ![i] = [pc |-> "reset", section |-> ix[i].stored, oldHead |-> SectionHead(ix[i], ix[i].stored),
                                         number |-> ix[i].stored * sectionSize, lastHead |-> SectionHead(ix[i], ix[i].stored)]]
               ELSE loop
    /\ UNCHANGED <<chain, unposted, events, listening, prev, missed, left>>
\* backend.Reset; its failure invalidates every section.
Reset(i) ==
    /\ loop[i].pc = "reset" /\ loop' = [loop EXCEPT ![i].pc = "process"]
    /\ UNCHANGED <<chain, unposted, events, listening, prev, ix, missed, left>>
ResetFails(i) ==
    /\ loop[i].pc = "reset" /\ left.failures > 0 /\ left' = [left EXCEPT !.failures = @ - 1]
    /\ loop' = [loop EXCEPT ![i].pc = "failed"] /\ ix' = [ix EXCEPT ![i] = setValidSections(@, 0)]
    /\ UNCHANGED <<chain, unposted, events, listening, prev, missed>>
ProcessHeader(i) ==
    /\ loop[i].pc = "process"
    /\ LET n == loop[i].number
           header == SubSeq(chain, 1, n + 1)
           failed == n >= Len(chain) \/ SubSeq(chain, 1, n) # loop[i].lastHead
       IN loop' = IF failed THEN [loop EXCEPT ![i].pc = "failed"]
                  ELSE [loop EXCEPT ![i].number = n + 1, ![i].lastHead = header,
                                    ![i].pc = IF n + 1 = (loop[i].section + 1) * sectionSize THEN "commit" ELSE "process"]
    /\ UNCHANGED <<chain, unposted, events, listening, prev, ix, missed, left>>
CommitFails(i) ==
    /\ loop[i].pc = "commit" /\ left.failures > 0 /\ left' = [left EXCEPT !.failures = @ - 1]
    /\ loop' = [loop EXCEPT ![i].pc = "failed"] /\ UNCHANGED <<chain, unposted, events, listening, prev, ix, missed>>
Rescheduled(x) == [x EXCEPT !.timer = @ \/ x.known > x.stored]
\* The check that no reorganisation removed the section before this one.
Unmoved(i) == loop[i].oldHead = SectionHead(ix[i], loop[i].section)
Completed(i) ==
    LET n == loop[i].section
        x == [setValidSections(ix[i], n) EXCEPT !.heads = Append(@, loop[i].lastHead), !.stored = n + 1,
                                                 !.cascaded = (n + 1) * sectionSize - 1]
    IN [ix EXCEPT ![i] = Rescheduled(x), ![i + 1] = Advanced(@, (n + 1) * sectionSize - 1)]
Complete(i) ==
    /\ loop[i].pc = "commit" /\ Unmoved(i)
    /\ ix' = [j \in Ids |-> Completed(i)[j]] /\ loop' = [loop EXCEPT ![i] = Idle]
    /\ UNCHANGED <<chain, unposted, events, listening, prev, missed, left>>
Fail(i) ==
    /\ loop[i].pc = "failed" \/ (loop[i].pc = "commit" /\ ~Unmoved(i))
    /\ ix' = [ix EXCEPT ![i].known = ix[i].stored] /\ loop' = [loop EXCEPT ![i] = Idle]
    /\ missed' = [missed EXCEPT ![i] = {n \in @ : n < ix[i].stored}]
    /\ UNCHANGED <<chain, unposted, events, listening, prev, left>>
\* The timer of a reschedule: a notification that is not lost if the channel is full.
Timer(i) ==
    /\ ix[i].timer /\ ix' = [ix EXCEPT ![i].timer = FALSE, ![i].update = TRUE]
    /\ UNCHANGED <<chain, unposted, events, listening, prev, loop, missed, left>>

\* The process restarts: the sections are loaded from the index database, and
\* AddChildIndexer cascades the parent's to each child.
Reloaded == [i \in Ids |->
    LET x == NewIndexer(ix[i].heads) IN
    IF i > 1 /\ ix[i - 1].stored > 0 THEN Advanced(x, ix[i - 1].stored * sectionSize - 1) ELSE x]
Restart ==
    /\ left.restarts > 0 /\ prev # <<>> /\ left' = [left EXCEPT !.restarts = @ - 1]
    /\ ix' = Reloaded /\ loop' = [i \in Ids |-> Idle] /\ prev' = <<>> /\ listening' = FALSE
    /\ events' = <<>> /\ unposted' = <<>> /\ UNCHANGED <<chain, missed>>

Update(i) == Begin(i) \/ Reset(i) \/ ResetFails(i) \/ ProcessHeader(i) \/ CommitFails(i) \/ Complete(i) \/ Fail(i) \/ Timer(i)
Next == Extend \/ Reorg \/ PostEvent \/ Start \/ StartLoop \/ HandleEvent \/ Restart \/ \E i \in Ids : Update(i)
Spec == Init /\ [][Next]_vars

-----------------------------------------------------------------------------
TypeOK == \A i \in Ids :
    /\ ix[i].known \in 0 .. MaxLength /\ ix[i].stored \in 0 .. MaxLength
    /\ loop[i].pc \in {"idle", "reset", "process", "commit", "failed"}

\* The stored sections of an indexer lie on one chain, each following the one
\* before; and once all events are handled they lie on the canonical chain,
\* but for those whose invalidation the indexer missed: the section was being
\* processed when the reorganisation came, or the parent had been restarted
\* and did not pass it on.
IndexExact == \A i \in Ids :
    /\ Len(ix[i].heads) = ix[i].stored
    /\ \A n \in 1 .. ix[i].stored : Len(ix[i].heads[n]) = n * sectionSize
    /\ \A n \in 2 .. ix[i].stored : IsPrefix(ix[i].heads[n - 1], ix[i].heads[n])
    /\ events = <<>> /\ unposted = <<>> /\ prev # <<>> =>
          \A n \in 1 .. ix[i].stored : IsPrefix(ix[i].heads[n], chain) \/ \E k \in 0 .. n - 1 : k \in missed[i]

=============================================================================
