------------------------------- MODULE Filters --------------------------------
(*****************************************************************************)
(* Log filters: the event system with the filters of the API, and the        *)
(* search of a range of blocks through bloom bits.                           *)
(*****************************************************************************)
EXTENDS Integers, Sequences, FiniteSets, SequencesExt

-----------------------------------------------------------------------------
(***************************************************************************)
(* A search for logs over a range of blocks: Filter.Logs                    *)
(* (src/pkg/eth/filters/filter.go) takes the indexed part from the          *)
(* daisy-chained sub-matchers of bloombits.Matcher                          *)
(* (src/pkg/core/bloombits/matcher.go) over the bit columns a Generator     *)
(* rotated (generator.go, src/pkg/eth/bloombits.go), and goes through the   *)
(* rest header by header.  The chain grows and the index advances while the *)
(* search runs; a retrieval of bits may fail.                               *)
(***************************************************************************)

CONSTANTS Chain,         \* block number + 1 -> the logs of the block, in order
          BloomBits,     \* address or topic -> the bits of its hash
          Queries,       \* what may be asked: [begin, end, addresses, topics]
          FirstHead,     \* the head when the search begins
          sectionSize,   \* blocks of a section
          Byte,          \* blocks of one byte of a column; divides sectionSize
          Bit            \* the bits of a bloom

VARIABLES head, gen, stored,       \* chain; Generator; bit columns in the database
          query, begin, end, last, \* the search; last: where the indexed part ends
          phase, stages, matches, logs, err
searchVars == <<head, gen, stored, query, begin, end, last, phase, stages, matches, logs, err>>

Log == UNION {ToSet(Chain[n]) : n \in DOMAIN Chain}
LogsOf(n) == Chain[n + 1]

\* CreateBloom, LogsBloom: all bits of the addresses and topics.
LogsBloom(log) == UNION {BloomBits[x] : x \in {log.address} \cup ToSet(log.topics)}
CreateBloom(n) == UNION {LogsBloom(log) : log \in ToSet(LogsOf(n))}
BloomLookup(bloom, x) == BloomBits[x] \subseteq bloom

bloomFilter(bloom) ==
  /\ query.addresses # {} => \E a \in query.addresses : BloomLookup(bloom, a)
  /\ \A i \in DOMAIN query.topics :
       query.topics[i] # {} => \E t \in query.topics[i] : BloomLookup(bloom, t)

\* Mutant: the positions of the topics are not looked at.
passesAnywhere(log) ==
  /\ query.addresses # {} => log.address \in query.addresses
  /\ \A i \in DOMAIN query.topics : query.topics[i] # {} => query.topics[i] \cap ToSet(log.topics) # {}

passes(log) ==
  /\ query.addresses # {} => log.address \in query.addresses
  /\ Len(query.topics) <= Len(log.topics)
  /\ \A i \in DOMAIN query.topics : query.topics[i] # {} => log.topics[i] \in query.topics[i]

filterLogs(n) == SelectSeq(LogsOf(n), passes)

\* New and NewMatcher: one rule per non-empty clause, the address rule first.
Rules == SelectSeq((IF query.addresses = {} THEN <<>> ELSE <<query.addresses>>) \o query.topics,
                   LAMBDA clause : clause # {})

-----------------------------------------------------------------------------
SearchInit ==
  /\ head = FirstHead /\ stored = [s \in {} |-> {}]
  /\ gen = [nextBit |-> 0, blooms |-> [b \in Bit |-> {}]]
  /\ query \in Queries /\ begin = query.begin /\ end = query.end /\ last = 0
  /\ phase = "new" /\ stages = <<>> /\ matches = <<>> /\ logs = <<>> /\ err = FALSE

\* The chain matters until the search has ended.
Grow == /\ phase # "done" /\ head + 1 < Len(Chain) /\ head' = head + 1
        /\ UNCHANGED <<gen, stored, query, begin, end, last, phase, stages, matches, logs, err>>

Sections == Cardinality(DOMAIN stored)

\* BloomIndexer.Process and Generator.AddBloom: position nextBit is set in the
\* column of every bit of the bloom.
AddBloom ==
  /\ gen.nextBit < sectionSize
  /\ (Sections + 1) * sectionSize - 1 <= head
  /\ gen' = [nextBit |-> gen.nextBit + 1,
             blooms |-> [b \in Bit |-> IF b \in CreateBloom(Sections * sectionSize + gen.nextBit)
                                       THEN gen.blooms[b] \cup {gen.nextBit} ELSE gen.blooms[b]]]
  /\ UNCHANGED <<head, stored, query, begin, end, last, phase, stages, matches, logs, err>>

\* BloomIndexer.Commit writes all columns; Reset makes a new generator.
Commit ==
  /\ gen.nextBit = sectionSize
  /\ stored' = [s \in DOMAIN stored \cup {Sections} |-> IF s = Sections THEN gen.blooms ELSE stored[s]]
  /\ gen' = [nextBit |-> 0, blooms |-> [b \in Bit |-> {}]]
  /\ UNCHANGED <<head, query, begin, end, last, phase, stages, matches, logs, err>>

-----------------------------------------------------------------------------
IndexedUpTo(e) == IF Sections * sectionSize > e THEN e ELSE Sections * sectionSize - 1

\* Filter.Logs: the limits of the range and what of it is indexed; run feeds
\* the sections of the range with all their blocks.
Start(b, e) ==
  /\ begin' = b /\ end' = e
  /\ IF Sections * sectionSize > b
     THEN /\ phase' = "indexed" /\ last' = IndexedUpTo(e)
          /\ stages' = [k \in 1 .. Len(Rules) + 1 |->
               IF k > 1 THEN <<>>
               ELSE [i \in 1 .. (IndexedUpTo(e) \div sectionSize - b \div sectionSize + 1) |->
                       [section |-> b \div sectionSize + i - 1, bitset |-> 0 .. sectionSize - 1]]]
     ELSE phase' = "unindexed" /\ UNCHANGED <<last, stages>>

Logs ==
  /\ phase = "new"
  /\ Start(IF begin = -1 THEN head ELSE begin, IF end = -1 THEN head ELSE end)
  /\ UNCHANGED <<head, gen, stored, query, matches, logs, err>>

\* subMatch: the blocks with all bits of one of the clauses, of those the links
\* before left; a section without any goes no further.
MatchedBy(rule, section) ==
  UNION {{p \in 0 .. sectionSize - 1 : \A b \in BloomBits[x] : p \in stored[section][b]} : x \in rule}

Passed(k, sub, set) ==
  stages' = [stages EXCEPT ![k] = Tail(@),
                           ![k + 1] = IF set = {} THEN @ ELSE Append(@, [section |-> sub.section, bitset |-> set])]

subMatch(k) ==
  /\ phase = "indexed" /\ k \in 1 .. Len(Rules) /\ stages[k] # <<>>
  /\ Passed(k, Head(stages[k]), MatchedBy(Rules[k], Head(stages[k]).section) \cap Head(stages[k]).bitset)
  /\ UNCHANGED <<head, gen, stored, query, begin, end, last, phase, matches, logs, err>>

\* The loop of Start passes over a byte without matches at once when it is at
\* its first block, and block by block otherwise.
Skipped(i, start, bitset) ==
  \A p \in 0 .. sectionSize - 1 : p \div Byte = (i - start) \div Byte => p \notin bitset

FirstOf(sub) == IF begin > sub.section * sectionSize THEN begin ELSE sub.section * sectionSize
LastOf(sub) == IF last < (sub.section + 1) * sectionSize - 1 THEN last ELSE (sub.section + 1) * sectionSize - 1

Numbers(sub, first) ==
  SelectSeq([i \in 1 .. LastOf(sub) - first + 1 |-> first + i - 1],
            LAMBDA i : ~Skipped(i, sub.section * sectionSize, sub.bitset)
                       /\ i - sub.section * sectionSize \in sub.bitset)

\* The blocks of a section that came through, within the range asked for.
\* matches is a buffered channel; begin is fixed for the session, so it is
\* read before anything of it is taken.
Deliver ==
  /\ phase = "indexed" /\ stages[Len(stages)] # <<>> /\ matches = <<>>
  /\ matches' = Numbers(Head(stages[Len(stages)]), FirstOf(Head(stages[Len(stages)])))
  /\ stages' = [stages EXCEPT ![Len(stages)] = Tail(@)]
  /\ UNCHANGED <<head, gen, stored, query, begin, end, last, phase, logs, err>>

\* A block number from the matcher: pull its truly matching logs.
TakeMatch ==
  /\ phase = "indexed" /\ matches # <<>>
  /\ matches' = Tail(matches)
  /\ begin' = Head(matches) + 1
  /\ logs' = logs \o filterLogs(Head(matches))
  /\ UNCHANGED <<head, gen, stored, query, end, last, phase, stages, err>>

\* The channel is closed without an error: go on behind the index.
AllMatched ==
  /\ phase = "indexed" /\ matches = <<>> /\ \A k \in DOMAIN stages : stages[k] = <<>>
  /\ begin' = last + 1 /\ phase' = "unindexed"
  /\ UNCHANGED <<head, gen, stored, query, end, last, stages, matches, logs, err>>

\* A retrieval failed, or the context ended: what was found so far is returned.
SessionFails ==
  /\ phase = "indexed" /\ \E k \in 1 .. Len(Rules) : stages[k] # <<>>
  /\ phase' = "done" /\ err' = TRUE
  /\ UNCHANGED <<head, gen, stored, query, begin, end, last, stages, matches, logs>>

\* One round of unindexedLogs; a header that does not exist ends it.
unindexedLogs ==
  /\ phase = "unindexed"
  /\ IF begin <= end /\ begin <= head
     THEN /\ logs' = IF bloomFilter(CreateBloom(begin)) THEN logs \o filterLogs(begin) ELSE logs
          /\ begin' = begin + 1 /\ UNCHANGED phase
     ELSE phase' = "done" /\ UNCHANGED <<begin, logs>>
  /\ UNCHANGED <<head, gen, stored, query, end, last, stages, matches, err>>

SearchNext == \/ Grow \/ AddBloom \/ Commit \/ Logs \/ Deliver \/ TakeMatch \/ AllMatched \/ SessionFails
              \/ unindexedLogs \/ \E k \in 1 .. Len(Rules) : subMatch(k)

SearchSpec == SearchInit /\ [][SearchNext]_searchVars

-----------------------------------------------------------------------------
SearchTypeOK == /\ head \in 0 .. Len(Chain) - 1 /\ gen.nextBit \in 0 .. sectionSize
                /\ ToSet(logs) \subseteq Log /\ err \in BOOLEAN

\* The logs of blocks from .. to that the query asks for, by its definition.
SearchWanted(log) ==
  /\ query.addresses = {} \/ log.address \in query.addresses
  /\ \A i \in DOMAIN query.topics : query.topics[i] = {} \/ (i \in DOMAIN log.topics /\ log.topics[i] \in query.topics[i])
Reference(from, to) ==
  FlattenSeq([i \in 1 .. (IF to < from THEN 0 ELSE to - from + 1) |-> SelectSeq(LogsOf(from + i - 1), SearchWanted)])

\* Whatever of the range came from the index and whatever from headers, and
\* however far index and chain advanced meanwhile: the logs found are exactly
\* those of the blocks from the first asked for up to the one before begin, each
\* once and in order; and a search that ends without an error has reached the
\* end of the range or of the chain.
SearchExact ==
  phase # "new" =>
    /\ \E from \in (IF query.begin = -1 THEN FirstHead .. head ELSE {query.begin}) :
          logs = Reference(from, begin - 1)
    /\ phase = "done" /\ ~err => begin > end \/ begin > head

-----------------------------------------------------------------------------
(***************************************************************************)
(* Filters and subscriptions of the JSON-RPC interface                     *)
(* (eth/filters/filter_system.go and api.go): the event loop broadcasts    *)
(* chain events to the installed subscriptions over unbuffered channels, a *)
(* goroutine per filter collects them under the mutex of the API, clients  *)
(* poll and uninstall filters, and a loop removes the ones nobody polls.   *)
(*                                                                         *)
(* An event is its kind and the moment n it was posted, which is also the  *)
(* number of its block.  Only timeoutLoop holds filtersMu across steps.    *)
(***************************************************************************)

CONSTANTS Filter,
          Config,     \* [Filter -> [mode: "poll" or "push", kind: "tx", "blocks" or "logs", from, to]]
          Kind,       \* the kinds of events posted: "logs", "removed", "pending", "tx", "chain"
          MaxEvents

Latest == -1
Pending == -2
None == "none"

\* The index a log subscription goes to, by its range of blocks.
SubscribeLogs(from, to) ==
    IF from = Pending /\ to = Pending THEN "pending"
    ELSE IF from >= Latest /\ to = Pending THEN "minedpending"
    ELSE IF \/ from = Latest /\ to = Latest
            \/ from >= 0 /\ to >= 0 /\ to >= from
            \/ from >= 0 /\ to = Latest THEN "logs"
    ELSE "invalid"
typ(f) == IF Config[f].kind = "logs" THEN SubscribeLogs(Config[f].from, Config[f].to) ELSE Config[f].kind

VARIABLES posted,     \* events posted so far
          chan,       \* [Kind -> queue of events the loop has not taken]
          index,      \* the loop's filterIndex: [bucket -> set of filters]
          loop,       \* eventLoop: [pc, ev, left, to]: the subscription it is sending to, and those after it
          sub,        \* [Filter -> "none", "installing", "installed", "uninstalled" or "invalid"]
          created,    \* [Filter -> posted when it subscribed]
          filters,    \* api.filters: [registered filter -> events collected]
          cons,       \* [Filter -> goroutine of the filter: [pc, item]]
          unsub,      \* [Filter -> Unsubscribe: "none", "drain" or "done"]
          fired,      \* filters whose deadline has expired
          tl,         \* timeoutLoop: [pc, todo, at]
          got,        \* history: events handed to the client
          due         \* history: events a subscription should have got
vars == <<posted, chan, index, loop, sub, created, filters, cons, unsub, fired, tl, got, due>>

Buckets == {"logs", "pending", "tx", "blocks"}
Idle == [pc |-> "select", ev |-> None, left |-> {}, to |-> None]
Init ==
    /\ posted = 0 /\ chan = [k \in Kind |-> <<>>] /\ index = [b \in Buckets |-> {}] /\ loop = Idle
    /\ sub = [f \in Filter |-> "none"] /\ created = [f \in Filter |-> 0] /\ filters = <<>>
    /\ cons = [f \in Filter |-> [pc |-> "none", item |-> None]] /\ unsub = [f \in Filter |-> "none"]
    /\ fired = {} /\ tl = [pc |-> "idle", todo |-> {}, at |-> None]
    /\ got = [f \in Filter |-> <<>>] /\ due = [f \in Filter |-> <<>>]

unlocked == tl.pc = "idle"
\* The buckets a subscription is filed in.
buckets(f) == IF typ(f) = "minedpending" THEN {"logs", "pending"} ELSE {typ(f)}

-----------------------------------------------------------------------------
(* The event loop.                                                         *)
Post(k) ==
    /\ posted < MaxEvents /\ posted' = posted + 1
    /\ chan' = [chan EXCEPT ![k] = Append(@, [kind |-> k, n |-> posted + 1])]
    /\ UNCHANGED <<index, loop, sub, created, filters, cons, unsub, fired, tl, got, due>>

BucketOf(k) == CASE k \in {"logs", "removed"} -> "logs" [] k = "chain" -> "blocks" [] OTHER -> k
InRange(f, ev, fromToo) ==
    /\ fromToo /\ Config[f].from >= 0 => Config[f].from <= ev.n
    /\ Config[f].to >= 0 => ev.n <= Config[f].to
\* filterLogs, and the age check of pending logs.
Matches(f, ev) == CASE ev.kind \in {"logs", "removed"} -> InRange(f, ev, TRUE)
                    [] ev.kind = "pending" -> ev.n > created[f] /\ InRange(f, ev, FALSE)
                    [] OTHER -> TRUE
SendNext(ev, fs) == IF fs = {} THEN {Idle} ELSE {[pc |-> "send", ev |-> ev, left |-> fs \ {f}, to |-> f] : f \in fs}

\* What a subscriber asked for, whatever the loop's index says.
Wanted(f, ev) == /\ sub[f] = "installed"
                 /\ CASE typ(f) = "minedpending" -> ev.kind \in {"logs", "removed", "pending"}
                      [] OTHER -> typ(f) = BucketOf(ev.kind)
                 /\ Matches(f, ev)
Broadcast(k) ==
    /\ loop.pc = "select" /\ chan[k] # <<>>
    /\ chan' = [chan EXCEPT ![k] = Tail(@)]
    /\ loop' \in SendNext(Head(chan[k]), {f \in index[BucketOf(k)] : Matches(f, Head(chan[k]))})
    /\ due' = [f \in Filter |-> IF Wanted(f, Head(chan[k])) THEN Append(due[f], Head(chan[k])) ELSE due[f]]
    /\ UNCHANGED <<posted, index, sub, created, filters, cons, unsub, fired, tl, got>>

Install(f) ==
    /\ loop.pc = "select" /\ sub[f] = "installing"
    /\ index' = [b \in Buckets |-> IF b \in buckets(f) THEN index[b] \union {f} ELSE index[b]]
    /\ sub' = [sub EXCEPT ![f] = "installed"]
    /\ UNCHANGED <<posted, chan, loop, created, filters, cons, unsub, fired, tl, got, due>>

Uninstall(f) ==
    /\ loop.pc = "select" /\ unsub[f] = "drain"
    /\ index' = [b \in Buckets |-> IF b \in buckets(f) THEN index[b] \ {f} ELSE index[b]]
    /\ sub' = [sub EXCEPT ![f] = "uninstalled"] /\ unsub' = [unsub EXCEPT ![f] = "done"]
    /\ UNCHANGED <<posted, chan, loop, created, filters, cons, fired, tl, got, due>>

\* The mux is stopped or a feed closed: the loop returns.
Stop == /\ loop.pc = "select" /\ loop' = [loop EXCEPT !.pc = "stopped"]
        /\ UNCHANGED <<posted, chan, index, sub, created, filters, cons, unsub, fired, tl, got, due>>

-----------------------------------------------------------------------------
(* Subscribing, and the goroutine of a filter.                             *)
Subscribe(f) ==
    /\ sub[f] = "none"
    /\ IF typ(f) = "invalid" THEN /\ sub' = [sub EXCEPT ![f] = "invalid"] /\ UNCHANGED created
       ELSE sub' = [sub EXCEPT ![f] = "installing"] /\ created' = [created EXCEPT ![f] = posted]
    /\ UNCHANGED <<posted, chan, index, loop, filters, cons, unsub, fired, tl, got, due>>

\* The rest of NewFilter and its like, or of the goroutine of a push subscription.
Register(f) ==
    /\ sub[f] = "installed" /\ cons[f].pc = "none"
    /\ cons' = [cons EXCEPT ![f].pc = "select"]
    /\ IF Config[f].mode = "poll"
       THEN unlocked /\ filters' = [g \in DOMAIN filters \union {f} |-> IF g = f THEN <<>> ELSE filters[g]]
       ELSE UNCHANGED filters
    /\ UNCHANGED <<posted, chan, index, loop, sub, created, unsub, fired, tl, got, due>>

Receive(f) ==
    /\ loop.pc = "send" /\ loop.to = f /\ cons[f].pc = "select"
    /\ loop' \in SendNext(loop.ev, loop.left)
    /\ IF Config[f].mode = "poll"
       THEN cons' = [cons EXCEPT ![f] = [pc |-> "collect", item |-> loop.ev]] /\ UNCHANGED got
       ELSE got' = [got EXCEPT ![f] = Append(@, loop.ev)] /\ UNCHANGED cons
    /\ UNCHANGED <<posted, chan, index, sub, created, filters, unsub, fired, tl, due>>

Collect(f) ==
    /\ cons[f].pc = "collect" /\ unlocked
    /\ filters' = IF f \in DOMAIN filters THEN [filters EXCEPT ![f] = Append(@, cons[f].item)] ELSE filters
    /\ cons' = [cons EXCEPT ![f] = [pc |-> "select", item |-> None]]
    /\ UNCHANGED <<posted, chan, index, loop, sub, created, unsub, fired, tl, got, due>>

Without(f) == [g \in DOMAIN filters \ {f} |-> filters[g]]
\* The subscription is gone: the goroutine removes its filter and ends.
SeeErr(f) ==
    /\ Config[f].mode = "poll" /\ cons[f].pc = "select" /\ sub[f] = "uninstalled"
    /\ cons' = [cons EXCEPT ![f].pc = "remove"]
    /\ UNCHANGED <<posted, chan, index, loop, sub, created, filters, unsub, fired, tl, got, due>>
RemoveFilter(f) ==
    /\ cons[f].pc = "remove" /\ unlocked
    /\ filters' = Without(f) /\ cons' = [cons EXCEPT ![f].pc = "ended"]
    /\ UNCHANGED <<posted, chan, index, loop, sub, created, unsub, fired, tl, got, due>>

\* Unsubscribe reads and drops what the loop is sending.
Drain(f) ==
    /\ unsub[f] = "drain" /\ loop.pc = "send" /\ loop.to = f
    /\ loop' \in SendNext(loop.ev, loop.left)
    /\ UNCHANGED <<posted, chan, index, sub, created, filters, cons, unsub, fired, tl, got, due>>

\* The client of a push subscription cancels it, or its connection drops.
Cancel(f) ==
    /\ Config[f].mode = "push" /\ cons[f].pc = "select"
    /\ cons' = [cons EXCEPT ![f].pc = "ended"] /\ unsub' = [unsub EXCEPT ![f] = "drain"]
    /\ UNCHANGED <<posted, chan, index, loop, sub, created, filters, fired, tl, got, due>>

-----------------------------------------------------------------------------
(* The API.                                                                *)
GetFilterChanges(f) ==
    /\ unlocked /\ f \in DOMAIN filters
    /\ got' = [got EXCEPT ![f] = @ \o filters[f]] /\ filters' = [filters EXCEPT ![f] = <<>>]
    /\ fired' = fired \ {f}
    /\ UNCHANGED <<posted, chan, index, loop, sub, created, cons, unsub, tl, due>>

UninstallFilter(f) ==
    /\ unlocked /\ f \in DOMAIN filters /\ unsub[f] = "none"
    /\ filters' = Without(f) /\ unsub' = [unsub EXCEPT ![f] = "drain"]
    /\ UNCHANGED <<posted, chan, index, loop, sub, created, cons, fired, tl, got, due>>

Deadline(f) ==
    /\ f \in DOMAIN filters /\ f \notin fired /\ fired' = fired \union {f}
    /\ UNCHANGED <<posted, chan, index, loop, sub, created, filters, cons, unsub, tl, got, due>>

TimeoutTick ==
    /\ unlocked /\ DOMAIN filters # {}
    /\ tl' = [pc |-> "scan", todo |-> DOMAIN filters, at |-> None]
    /\ UNCHANGED <<posted, chan, index, loop, sub, created, filters, cons, unsub, fired, got, due>>
TimeoutScan ==
    /\ tl.pc = "scan" /\ tl.todo # {}
    /\ \E f \in tl.todo :
          IF f \in fired
          THEN tl' = [pc |-> "unsub", todo |-> tl.todo \ {f}, at |-> f] /\ unsub' = [unsub EXCEPT ![f] = "drain"]
          ELSE tl' = [tl EXCEPT !.todo = @ \ {f}] /\ UNCHANGED unsub
    /\ UNCHANGED <<posted, chan, index, loop, sub, created, filters, cons, fired, got, due>>
TimeoutDelete ==
    /\ tl.pc = "unsub" /\ unsub[tl.at] = "done"
    /\ filters' = Without(tl.at) /\ tl' = [tl EXCEPT !.pc = "scan", !.at = None]
    /\ UNCHANGED <<posted, chan, index, loop, sub, created, cons, unsub, fired, got, due>>
TimeoutEnd ==
    /\ tl.pc = "scan" /\ tl.todo = {} /\ tl' = [tl EXCEPT !.pc = "idle"]
    /\ UNCHANGED <<posted, chan, index, loop, sub, created, filters, cons, unsub, fired, got, due>>

Next ==
    \/ \E k \in Kind : Post(k) \/ Broadcast(k)
    \/ \E f \in Filter : \/ Install(f) \/ Uninstall(f) \/ Subscribe(f) \/ Register(f) \/ Receive(f) \/ Collect(f)
                         \/ SeeErr(f) \/ RemoveFilter(f) \/ Drain(f) \/ Cancel(f)
                         \/ GetFilterChanges(f) \/ UninstallFilter(f) \/ Deadline(f)
    \/ Stop \/ TimeoutTick \/ TimeoutScan \/ TimeoutDelete \/ TimeoutEnd
Spec == Init /\ [][Next]_vars

-----------------------------------------------------------------------------
TypeOK ==
    /\ posted \in 0 .. MaxEvents /\ index \in [Buckets -> SUBSET Filter]
    /\ loop.pc \in {"select", "send", "stopped"} /\ loop.left \subseteq Filter /\ loop.to \in Filter \union {None}
    /\ sub \in [Filter -> {"none", "installing", "installed", "uninstalled", "invalid"}]
    /\ DOMAIN filters \subseteq Filter /\ fired \subseteq Filter
    /\ \A f \in Filter : cons[f].pc \in {"none", "select", "collect", "remove", "ended"}
    /\ unsub \in [Filter -> {"none", "drain", "done"}]
    /\ tl.pc \in {"idle", "scan", "unsub"} /\ tl.todo \subseteq Filter

Collected(f) == IF f \in DOMAIN filters THEN filters[f] ELSE <<>>
Held(f) == IF cons[f].pc = "collect" THEN <<cons[f].item>> ELSE <<>>
Sending(f) == IF loop.pc = "send" /\ (loop.to = f \/ f \in loop.left) THEN <<loop.ev>> ELSE <<>>
\* Until it is unsubscribed, a filter gets exactly the events it asked for, each once
\* and in the order the loop took them: polled, collected, held by its goroutine or
\* being sent (broadcast, NewFilter, GetFilterChanges).  Once Unsubscribe has returned,
\* the loop neither knows the subscription nor writes to its channel.
FiltersExact == \A f \in Filter :
    /\ unsub[f] = "none" => got[f] \o Collected(f) \o Held(f) \o Sending(f) = due[f]
    /\ unsub[f] = "done" => f \notin UNION {index[b] : b \in Buckets} /\ loop.to # f /\ f \notin loop.left

\* The comment of Unsubscribe: draining the channel "prevents the eventLoop broadcast
\* method to deadlock".  timeoutLoop waits in Unsubscribe with filtersMu held while the
\* loop sends to another filter, whose goroutine or creator waits for filtersMu.
Waiting(f) == \/ cons[f].pc \in {"collect", "remove"}
              \/ cons[f].pc = "none" /\ Config[f].mode = "poll"
=============================================================================
