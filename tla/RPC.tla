--------------------------------- MODULE RPC ----------------------------------
(*****************************************************************************)
(* Package rpc: the client and the server.                                   *)
(*****************************************************************************)
EXTENDS Integers, Sequences, FiniteSets, SequencesExt

-----------------------------------------------------------------------------
(***************************************************************************)
(* The RPC client over a socket (rpc/client.go): the dispatch loop matches *)
(* responses to waiting calls, a read loop feeds it, the holder of the     *)
(* send lock writes requests and replaces a broken connection, and a       *)
(* subscription forwards notifications to its user.                        *)
(*                                                                         *)
(* Call is the set of requests made, "subscribe" perhaps among them; its   *)
(* cancellation is the request "unsub".  A batch has several ids.  The server answers on the connection a request came by.      *)
(***************************************************************************)

CONSTANTS Call, Ids,          \* requests of the user; [Op -> set of ids]
          MaxConns,           \* bound: connections the client makes
          ClientMaxNotes,           \* bound: notifications the server sends
          maxClientSubscriptionBuffer

Op == Call \union {"unsub"}
ClientConn == 1 .. MaxConns
None == 0
NoOp == "none"

VARIABLES disp,      \* dispatch: [pc, conn, reading, why]
          lock,      \* the request holding the send lock (lastOp), or NoOp
          sendDone,  \* the channel: <<>> or <<result of the write>>
          respWait,  \* ids of requests waiting for their response
          op,        \* [Op -> [pc, resp (received, unread ids), closed, err, left, res]]
          writeConn, \* connection the next write uses, or None
          clientOpen,      \* connections not closed or broken
          made,      \* connections made
          asked,     \* the server: <<connection, id>> of requests it has not answered
          wire,      \* [ClientConn -> messages on their way to the client]
          read,      \* read loop: [pc, conn, msg]
          notes,     \* notifications sent
          sub,       \* the subscription: [listed, quit, once, by, cancel, err]
          fwd,       \* its forwarder: [pc, buffer]
          closer     \* Close: "no", "closing" or "closed"
clientVars == <<disp, lock, sendDone, respWait, op, writeConn, clientOpen, made, asked, wire, read, notes, sub, fwd, closer>>

ClientInit ==
    /\ disp = [pc |-> "select", conn |-> 1, reading |-> TRUE, why |-> "none"]
    /\ lock = NoOp /\ sendDone = <<>> /\ respWait = {}
    /\ op = [o \in Op |-> [pc |-> "idle", resp |-> <<>>, closed |-> FALSE, err |-> "none", left |-> Ids[o], res |-> "none"]]
    /\ writeConn = 1 /\ clientOpen = {1} /\ made = 1 /\ asked = {} /\ wire = [c \in ClientConn |-> <<>>]
    /\ read = [pc |-> "read", conn |-> 1, msg |-> <<>>] /\ notes = 0
    /\ sub = [listed |-> FALSE, quit |-> FALSE, once |-> "no", by |-> "none", cancel |-> "no", err |-> <<>>]
    /\ fwd = [pc |-> "none", buffer |-> 0] /\ closer = "no"

didQuit == disp.pc = "quit"
Waiters(S) == {o \in Op : Ids[o] \cap S # {}}

-----------------------------------------------------------------------------
(* Calls: send, write, wait.                                               *)
Begin(o) ==
    /\ o \in Call /\ op[o].pc = "idle" /\ op' = [op EXCEPT ![o].pc = "send"]
    /\ UNCHANGED <<disp, lock, sendDone, respWait, writeConn, clientOpen, made, asked, wire, read, notes, sub, fwd, closer>>

\* dispatch: case op := <-requestOpLock.
Accept(o) ==
    /\ op[o].pc = "send" /\ disp.pc = "select" /\ lock = NoOp
    /\ lock' = o /\ respWait' = respWait \union Ids[o] /\ op' = [op EXCEPT ![o].pc = "write"]
    /\ UNCHANGED <<disp, sendDone, writeConn, clientOpen, made, asked, wire, read, notes, sub, fwd, closer>>

\* The context of a call ends, or the client has quit, before it is accepted.
NotSent(o) ==
    /\ op[o].pc = "send" /\ (o # "unsub" \/ didQuit)
    /\ op' = [op EXCEPT ![o].pc = "done", ![o].res = "failed"]
    /\ UNCHANGED <<disp, lock, sendDone, respWait, writeConn, clientOpen, made, asked, wire, read, notes, sub, fwd, closer>>

Written(o, res) == /\ sendDone' = Append(sendDone, res)
                   /\ op' = [op EXCEPT ![o].pc = IF res = "ok" THEN "wait" ELSE "done"]
ClientWrite(o) ==
    /\ op[o].pc = "write" /\ writeConn # None
    /\ IF writeConn \in clientOpen
       THEN Written(o, "ok") /\ asked' = asked \union {<<writeConn, i>> : i \in Ids[o]} /\ UNCHANGED writeConn
       ELSE Written(o, "failed") /\ writeConn' = None /\ UNCHANGED asked
    /\ UNCHANGED <<disp, lock, respWait, clientOpen, made, wire, read, notes, sub, fwd, closer>>
Connect(o) ==
    /\ op[o].pc = "write" /\ writeConn = None
    /\ \/ Written(o, "failed") /\ UNCHANGED <<clientOpen, made>>
       \/ /\ made < MaxConns /\ made' = made + 1 /\ clientOpen' = clientOpen \union {made + 1}
          /\ op' = [op EXCEPT ![o].pc = "reconnect"] /\ UNCHANGED sendDone
    /\ UNCHANGED <<disp, lock, respWait, writeConn, asked, wire, read, notes, sub, fwd, closer>>
ReconnectQuit(o) ==
    /\ op[o].pc = "reconnect" /\ didQuit /\ Written(o, "failed") /\ clientOpen' = clientOpen \ {made}
    /\ UNCHANGED <<disp, lock, respWait, writeConn, made, asked, wire, read, notes, sub, fwd, closer>>

\* dispatch: case newconn := <-c.reconnected.
Reconnected(o) ==
    /\ op[o].pc = "reconnect" /\ disp.pc = "select"
    /\ writeConn' = made /\ op' = [op EXCEPT ![o].pc = "write"]
    /\ IF disp.reading
       THEN clientOpen' = clientOpen \ {disp.conn} /\ disp' = [disp EXCEPT !.pc = "oldread"] /\ UNCHANGED read
       ELSE /\ disp' = [disp EXCEPT !.conn = made, !.reading = TRUE] /\ UNCHANGED clientOpen
            /\ read' = [pc |-> "read", conn |-> made, msg |-> <<>>]
    /\ UNCHANGED <<lock, sendDone, respWait, made, asked, wire, notes, sub, fwd, closer>>
OldReadEnds ==
    /\ disp.pc = "oldread" /\ read.pc = "err"
    /\ disp' = [disp EXCEPT !.pc = "select", !.conn = made] /\ read' = [pc |-> "read", conn |-> made, msg |-> <<>>]
    /\ UNCHANGED <<lock, sendDone, respWait, op, writeConn, clientOpen, made, asked, wire, notes, sub, fwd, closer>>

\* dispatch: case err := <-c.sendDone.
SendDone ==
    /\ disp.pc = "select" /\ sendDone # <<>>
    /\ respWait' = IF sendDone[1] = "ok" THEN respWait ELSE respWait \ Ids[lock]
    /\ lock' = NoOp /\ sendDone' = <<>>
    /\ UNCHANGED <<disp, op, writeConn, clientOpen, made, asked, wire, read, notes, sub, fwd, closer>>

\* requestOp.wait: a response (Call and BatchCall go on until they have all), the closed
\* channel, or the end of the context.
Answered(o) ==
    /\ op[o].pc = "wait" /\ op[o].resp # <<>>
    /\ LET rest == op[o].left \ {op[o].resp[1]} IN
       op' = [op EXCEPT ![o].resp = Tail(@), ![o].left = rest,
                        ![o].pc = IF rest = {} THEN "done" ELSE "wait"]
    /\ UNCHANGED <<disp, lock, sendDone, respWait, writeConn, clientOpen, made, asked, wire, read, notes, sub, fwd, closer>>
WaitEnds(o) ==
    /\ op[o].pc = "wait"
    /\ \E res \in {r \in {op[o].err} : op[o].closed /\ op[o].resp = <<>>} \union {r \in {"failed"} : o # "unsub"} :
          op' = [op EXCEPT ![o].pc = "done", ![o].res = res]
    /\ UNCHANGED <<disp, lock, sendDone, respWait, writeConn, clientOpen, made, asked, wire, read, notes, sub, fwd, closer>>

-----------------------------------------------------------------------------
(* The server and the network.                                             *)
Respond(c, i) ==
    /\ <<c, i>> \in asked /\ asked' = asked \ {<<c, i>>}
    /\ wire' = [wire EXCEPT ![c] = Append(@, i)]
    /\ UNCHANGED <<disp, lock, sendDone, respWait, op, writeConn, clientOpen, made, read, notes, sub, fwd, closer>>
Note(c) ==
    /\ notes < ClientMaxNotes /\ c \in clientOpen /\ notes' = notes + 1
    /\ wire' = [wire EXCEPT ![c] = Append(@, "note")]
    /\ UNCHANGED <<disp, lock, sendDone, respWait, op, writeConn, clientOpen, made, asked, read, sub, fwd, closer>>
Break(c) ==
    /\ c \in clientOpen /\ c = writeConn /\ clientOpen' = clientOpen \ {c}
    /\ UNCHANGED <<disp, lock, sendDone, respWait, op, writeConn, made, asked, wire, read, notes, sub, fwd, closer>>
ClientRead ==
    /\ read.pc = "read"
    /\ IF read.conn \in clientOpen
       THEN /\ wire[read.conn] # <<>> /\ wire' = [wire EXCEPT ![read.conn] = Tail(@)]
            /\ read' = [read EXCEPT !.pc = "resp", !.msg = Head(wire[read.conn])]
       ELSE read' = [read EXCEPT !.pc = "err"] /\ UNCHANGED wire
    /\ UNCHANGED <<disp, lock, sendDone, respWait, op, writeConn, clientOpen, made, asked, notes, sub, fwd, closer>>

-----------------------------------------------------------------------------
(* dispatch: messages.                                                     *)
\* handleResponse: a call gets the message; a subscription is listed, started and released.
HandleResponse ==
    /\ disp.pc = "select" /\ read.pc = "resp" /\ read.msg # "note" /\ read' = [read EXCEPT !.pc = "read"]
    /\ IF read.msg \notin respWait THEN UNCHANGED <<respWait, op, sub, fwd>>
       ELSE /\ respWait' = respWait \ {read.msg}
            /\ \E o \in Waiters({read.msg}) :
                  IF o # "subscribe"
                  THEN op' = [op EXCEPT ![o].resp = Append(@, read.msg)] /\ UNCHANGED <<sub, fwd>>
                  ELSE \/ /\ op' = [op EXCEPT ![o].closed = TRUE, ![o].err = "ok"]
                          /\ sub' = [sub EXCEPT !.listed = TRUE] /\ fwd' = [fwd EXCEPT !.pc = "run"]
                       \/ op' = [op EXCEPT ![o].closed = TRUE, ![o].err = "failed"] /\ UNCHANGED <<sub, fwd>>
    /\ UNCHANGED <<disp, lock, sendDone, writeConn, clientOpen, made, asked, wire, notes, closer>>
\* handleNotification: the loop waits in deliver.
HandleNotification ==
    /\ disp.pc = "select" /\ read.pc = "resp" /\ read.msg = "note" /\ read' = [read EXCEPT !.pc = "read"]
    /\ disp' = IF sub.listed THEN [disp EXCEPT !.pc = "deliver"] ELSE disp
    /\ UNCHANGED <<lock, sendDone, respWait, op, writeConn, clientOpen, made, asked, wire, notes, sub, fwd, closer>>
DeliverQuit ==
    /\ disp.pc = "deliver" /\ sub.quit /\ disp' = [disp EXCEPT !.pc = "select"]
    /\ UNCHANGED <<lock, sendDone, respWait, op, writeConn, clientOpen, made, asked, wire, read, notes, sub, fwd, closer>>

\* closeRequestOps: release every waiting request, then end the subscription.
CloseRequestOps(why) ==
    /\ respWait' = {}
    /\ op' = [o \in Op |-> IF o \in Waiters(respWait) THEN [op[o] EXCEPT !.closed = TRUE, !.err = "failed"] ELSE op[o]]
    /\ disp' = [disp EXCEPT !.pc = "endsub", !.why = why]
ReadErr ==
    /\ disp.pc = "select" /\ read.pc = "err" /\ CloseRequestOps("read") /\ read' = [read EXCEPT !.pc = "none"]
    /\ UNCHANGED <<lock, sendDone, writeConn, clientOpen, made, asked, wire, notes, sub, fwd, closer>>
TakeClose ==
    /\ disp.pc = "select" /\ closer = "closing" /\ CloseRequestOps("close") /\ closer' = "closed"
    /\ UNCHANGED <<lock, sendDone, writeConn, clientOpen, made, asked, wire, read, notes, sub, fwd>>
EndSub ==
    /\ disp.pc = "endsub" /\ (~sub.listed \/ sub.once # "running")
    /\ sub' = IF sub.listed /\ sub.once = "no"
              THEN [sub EXCEPT !.listed = FALSE, !.quit = TRUE, !.once = "done", !.err = Append(@, disp.why)]
              ELSE [sub EXCEPT !.listed = FALSE]
    /\ clientOpen' = clientOpen \ {disp.conn}
    /\ disp' = IF disp.why = "read" THEN [disp EXCEPT !.pc = "select", !.reading = FALSE]
               ELSE [disp EXCEPT !.pc = IF disp.reading THEN "drain" ELSE "quit"]
    /\ UNCHANGED <<lock, sendDone, respWait, op, writeConn, made, asked, wire, read, notes, fwd, closer>>
\* After Close the read loop is drained until it ends.
DrainRead ==
    /\ disp.pc = "drain"
    /\ \/ read.pc = "resp" /\ read' = [read EXCEPT !.pc = "read"] /\ UNCHANGED disp
       \/ read.pc = "err" /\ read' = [read EXCEPT !.pc = "none"] /\ disp' = [disp EXCEPT !.pc = "quit"]
    /\ UNCHANGED <<lock, sendDone, respWait, op, writeConn, clientOpen, made, asked, wire, notes, sub, fwd, closer>>
ClientClose ==
    /\ closer = "no" /\ closer' = "closing"
    /\ UNCHANGED <<disp, lock, sendDone, respWait, op, writeConn, clientOpen, made, asked, wire, read, notes, sub, fwd>>

-----------------------------------------------------------------------------
(* The subscription.                                                       *)
\* forward: take a notification into the buffer, or end when it is full.
Forward ==
    /\ fwd.pc = "run" /\ disp.pc = "deliver" /\ disp' = [disp EXCEPT !.pc = "select"]
    /\ fwd' = IF fwd.buffer = maxClientSubscriptionBuffer THEN [fwd EXCEPT !.pc = "overflow"] ELSE [fwd EXCEPT !.buffer = @ + 1]
    /\ UNCHANGED <<lock, sendDone, respWait, op, writeConn, clientOpen, made, asked, wire, read, notes, sub, closer>>
UserReceives ==
    /\ fwd.pc = "run" /\ fwd.buffer > 0 /\ fwd' = [fwd EXCEPT !.buffer = @ - 1]
    /\ UNCHANGED <<disp, lock, sendDone, respWait, op, writeConn, clientOpen, made, asked, wire, read, notes, sub, closer>>
ForwardQuit ==
    /\ fwd.pc = "run" /\ sub.quit /\ fwd' = [pc |-> "ended", buffer |-> 0]
    /\ UNCHANGED <<disp, lock, sendDone, respWait, op, writeConn, clientOpen, made, asked, wire, read, notes, sub, closer>>

\* quitWithError(., true) by the user or the forwarder: the first one closes quit and asks
\* the server to unsubscribe, the other waits for it.
QuitOnce(by) ==
    /\ sub.once = "no" /\ sub' = [sub EXCEPT !.once = "running", !.by = by, !.quit = TRUE,
                                             !.cancel = IF by = "user" THEN "waiting" ELSE @]
    /\ op' = [op EXCEPT !["unsub"].pc = "send"]
Overflow ==
    /\ fwd.pc = "overflow"
    /\ \/ QuitOnce("forward") /\ fwd' = [fwd EXCEPT !.pc = "unsub"]
       \/ sub.once = "done" /\ fwd' = [pc |-> "ended", buffer |-> 0] /\ UNCHANGED <<sub, op>>
    /\ UNCHANGED <<disp, lock, sendDone, respWait, writeConn, clientOpen, made, asked, wire, read, notes, closer>>
Unsubscribe ==
    /\ "subscribe" \in Call /\ op["subscribe"].pc = "done" /\ op["subscribe"].res = "ok" /\ sub.cancel = "no"
    /\ \/ QuitOnce("user")
       \/ sub.once # "no" /\ sub' = [sub EXCEPT !.cancel = "waiting"] /\ UNCHANGED op
    /\ UNCHANGED <<disp, lock, sendDone, respWait, writeConn, clientOpen, made, asked, wire, read, notes, fwd, closer>>
OnceDone ==
    /\ sub.once = "running" /\ op["unsub"].pc = "done"
    /\ sub' = [sub EXCEPT !.once = "done", !.err = IF sub.by = "forward" THEN Append(@, "overflow") ELSE @]
    /\ fwd' = IF sub.by = "forward" THEN [pc |-> "ended", buffer |-> 0] ELSE fwd
    /\ UNCHANGED <<disp, lock, sendDone, respWait, op, writeConn, clientOpen, made, asked, wire, read, notes, closer>>
Unsubscribed ==
    /\ sub.cancel = "waiting" /\ sub.once = "done" /\ sub' = [sub EXCEPT !.cancel = "done"]
    /\ UNCHANGED <<disp, lock, sendDone, respWait, op, writeConn, clientOpen, made, asked, wire, read, notes, fwd, closer>>

ClientNext ==
    \/ \E o \in Op : Begin(o) \/ Accept(o) \/ NotSent(o) \/ ClientWrite(o) \/ Connect(o) \/ ReconnectQuit(o) \/ Reconnected(o) \/ Answered(o) \/ WaitEnds(o)
    \/ OldReadEnds \/ SendDone \/ ClientRead \/ HandleResponse \/ HandleNotification \/ DeliverQuit
    \/ \E c \in ClientConn : Note(c) \/ Break(c) \/ \E i \in UNION {Ids[o] : o \in Op} : Respond(c, i)
    \/ ReadErr \/ TakeClose \/ EndSub \/ DrainRead \/ ClientClose
    \/ Forward \/ UserReceives \/ ForwardQuit \/ Overflow \/ Unsubscribe \/ OnceDone \/ Unsubscribed
ClientSpec == ClientInit /\ [][ClientNext]_clientVars

-----------------------------------------------------------------------------
ClientTypeOK ==
    /\ disp.pc \in {"select", "oldread", "deliver", "endsub", "drain", "quit"} /\ lock \in Op \union {NoOp}
    /\ respWait \subseteq UNION {Ids[o] : o \in Op} /\ writeConn \in ClientConn \union {None} /\ clientOpen \subseteq ClientConn
    /\ read.pc \in {"read", "resp", "err", "none"} /\ fwd.pc \in {"none", "run", "overflow", "unsub", "ended"}
    /\ fwd.buffer \in 0 .. maxClientSubscriptionBuffer
    /\ \A o \in Op : op[o].pc \in {"idle", "send", "write", "reconnect", "wait", "done"}

Writers == {o \in Op : op[o].pc \in {"write", "reconnect"}}
\* One request at a time uses the connection, and sendDone never blocks it (send,
\* dispatch: requestOpLock).  Nobody waits in vain: a request that waits is registered,
\* or its answer or the closed channel is there (dispatch, closeRequestOps, sendDone).
\* The channel of a request holds what may come without blocking the loop, and a
\* subscription reports at most one error (quitOnce).
ClientExact ==
    /\ Cardinality(Writers) <= 1 /\ Len(sendDone) <= 1 /\ (Writers # {} \/ sendDone # <<>> => lock # NoOp)
    /\ \A o \in Op : /\ Len(op[o].resp) <= Cardinality(Ids[o])
                     /\ op[o].pc = "wait" => op[o].closed \/ op[o].resp # <<>> \/ op[o].left \subseteq respWait
                     /\ \A k \in 1 .. Len(op[o].resp) : op[o].resp[k] \in op[o].left
    /\ Len(sub.err) <= 1

-----------------------------------------------------------------------------
(***************************************************************************)
(* The RPC server (rpc/server.go, subscription.go, json.go): a loop per    *)
(* connection reads messages and verifies them, a goroutine per message    *)
(* executes its requests and writes one answer, subscriptions become       *)
(* active once their id is written, and Stop closes every connection.      *)
(*                                                                         *)
(* Inbox[c] is what the client of connection c sends.  A message is        *)
(* [batch, reqs]; a request is [id, idok, method, service, name, args]     *)
(* where method is "call", "plain" (no service part), "subscribe" or       *)
(* "unsubscribe".  A subscription has the id of the request that made it.  *)
(***************************************************************************)

CONSTANTS ServerConn, Single,   \* connections, and those served for a single request (HTTP)
          Inbox,
          Callbacks, Subscriptions,   \* [name -> kinds of the arguments, "val" or "ptr"]
          ServerMaxNotes        \* bound: notifications of each subscription

Requests(c) == UNION {Range(Inbox[c][k].reqs) : k \in 1 .. Len(Inbox[c])}
SubIds(c) == {r.id : r \in {q \in Requests(c) : q.method = "subscribe"}}

VARIABLES run, stop,  \* the run flag; Stop: "no", "closing" or "done"
          codecs,     \* connections in the server's set
          loop,       \* [ServerConn -> [pc, next, msg]]
          serverOpen,       \* codecs that are not closed
          gone,       \* connections whose client has left
          task,       \* [ServerConn -> executions: [msg, resps, pc]]
          subs,       \* [ServerConn -> [SubIds -> state at the notifier]]
          sent,       \* [ServerConn -> [SubIds -> notifications tried]]
          out         \* [ServerConn -> what was written]
serverVars == <<run, stop, codecs, loop, serverOpen, gone, task, subs, sent, out>>

ServerInit ==
    /\ run = 1 /\ stop = "no" /\ codecs = {} /\ serverOpen = ServerConn /\ gone = {}
    /\ loop = [c \in ServerConn |-> [pc |-> "new", next |-> 1, msg |-> 0]]
    /\ task = [c \in ServerConn |-> <<>>]
    /\ subs = [c \in ServerConn |-> [s \in SubIds(c) |-> "none"]] /\ sent = [c \in ServerConn |-> [s \in SubIds(c) |-> 0]]
    /\ out = [c \in ServerConn |-> <<>>]

-----------------------------------------------------------------------------
(* Reading: what a message becomes.                                        *)
\* parsePositionalArguments: too many, an undecodable one, a missing one that is no pointer.
parsePositionalArguments(args, types) ==
    /\ Len(args) <= Len(types)
    /\ \A k \in 1 .. Len(types) : IF k <= Len(args) THEN args[k] # "bad" ELSE types[k] = "ptr"

\* parseRequest: an error here is an error of the whole message.
parseRequest(r) ==
    /\ r.idok
    /\ r.method = "subscribe" => r.args # <<>> /\ r.args[1] # "bad"
    /\ r.method # "plain"
parseBatchRequest(reqs) ==
    \A r \in Range(reqs) : r.idok /\ (r.method = "subscribe" => r.args # <<>> /\ r.args[1] # "bad")
ReadRequestHeaders(m) == IF m.batch THEN parseBatchRequest(m.reqs) ELSE parseRequest(m.reqs[1])

\* readRequest: the requests that go on to handle; the others answer with an error.
Verified(r) ==
    CASE r.method = "plain" -> FALSE
      [] r.method = "unsubscribe" -> parsePositionalArguments(r.args, <<"val">>)
      [] r.method = "subscribe" ->
            /\ r.service /\ r.name \in DOMAIN Subscriptions
            /\ Subscriptions[r.name] = <<>> \/ parsePositionalArguments(r.args, <<"val">> \o Subscriptions[r.name])
      [] OTHER ->
            /\ r.service /\ r.name \in DOMAIN Callbacks
            /\ r.args = <<>> \/ Callbacks[r.name] = <<>> \/ parsePositionalArguments(r.args, Callbacks[r.name])

-----------------------------------------------------------------------------
(* The loop of a connection (serveRequest).                                *)
ServerClose(c) == serverOpen' = serverOpen \ {c}
ServerWrite(c, entry) == out' = [out EXCEPT ![c] = IF c \in serverOpen \ gone THEN Append(@, entry) ELSE @]
Answer(ids, res) == [kind |-> "answer", resps |-> [k \in 1 .. Len(ids) |-> [id |-> ids[k], res |-> res]]]
IdsOf(m) == [k \in 1 .. Len(m.reqs) |-> m.reqs[k].id]
\* ServeCodec closes the codec when serveRequest has returned and taken it off the set.
Return(c) == /\ codecs' = codecs \ {c} /\ loop' = [loop EXCEPT ![c].pc = "returned"]
             /\ IF c \in Single THEN UNCHANGED serverOpen ELSE ServerClose(c)

Register(c) ==
    /\ loop[c].pc = "new"
    /\ IF run # 1 THEN Return(c)
       ELSE codecs' = codecs \union {c} /\ loop' = [loop EXCEPT ![c].pc = "test"] /\ UNCHANGED serverOpen
    /\ UNCHANGED <<run, stop, gone, task, subs, sent, out>>
TestRun(c) ==
    /\ loop[c].pc = "test"
    /\ IF run = 1 THEN loop' = [loop EXCEPT ![c].pc = "read"] /\ UNCHANGED <<codecs, serverOpen>> ELSE Return(c)
    /\ UNCHANGED <<run, stop, gone, task, subs, sent, out>>

ReadError(c) == loop' = [loop EXCEPT ![c].pc = "wait"]
ServerRead(c) ==
    /\ loop[c].pc = "read"
    /\ \/ c \notin serverOpen /\ ReadError(c) /\ UNCHANGED out
       \/ /\ c \in serverOpen /\ loop[c].next <= Len(Inbox[c])
          /\ LET m == Inbox[c][loop[c].next] IN
             IF ReadRequestHeaders(m)
             THEN loop' = [loop EXCEPT ![c].pc = "check", ![c].msg = @ + 1, ![c].next = @ + 1] /\ UNCHANGED out
             ELSE ReadError(c) /\ ServerWrite(c, [kind |-> "error", resps |-> <<>>])
       \/ c \in serverOpen \cap gone /\ loop[c].next > Len(Inbox[c]) /\ ReadError(c) /\ UNCHANGED out
    /\ UNCHANGED <<run, stop, codecs, serverOpen, gone, task, subs, sent>>

\* The second test of the run flag, then the execution, by a goroutine or in place.
Serve(c) ==
    /\ loop[c].pc = "check"
    /\ LET m == Inbox[c][loop[c].next - 1] IN
       IF run # 1
       THEN ServerWrite(c, Answer(IdsOf(m), "shutdown")) /\ Return(c) /\ UNCHANGED task
       ELSE /\ task' = [task EXCEPT ![c] = Append(@, [msg |-> m, resps |-> <<>>, pc |-> "handle"])]
            /\ loop' = [loop EXCEPT ![c].pc = IF c \in Single THEN "inplace" ELSE "test"]
            /\ UNCHANGED <<out, codecs, serverOpen>>
    /\ UNCHANGED <<run, stop, gone, subs, sent>>
Idle(c) == \A t \in 1 .. Len(task[c]) : task[c][t].pc = "done"
Finish(c) ==
    /\ loop[c].pc \in {"wait", "inplace"} /\ Idle(c) /\ Return(c)
    /\ UNCHANGED <<run, stop, gone, task, subs, sent, out>>

-----------------------------------------------------------------------------
(* Executing (exec, execBatch, handle): a response for each request, one   *)
(* write, then the subscriptions of the message become active.             *)
Responded(c, t, res) ==
    LET k == Len(task[c][t].resps) + 1 IN
    task' = [task EXCEPT ![c][t].resps = Append(@, [id |-> task[c][t].msg.reqs[k].id, res |-> res]),
                         ![c][t].pc = IF k = Len(task[c][t].msg.reqs) THEN "write" ELSE "handle"]
Notifies(c) == c \notin Single
handle(c, t) ==
    /\ task[c][t].pc = "handle"
    /\ LET r == task[c][t].msg.reqs[Len(task[c][t].resps) + 1] IN
       IF ~Verified(r) THEN Responded(c, t, "error") /\ UNCHANGED subs
       ELSE CASE r.method = "unsubscribe" ->
                    IF r.args # <<>> /\ Notifies(c) /\ r.args[1] \in SubIds(c) /\ subs[c][r.args[1]] = "active"
                    THEN Responded(c, t, "result") /\ subs' = [subs EXCEPT ![c][r.args[1]] = "cancelled"]
                    ELSE Responded(c, t, "error") /\ UNCHANGED subs
              [] r.method = "subscribe" ->
                    \/ Responded(c, t, "error") /\ UNCHANGED subs
                    \/ Notifies(c) /\ Responded(c, t, "result") /\ subs' = [subs EXCEPT ![c][r.id] = "inactive"]
              [] OTHER ->
                    /\ UNCHANGED subs
                    /\ \/ Responded(c, t, "error")
                       \/ (r.args # <<>> \/ Callbacks[r.name] = <<>>) /\ Responded(c, t, "result")
    /\ UNCHANGED <<run, stop, codecs, loop, serverOpen, gone, sent, out>>
WriteAnswer(c, t) ==
    /\ task[c][t].pc = "write" /\ ServerWrite(c, [kind |-> "answer", resps |-> task[c][t].resps])
    /\ task' = [task EXCEPT ![c][t].pc = "activate"] /\ serverOpen' = IF c \in gone THEN serverOpen \ {c} ELSE serverOpen
    /\ UNCHANGED <<run, stop, codecs, loop, gone, subs, sent>>
activate(c, t) ==
    /\ task[c][t].pc = "activate" /\ task' = [task EXCEPT ![c][t].pc = "done"]
    /\ subs' = [subs EXCEPT ![c] = [s \in SubIds(c) |->
                  IF @[s] = "inactive" /\ s \in Range(IdsOf(task[c][t].msg)) THEN "active" ELSE @[s]]]
    /\ UNCHANGED <<run, stop, codecs, loop, serverOpen, gone, sent, out>>

\* Notify of the service's goroutine, at any time after CreateSubscription.
Notify(c, s) ==
    /\ subs[c][s] # "none" /\ sent[c][s] < ServerMaxNotes /\ sent' = [sent EXCEPT ![c][s] = @ + 1]
    /\ IF subs[c][s] = "active"
       THEN /\ ServerWrite(c, [kind |-> "note", resps |-> <<[id |-> s, res |-> "note"]>>])
            /\ serverOpen' = IF c \in gone THEN serverOpen \ {c} ELSE serverOpen
       ELSE UNCHANGED <<out, serverOpen>>
    /\ UNCHANGED <<run, stop, codecs, loop, gone, task, subs>>

-----------------------------------------------------------------------------
Leave(c) == /\ c \notin gone /\ gone' = gone \union {c}
            /\ UNCHANGED <<run, stop, codecs, loop, serverOpen, task, subs, sent, out>>
StopBegins == /\ stop = "no" /\ stop' = "closing" /\ run' = 0
              /\ UNCHANGED <<codecs, loop, serverOpen, gone, task, subs, sent, out>>
StopCloses == /\ stop = "closing" /\ stop' = "done" /\ serverOpen' = serverOpen \ codecs
              /\ UNCHANGED <<run, codecs, loop, gone, task, subs, sent, out>>

ServerNext ==
    \/ \E c \in ServerConn : \/ Register(c) \/ TestRun(c) \/ ServerRead(c) \/ Serve(c) \/ Finish(c) \/ Leave(c)
                             \/ \E t \in 1 .. Len(task[c]) : handle(c, t) \/ WriteAnswer(c, t) \/ activate(c, t)
                             \/ \E s \in SubIds(c) : Notify(c, s)
    \/ StopBegins \/ StopCloses
ServerSpec == ServerInit /\ [][ServerNext]_serverVars

-----------------------------------------------------------------------------
ServerTypeOK ==
    /\ run \in {0, 1} /\ stop \in {"no", "closing", "done"} /\ codecs \subseteq ServerConn /\ serverOpen \subseteq ServerConn
    /\ \A c \in ServerConn : /\ loop[c].pc \in {"new", "test", "read", "check", "inplace", "wait", "returned"}
                             /\ \A s \in SubIds(c) : subs[c][s] \in {"none", "inactive", "active", "cancelled"}

Told(c, k, id, res) == \E j \in 1 .. Len(out[c][k].resps) : out[c][k].resps[j] = [id |-> id, res |-> res]
Answers(c, id) == {k \in 1 .. Len(out[c]) : out[c][k].kind = "answer" /\ \E j \in 1 .. Len(out[c][k].resps) : out[c][k].resps[j].id = id}
Cancels(c, s) == {r.id : r \in {q \in Requests(c) : q.method = "unsubscribe" /\ q.args # <<>> /\ q.args[1] = s}}

\* A request has at most one answer, and a message one write with the answers of its
\* requests in their order (exec, execBatch); once the client has been read to its end
\* and nobody closed the codec, every request read has its answer (pend.Wait).  A
\* notification follows the answer with its subscription's id and none follows the
\* answer to its cancellation (activate: "prevents notifications being send to the client
\* before the subscription ID is send").  When Stop has returned, no connection that is
\* still served is open and no other becomes one (codecsMu, run).
ServerAnswers ==
    /\ \A c \in ServerConn :
          /\ \A r \in Requests(c) : Cardinality(Answers(c, r.id)) <= 1
          /\ \A k \in 1 .. Len(out[c]) : out[c][k].kind = "answer" =>
                \E n \in 1 .. Len(Inbox[c]) : [j \in 1 .. Len(out[c][k].resps) |-> out[c][k].resps[j].id] = IdsOf(Inbox[c][n])
          /\ loop[c].pc = "returned" /\ stop = "no" /\ c \notin gone =>
                \A n \in 1 .. loop[c].msg : \A r \in Range(Inbox[c][n].reqs) : Answers(c, r.id) # {}
          /\ \A k \in 1 .. Len(out[c]) : \A s \in SubIds(c) : Told(c, k, s, "note") =>
                /\ \E j \in 1 .. k - 1 : Told(c, j, s, "result")
                /\ ~\E j \in 1 .. k - 1 : \E u \in Cancels(c, s) : Told(c, j, u, "result")
    /\ stop = "done" => serverOpen \cap codecs = {}
    /\ \A c \in ServerConn \ Single : loop[c].pc = "returned" => c \notin serverOpen \union codecs
=============================================================================
