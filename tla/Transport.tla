------------------------------ MODULE Transport -------------------------------
(*****************************************************************************)
(* What carries the messages of a peer: the encrypted transport and the      *)
(* in-memory pipe.                                                           *)
(*****************************************************************************)
EXTENDS Integers, Sequences, FiniteSets

-----------------------------------------------------------------------------
(***************************************************************************)
(* The encrypted transport of a connection (p2p/rlpx.go): the encryption   *)
(* handshake of a dialing and a listening end, the protocol handshake that *)
(* switches compression on, and the framing of messages with its two       *)
(* chained MACs, over a byte stream that may be damaged or cut.            *)
(*                                                                         *)
(* Keys, nonces and hashes are symbolic: a key agreement is the set of the *)
(* two key pairs, a MAC state is what has been hashed so far, a ciphertext *)
(* is its plaintext with the key and the stream position it was made with. *)
(***************************************************************************)

CONSTANTS Sizes,       \* payload sizes the ends send; the largest fits no frame
          maxUint24,   \* largest size of a frame
          MaxSent,     \* messages an end sends after the handshakes
          MaxFaults    \* damaged or cut packets

End == {"init", "recv"}
Other(e) == IF e = "init" THEN "recv" ELSE "init"

VARIABLES dest,     \* the identity the initiator believes it dials
          at,       \* [End -> where its connection set-up is]
          hs,       \* [End -> values known from the encryption handshake]
          rw,       \* [End -> the rlpxFrameRW]
          wire,     \* [End -> packets on their way to that end]
          wrote,    \* [End -> the protocol handshake has been written]
          sent, got, \* [End -> messages accepted for writing, messages read]
          faults, why  \* faults so far; [End -> why the end closed]
vars == <<dest, at, hs, rw, wire, wrote, sent, got, faults, why>>

NoHs == [eph |-> "none", remoteEph |-> "none", initNonce |-> "none", respNonce |-> "none"]
NoRw == [aes |-> <<>>, egress |-> <<>>, ingress |-> <<>>, enc |-> 0, dec |-> 0, snappy |-> FALSE]

Init ==
    /\ dest \in {"recv", "stranger"}
    /\ at = [e \in End |-> IF e = "init" THEN "auth" ELSE "authWait"]
    /\ hs = [e \in End |-> NoHs] /\ rw = [e \in End |-> NoRw]
    /\ wire = [e \in End |-> <<>>] /\ wrote = [e \in End |-> FALSE]
    /\ sent = [e \in End |-> <<>>] /\ got = [e \in End |-> <<>>]
    /\ faults = 0 /\ why = [e \in End |-> "none"]

\* Packets: a handshake packet is sealed for a key; a frame has a header with
\* its MAC and a padded body with its MAC.
Packet(kind, for, eph, nonce) ==
    [kind |-> kind, for |-> for, eph |-> eph, nonce |-> nonce, ok |-> TRUE]

\* secrets: both ends derive the same keys, and the egress MAC of one is the
\* ingress MAC of the other.
Agreement(h) == {h.eph, h.remoteEph}
AES(h) == <<Agreement(h), h.respNonce, h.initNonce>>
MacSeed(h, nonce, packet) == <<[key |-> AES(h), nonce |-> nonce, packet |-> packet]>>
secrets(e, h, auth, resp) ==
    LET mac1 == MacSeed(h, h.respNonce, auth)
        mac2 == MacSeed(h, h.initNonce, resp)
    IN [NoRw EXCEPT !.aes = AES(h),
                    !.egress = IF e = "init" THEN mac1 ELSE mac2,
                    !.ingress = IF e = "init" THEN mac2 ELSE mac1]

\* readHandshakeMsg: the packet decrypts only if it is sealed for this end and
\* arrived whole.
readHandshakeMsg(e, p, kind) == p.kind = kind /\ p.for = e /\ p.ok

close(e, reason) ==
    /\ at' = [at EXCEPT ![e] = "closed"] /\ why' = [why EXCEPT ![e] = reason]

-----------------------------------------------------------------------------
(* The encryption handshake.                                               *)

\* initiatorEncHandshake up to the write: makeAuthMsg, sealEIP8.
SendAuth ==
    /\ at["init"] = "auth"
    /\ hs' = [hs EXCEPT !["init"] = [@ EXCEPT !.eph = "ephI", !.initNonce = "nI"]]
    /\ wire' = [wire EXCEPT !["recv"] = Append(@, Packet("auth", dest, "ephI", "nI"))]
    /\ at' = [at EXCEPT !["init"] = "respWait"]
    /\ UNCHANGED <<dest, rw, wrote, sent, got, faults, why>>

\* receiverEncHandshake: handleAuthMsg, makeAuthResp, the reply and the secrets.
HandleAuth ==
    /\ at["recv"] = "authWait" /\ wire["recv"] # <<>>
    /\ LET p == Head(wire["recv"])
           h == [eph |-> "ephR", remoteEph |-> p.eph, initNonce |-> p.nonce, respNonce |-> "nR"]
           resp == Packet("resp", "init", "ephR", "nR")
       IN IF readHandshakeMsg("recv", p, "auth")
          THEN /\ hs' = [hs EXCEPT !["recv"] = h]
               /\ wire' = [wire EXCEPT !["recv"] = Tail(@), !["init"] = Append(@, resp)]
               /\ rw' = [rw EXCEPT !["recv"] = secrets("recv", h, p, resp)]
               /\ at' = [at EXCEPT !["recv"] = "proto"] /\ UNCHANGED why
          ELSE /\ close("recv", "auth") /\ wire' = [wire EXCEPT !["recv"] = Tail(@)]
               /\ UNCHANGED <<hs, rw>>
    /\ UNCHANGED <<dest, wrote, sent, got, faults>>

\* initiatorEncHandshake after the write: handleAuthResp and the secrets.
HandleResp ==
    /\ at["init"] = "respWait" /\ wire["init"] # <<>>
    /\ LET p == Head(wire["init"])
           h == [hs["init"] EXCEPT !.remoteEph = p.eph, !.respNonce = p.nonce]
       IN IF readHandshakeMsg("init", p, "resp")
          THEN /\ hs' = [hs EXCEPT !["init"] = h]
               /\ rw' = [rw EXCEPT !["init"] = secrets("init", h, Packet("auth", dest, "ephI", "nI"), p)]
               /\ at' = [at EXCEPT !["init"] = "proto"] /\ UNCHANGED why
          ELSE close("init", "auth") /\ UNCHANGED <<hs, rw>>
    /\ wire' = [wire EXCEPT !["init"] = Tail(@)]
    /\ UNCHANGED <<dest, wrote, sent, got, faults>>

-----------------------------------------------------------------------------
(* Frames.                                                                 *)

Msg(code, size) == [code |-> code, size |-> size, zip |-> FALSE]

\* What padding adds to a frame of n units, 16 units being a block.
padded(n) == n + ((16 - (n % 16)) % 16)

\* updateMAC: the state absorbs the seed, the MAC is the new state.
updateMAC(mac, seed) == Append(mac, seed)

\* rlpxFrameRW.WriteMsg: too large a message is refused before anything is
\* written; otherwise header and body are encrypted in order and hashed.
Fits(m) == m.size + 1 <= maxUint24
Encode(r, m) == [m EXCEPT !.zip = r.snappy]
Header(r, m) == [key |-> r.aes, pos |-> r.enc, fsize |-> m.size + 1]
Body(r, m) == [key |-> r.aes, pos |-> r.enc + 1, msg |-> m, len |-> padded(m.size + 1)]
HeadMac(r, m) == updateMAC(r.egress, <<"head", Header(r, m)>>)
FrameMac(r, m) == updateMAC(HeadMac(r, m), <<"body", Body(r, m)>>)
Frame(r, m) == [kind |-> "frame", head |-> Header(r, m), hmac |-> HeadMac(r, m),
                body |-> Body(r, m), fmac |-> FrameMac(r, m), ok |-> TRUE]
Advance(r, m) == [r EXCEPT !.egress = FrameMac(r, m), !.enc = @ + 2]

WriteMsg(e, m) ==
    /\ wire' = [wire EXCEPT ![Other(e)] = Append(@, Frame(rw[e], Encode(rw[e], m)))]
    /\ rw' = [rw EXCEPT ![e] = Advance(@, Encode(@, m))]

\* rlpxFrameRW.ReadMsg: the header MAC, the body of the announced length, the
\* frame MAC, the decryption at the reader's own position, the decompression.
HeadOK(r, f) == f.kind = "frame" /\ f.ok /\ f.hmac = updateMAC(r.ingress, <<"head", f.head>>)
BodyOK(r, f) ==
    /\ f.body.len = padded(f.head.fsize)
    /\ f.fmac = updateMAC(f.hmac, <<"body", f.body>>)
Decrypts(r, f) == f.body.key = r.aes /\ f.body.pos = r.dec + 1
Decodes(r, f) == Decrypts(r, f) /\ f.body.msg.zip = r.snappy
Readable(r, f) == HeadOK(r, f) /\ BodyOK(r, f) /\ Decodes(r, f)
Absorb(r, f) == [r EXCEPT !.ingress = f.fmac, !.dec = @ + 2]

-----------------------------------------------------------------------------
(* The protocol handshake: the own one is written by a goroutine while the *)
(* other one is read; then compression is switched on.                     *)
Handshake == Msg("handshake", 1)

WriteHandshake(e) ==
    /\ at[e] \in {"proto", "protoRead", "protoBad", "protoDisc"} /\ ~wrote[e]
    /\ WriteMsg(e, Handshake) /\ wrote' = [wrote EXCEPT ![e] = TRUE]
    /\ UNCHANGED <<dest, at, hs, sent, got, faults, why>>

\* readProtocolHandshake: anything else than a readable handshake fails.
ReadHandshake(e) ==
    /\ at[e] = "proto" /\ wire[e] # <<>>
    /\ LET f == Head(wire[e])
           readable == Readable(rw[e], f)
       IN /\ at' = [at EXCEPT ![e] = IF ~readable THEN "protoBad"
                                     ELSE IF f.body.msg.code = "handshake" THEN "protoRead" ELSE "protoDisc"]
          /\ rw' = [rw EXCEPT ![e] = IF readable THEN Absorb(@, f) ELSE @]
    /\ wire' = [wire EXCEPT ![e] = Tail(@)]
    /\ UNCHANGED <<dest, hs, wrote, sent, got, faults, why>>

\* A failed protocol handshake ends once the own one is written; a disconnect
\* reason that was read is sent back.
HandshakeFails(e) ==
    /\ wrote[e]
    /\ \/ at[e] = "protoBad" /\ close(e, "frame") /\ UNCHANGED <<wire, rw>>
       \/ at[e] = "protoDisc" /\ close(e, "remote") /\ WriteMsg(e, Msg("disc", 1))
    /\ UNCHANGED <<dest, hs, wrote, sent, got, faults>>

\* The write has ended too: the upgrade.
upgraded(r) == [r EXCEPT !.snappy = TRUE]
Upgrade(e) ==
    /\ at[e] = "protoRead" /\ wrote[e]
    /\ rw' = [rw EXCEPT ![e] = upgraded(@)]
    /\ at' = [at EXCEPT ![e] = "open"]
    /\ UNCHANGED <<dest, hs, wire, wrote, sent, got, faults, why>>

-----------------------------------------------------------------------------
Send(e) ==
    /\ at[e] = "open" /\ Len(sent[e]) < MaxSent
    /\ \E n \in Sizes : LET m == Msg("data", n) IN
          IF Fits(m) THEN WriteMsg(e, m) /\ sent' = [sent EXCEPT ![e] = Append(@, m.size)]
          ELSE UNCHANGED <<wire, rw, sent>>
    /\ UNCHANGED <<dest, at, hs, wrote, got, faults, why>>

Receive(e) ==
    /\ at[e] = "open" /\ wire[e] # <<>>
    /\ LET f == Head(wire[e]) IN
       IF ~Readable(rw[e], f) THEN close(e, "frame") /\ UNCHANGED <<rw, got>>
       ELSE IF f.body.msg.code = "disc" THEN close(e, "remote") /\ UNCHANGED <<rw, got>>
       ELSE /\ rw' = [rw EXCEPT ![e] = Absorb(@, f)]
            /\ got' = [got EXCEPT ![e] = Append(@, f.body.msg.size)]
            /\ UNCHANGED <<at, why>>
    /\ wire' = [wire EXCEPT ![e] = Tail(@)]
    /\ UNCHANGED <<dest, hs, wrote, sent, faults>>

\* rlpx.close with a reason the remote end is told: after a rejection by the
\* server between the handshakes or after them, or when the peer ends.
Close(e) ==
    /\ at[e] = "open" \/ (at[e] = "proto" /\ ~wrote[e])
    /\ close(e, "local") /\ WriteMsg(e, Msg("disc", 1))
    /\ UNCHANGED <<dest, hs, wrote, sent, got, faults>>

\* The deadline of a handshake passes, or the stream ends.
Fails(e) ==
    /\ at[e] \in {"authWait", "respWait", "proto", "open"} /\ wire[e] = <<>>
    /\ at[Other(e)] = "closed" \/ faults > 0
    /\ close(e, "eof")
    /\ UNCHANGED <<dest, hs, rw, wire, wrote, sent, got, faults>>

\* The stream damages what is in flight, or loses its end.
Damage(e) ==
    /\ wire[e] # <<>> /\ faults < MaxFaults /\ faults' = faults + 1
    /\ \E i \in DOMAIN wire[e] :
          wire' = [wire EXCEPT ![e] = [@ EXCEPT ![i].ok = FALSE]]
    /\ UNCHANGED <<dest, at, hs, rw, wrote, sent, got, why>>
Cut(e) ==
    /\ wire[e] # <<>> /\ faults < MaxFaults /\ faults' = faults + 1
    /\ wire' = [wire EXCEPT ![e] = SubSeq(@, 1, Len(@) - 1) \o <<[@[Len(@)] EXCEPT !.ok = FALSE]>>]
    /\ at' = [at EXCEPT ![Other(e)] = "closed"] /\ why' = [why EXCEPT ![Other(e)] = "eof"]
    /\ UNCHANGED <<dest, hs, rw, wrote, sent, got>>

Next == \/ SendAuth \/ HandleAuth \/ HandleResp
        \/ \E e \in End : \/ WriteHandshake(e) \/ ReadHandshake(e) \/ HandshakeFails(e) \/ Upgrade(e)
                          \/ Send(e) \/ Receive(e) \/ Close(e) \/ Fails(e) \/ Damage(e) \/ Cut(e)
Spec == Init /\ [][Next]_vars

-----------------------------------------------------------------------------
TypeOK == /\ \A e \in End : at[e] \in {"auth", "authWait", "respWait", "proto", "protoRead", "protoBad", "protoDisc", "open", "closed"}
          /\ faults \in 0..MaxFaults
          /\ \A e \in End : rw[e].enc >= 0 /\ rw[e].dec <= rw[Other(e)].enc

\* What an end reads is a prefix of what the other end sent, compressed or
\* not, whatever happens to the stream.
ReadsPrefix == \A e \in End : /\ Len(got[e]) <= Len(sent[Other(e)])
                              /\ got[e] = SubSeq(sent[Other(e)], 1, Len(got[e]))

\* The initiator completes the encryption handshake only with the node it
\* dialed, and both ends then hold the same keys with crossed MAC states.
KeysAgree ==
    at["init"] \in {"proto", "protoRead", "open"} =>
        /\ dest = "recv"
        /\ rw["init"].aes = rw["recv"].aes /\ rw["init"].aes # <<>>
        /\ Head(rw["init"].egress) = Head(rw["recv"].ingress)
        /\ Head(rw["init"].ingress) = Head(rw["recv"].egress)

\* No frame is rejected unless the stream was damaged: MAC states, cipher
\* positions, padding and the switch to compression stay in step.
FramesInStep == \A e \in End : why[e] = "frame" => faults > 0

-----------------------------------------------------------------------------
(***************************************************************************)
(* One direction of a message pipe (p2p/message.go): WriteMsg hands a      *)
(* message over and blocks until its payload has been consumed; the        *)
(* payload reader (eofSignal) reports when the last byte has been read or  *)
(* the read has failed; Close may be called at any moment, more than once. *)
(***************************************************************************)

CONSTANTS Writer, Reader, Size, MaxMsgs, Closers

VARIABLES closed,     \* the atomic counter
          closing,    \* the channel has been closed
          wr,          \* writer -> [pc, size, signal, result]
          rd,          \* reader -> [pc, from, left]
          pipeSent,       \* messages written so far
          calls       \* closer -> "no" | "counted" | "done"
pipeVars == <<closed, closing, wr, rd, pipeSent, calls>>

idle == [pc |-> "idle", size |-> 0, signal |-> FALSE, failed |-> FALSE, result |-> "none"]
none == [pc |-> "idle", from |-> CHOOSE x \in Writer : TRUE, left |-> 0]

PipeInit == /\ closed = 0 /\ closing = FALSE /\ pipeSent = 0
            /\ wr = [x \in Writer |-> idle] /\ rd = [x \in Reader |-> none]
            /\ calls = [c \in Closers |-> "no"]

\* WriteMsg: an early return on a closed pipe.
Write(x) ==
    /\ wr[x].pc \in {"idle", "returned"} /\ pipeSent < MaxMsgs /\ pipeSent' = pipeSent + 1
    /\ \E n \in Size : wr' = [wr EXCEPT ![x] = IF closed = 0 THEN [idle EXCEPT !.pc = "offer", !.size = n]
                                               ELSE [idle EXCEPT !.pc = "returned", !.size = n, !.result = "ErrPipeClosed"]]
    /\ UNCHANGED <<closed, closing, rd, calls>>

\* ReadMsg looks at the counter and then waits.
Read(x) ==
    /\ rd[x].pc = "idle"
    /\ rd' = [rd EXCEPT ![x].pc = IF closed = 0 THEN "wait" ELSE "closed"]
    /\ UNCHANGED <<closed, closing, wr, pipeSent, calls>>

\* The message changes hands; a message of size zero needs no reader.
Taken(m) == IF m.size > 0 THEN [m EXCEPT !.pc = "consumed?"] ELSE [m EXCEPT !.pc = "returned", !.result = "nil"]
Rendezvous(x, y) ==
    /\ wr[x].pc = "offer" /\ rd[y].pc = "wait"
    /\ wr' = [wr EXCEPT ![x] = Taken(@)]
    /\ rd' = [rd EXCEPT ![y] = [pc |-> IF wr[x].size > 0 THEN "payload" ELSE "idle", from |-> x, left |-> wr[x].size]]
    /\ UNCHANGED <<closed, closing, pipeSent, calls>>

\* eofSignal.Read: some bytes, or an error of the wrapped reader.
Consume(y) ==
    /\ rd[y].pc = "payload"
    /\ \E n \in 0..rd[y].left, err \in BOOLEAN :
          LET left == rd[y].left - n
              end == err \/ left = 0
          IN /\ n > 0 \/ err
             /\ rd' = [rd EXCEPT ![y].left = left, ![y].pc = IF end THEN "idle" ELSE "payload"]
             /\ wr' = [wr EXCEPT ![rd[y].from].signal = @ \/ end, ![rd[y].from].failed = err]
    /\ UNCHANGED <<closed, closing, pipeSent, calls>>

Consumed(x) ==
    /\ wr[x].pc = "consumed?" /\ wr[x].signal
    /\ wr' = [wr EXCEPT ![x].pc = "returned", ![x].result = "nil"]
    /\ UNCHANGED <<closed, closing, rd, pipeSent, calls>>

\* The closing channel ends every wait: a write that was never taken fails,
\* one whose payload was still being read does not.
WriteClosed(x) ==
    /\ closing /\ wr[x].pc \in {"offer", "consumed?"}
    /\ wr' = [wr EXCEPT ![x].pc = "returned", ![x].result = IF wr[x].pc = "offer" THEN "ErrPipeClosed" ELSE "nil"]
    /\ UNCHANGED <<closed, closing, rd, pipeSent, calls>>
ReadClosed(x) ==
    /\ closing /\ rd[x].pc = "wait" /\ rd' = [rd EXCEPT ![x].pc = "closed"]
    /\ UNCHANGED <<closed, closing, wr, pipeSent, calls>>

\* Close: the first to count closes the channel, the others only reset the
\* counter.
Count(c) ==
    /\ calls[c] = "no" /\ closed' = closed + 1
    /\ calls' = [calls EXCEPT ![c] = IF closed = 0 THEN "first" ELSE "later"]
    /\ UNCHANGED <<closing, wr, rd, pipeSent>>
CloseFirst(c) ==
    /\ calls[c] = "first" /\ closing' = TRUE /\ calls' = [calls EXCEPT ![c] = "done"]
    /\ UNCHANGED <<closed, wr, rd, pipeSent>>
CloseLater(c) ==
    /\ calls[c] = "later" /\ closed' = 1 /\ calls' = [calls EXCEPT ![c] = "done"]
    /\ UNCHANGED <<closing, wr, rd, pipeSent>>

Writes(x) == Write(x) \/ Consumed(x) \/ WriteClosed(x)
Reads(y) == Read(y) \/ Consume(y) \/ ReadClosed(y)
Closes(c) == Count(c) \/ CloseFirst(c) \/ CloseLater(c)
PipeNext == \/ \E x \in Writer : Writes(x)
            \/ \E y \in Reader : Reads(y)
            \/ \E x \in Writer, y \in Reader : Rendezvous(x, y)
            \/ \E c \in Closers : Closes(c)
PipeSpec == PipeInit /\ [][PipeNext]_pipeVars

-----------------------------------------------------------------------------
PipeTypeOK == /\ closed \in 0..Cardinality(Closers) /\ closing \in BOOLEAN
              /\ \A x \in Writer : wr[x].pc \in {"idle", "offer", "consumed?", "returned"}

\* While the pipe is open, a write that has returned was taken and its payload
\* read to the end, unless the read failed.
WriteMeansConsumed ==
    \A x \in Writer : (wr[x].result = "nil" /\ ~closing /\ wr[x].size > 0 /\ ~wr[x].failed) =>
        \A y \in Reader : ~(rd[y].pc = "payload" /\ rd[y].from = x)

\* Once the counter has left zero it never returns, so nothing starts on a
\* closed pipe, and the channel is closed once.
ClosedForGood ==
    /\ closing => closed >= 1
    /\ Cardinality({c \in Closers : calls[c] = "first"}) <= 1
    /\ (closing => \A c \in Closers : calls[c] # "first")
=============================================================================
