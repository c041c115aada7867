--------------------------------- MODULE RLP ----------------------------------
(*****************************************************************************)
(* Package rlp: the decoding stream, the encoding buffer, the types, raw     *)
(* values, and decoding and encoding as wholes.                              *)
(*****************************************************************************)
EXTENDS Integers, Sequences, SequencesExt

-----------------------------------------------------------------------------
(***************************************************************************)
(* The reading half of package rlp (src/pkg/rlp/decode.go): the methods of  *)
(* Stream as functions of the stream, each giving the stream it leaves, the *)
(* value read and the error ("" for nil).  in is everything the reader will *)
(* deliver and pos how much it has delivered.  kind = "none" stands for the *)
(* code's -1: the next call of Kind reads a new header.                     *)
(***************************************************************************)

\* NewStream: a byte slice of this package limits itself, another reader does not.
Reset(in, limit, sized) ==
  [in |-> in, pos |-> 0, limited |-> limit > 0 \/ sized,
   remaining |-> IF limit > 0 THEN limit ELSE IF sized THEN Len(in) ELSE 0,
   kind |-> "none", size |-> 0, byteval |-> 0, kinderr |-> "", stack |-> <<>>]

NewListStream(in, len, sized) ==
  [Reset(in, len, sized) EXCEPT !.kind = "List", !.size = len]

Result(s, val, err) == [s |-> s, val |-> val, err |-> err]
InList(s) == s.stack # <<>>
Room(s) == Last(s.stack).size - Last(s.stack).pos
Advance(s, n) ==
  IF InList(s) THEN [s EXCEPT !.stack[Len(s.stack)].pos = @ + n] ELSE s
Spend(s, n) == IF s.limited THEN [s EXCEPT !.remaining = @ - n] ELSE s
Rearm(s) == [s EXCEPT !.kind = "none"]

willRead(s, n) ==
  IF InList(s) /\ n > Room(s) THEN Result(Rearm(s), 0, "ErrElemTooLarge")
  ELSE IF s.limited /\ n > s.remaining
  THEN Result(Advance(Rearm(s), n), 0, "ErrValueTooLarge")
  ELSE Result(Spend(Advance(Rearm(s), n), n), 0, "")

\* What the reader has of the next n bytes.
Taken(s, n) ==
  IF s.pos + n > Len(s.in)
  THEN Result([s EXCEPT !.pos = Len(s.in)], <<>>, "ErrUnexpectedEOF")
  ELSE Result([s EXCEPT !.pos = @ + n], SubSeq(s.in, s.pos + 1, s.pos + n), "")

Then(r, Op(_)) == IF r.err # "" THEN r ELSE Op(r)

readFull(s, n) == Then(willRead(s, n), LAMBDA r : Taken(r.s, n))

readByte(s) ==
  Then(readFull(s, 1), LAMBDA r : Result(r.s, r.val[1], ""))

BigEndian(bytes) == FoldLeft(LAMBDA a, b : 256 * a + b, 0, bytes)

readUint(s, size) ==
  CASE size = 0 -> Result(Rearm(s), 0, "")
    [] size = 1 -> readByte(s)
    [] OTHER -> Then(readFull(s, size), LAMBDA r :
         IF r.val[1] = 0 THEN Result(r.s, 0, "ErrCanonSize")
         ELSE Result(r.s, BigEndian(r.val), ""))

\* The length of a long string or list, read from sizesize bytes.
LongSize(r, kind) ==
  [s |-> r.s, kind |-> kind, size |-> IF r.err = "" THEN r.val ELSE 0,
   err |-> IF r.err = "" /\ r.val < 56 THEN "ErrCanonSize" ELSE r.err]

ShortSize(s, kind, size) == [s |-> s, kind |-> kind, size |-> size, err |-> ""]

KindOf(b) == IF b < 128 THEN "Byte" ELSE IF b < 192 THEN "String" ELSE "List"

\* Tags 184..191 and 248..255 give the number of bytes of the size instead of it.
Tagged(s, b) ==
  CASE b < 128 -> ShortSize(s, "Byte", 0)
    [] b \in (128 .. 183) \cup (192 .. 247) -> ShortSize(s, KindOf(b), (b - 128) % 64)
    [] OTHER -> LongSize(readUint(s, ((b - 128) % 64) - 55), KindOf(b))

Header(r) ==
  IF r.err = ""
  THEN Tagged([r.s EXCEPT !.byteval = IF r.val < 128 THEN r.val ELSE 0], r.val)
  ELSE [s |-> r.s, kind |-> "Byte", size |-> 0,
        err |-> IF ~InList(r.s) THEN "EOF" ELSE r.err]

readKind(s) == Header(readByte(s))

\* Does the value just announced fit into its list, or into the input?
\* Mutant: the check against the enclosing list left out.
fitsAnyList(s, size) ==
  IF s.limited /\ size > s.remaining THEN "ErrValueTooLarge" ELSE ""

fits(s, size) ==
  IF InList(s) THEN IF size > Room(s) THEN "ErrElemTooLarge" ELSE ""
  ELSE IF s.limited /\ size > s.remaining THEN "ErrValueTooLarge" ELSE ""

Noted(h) ==
  [h.s EXCEPT !.kind = h.kind, !.size = h.size,
              !.kinderr = IF h.err = "" THEN fits(h.s, h.size) ELSE h.err]

Seen(s) == Result(s, s.kind, s.kinderr)

\* val is the kind; the size is that of the stream left.
Kind(s) ==
  IF s.kind # "none" THEN Seen(s)
  ELSE IF InList(s) /\ Room(s) = 0
  THEN Result([s EXCEPT !.kinderr = ""], "Byte", "EOL")
  ELSE Seen(Noted(readKind(s)))

Bytes(s) ==
  Then(Kind(s), LAMBDA k :
    CASE k.val = "Byte" -> Result(Rearm(k.s), <<k.s.byteval>>, "")
      [] k.val = "String" -> Then(readFull(k.s, k.s.size), LAMBDA r :
           IF k.s.size = 1 /\ r.val[1] < 128 THEN Result(r.s, <<>>, "ErrCanonSize")
           ELSE r)
      [] OTHER -> Result(k.s, <<>>, "ErrExpectedString"))

\* val is the kind and the content: the header written anew is a function of them.
Raw(s) ==
  Then(Kind(s), LAMBDA k :
    IF k.val = "Byte"
    THEN Result(Rearm(k.s), [kind |-> "Byte", content |-> <<k.s.byteval>>], "")
    ELSE Then(readFull(k.s, k.s.size), LAMBDA r :
           Result(r.s, [kind |-> k.val, content |-> r.val], "")))

\* readUint's complaint is about a size; here it is about the number.
Number(r, size) ==
  CASE r.err = "ErrCanonSize" -> Result(r.s, 0, "ErrCanonInt")
    [] r.err = "" /\ size > 0 /\ r.val < 128 -> Result(r.s, 0, "ErrCanonSize")
    [] OTHER -> r

Uint(s, maxbytes) ==
  Then(Kind(s), LAMBDA k :
    CASE k.val = "Byte" ->
           IF k.s.byteval = 0 THEN Result(k.s, 0, "ErrCanonInt")
           ELSE Result(Rearm(k.s), k.s.byteval, "")
      [] k.val = "String" /\ k.s.size > maxbytes -> Result(k.s, 0, "errUintOverflow")
      [] k.val = "String" /\ k.s.size <= maxbytes ->
           Number(readUint(k.s, k.s.size), k.s.size)
      [] OTHER -> Result(k.s, 0, "ErrExpectedString"))

Bool(s) ==
  Then(Uint(s, 1), LAMBDA r :
    IF r.val \in {0, 1} THEN Result(r.s, r.val = 1, "")
    ELSE Result(r.s, FALSE, "invalid boolean"))

List(s) ==
  Then(Kind(s), LAMBDA k :
    IF k.val # "List" THEN Result(k.s, 0, "ErrExpectedList")
    ELSE Result([Rearm(k.s) EXCEPT !.stack = Append(@, [pos |-> 0, size |-> k.s.size]),
                                   !.size = 0],
                k.s.size, ""))

ListEnd(s) ==
  IF ~InList(s) THEN Result(s, 0, "errNotInList")
  ELSE IF Room(s) # 0 THEN Result(s, 0, "errNotAtEOL")
  ELSE Result(Advance([Rearm(s) EXCEPT !.stack = Front(@), !.size = 0],
                      Last(s.stack).size), 0, "")

-----------------------------------------------------------------------------
(***************************************************************************)
(* The writing half of package rlp (src/pkg/rlp/encode.go): the encbuf an   *)
(* encoder fills, in which string data and list headers are kept apart      *)
(* until the sizes of all lists are known, and the three ways out of it,    *)
(* toBytes, toWriter and encReader.  Bytes are numbers below 256; sizes     *)
(* stay below 2^31.                                                         *)
(***************************************************************************)

RECURSIVE putint(_)
putint(i) == IF i < 256 THEN <<i>> ELSE Append(putint(i \div 256), i % 256)

intsize(i) == Len(putint(i))

headsize(size) == IF size < 56 THEN 1 ELSE 1 + intsize(size)

puthead(smalltag, largetag, size) ==
  IF size < 56 THEN <<smalltag + size>>
  ELSE <<largetag + intsize(size)>> \o putint(size)

\* str holds everything except list headers; offset is a header's place in it.
emptybuf == [str |-> <<>>, lheads |-> <<>>, lhsize |-> 0]

write(w, bytes) == [w EXCEPT !.str = @ \o bytes]

encodeStringHeader(w, size) == write(w, puthead(128, 183, size))

encodeString(w, b) ==
  IF Len(b) = 1 /\ b[1] <= 127 THEN write(w, b)
  ELSE write(encodeStringHeader(w, Len(b)), b)

bufsize(w) == Len(w.str) + w.lhsize

list(w) ==
  [w EXCEPT !.lheads = Append(@, [offset |-> Len(w.str), size |-> w.lhsize])]

listEnd(w, i) ==
  LET size == bufsize(w) - w.lheads[i].offset - w.lheads[i].size IN
    [w EXCEPT !.lheads[i].size = size, !.lhsize = @ + headsize(size)]

encodeHead(head) == puthead(192, 247, head.size)

toBytes(w) ==
  LET Put(acc, head) ==
        [out |-> acc.out \o SubSeq(w.str, acc.strpos + 1, head.offset)
                         \o encodeHead(head),
         strpos |-> head.offset]
      last == FoldLeft(Put, [out |-> <<>>, strpos |-> 0], w.lheads)
  IN  last.out \o SubSeq(w.str, last.strpos + 1, Len(w.str))

-----------------------------------------------------------------------------
(* encReader: piece is the part of the data the last Read did not take.     *)

newReader == [lhpos |-> 1, strpos |-> 0, piece |-> <<>>, released |-> FALSE]

next(r, w) ==
  CASE r.released -> r
    [] ~r.released /\ r.piece # <<>> -> r
    [] ~r.released /\ r.piece = <<>> /\ r.lhpos <= Len(w.lheads) ->
         IF w.lheads[r.lhpos].offset > r.strpos
         THEN [r EXCEPT !.piece = SubSeq(w.str, r.strpos + 1, w.lheads[r.lhpos].offset),
                        !.strpos = w.lheads[r.lhpos].offset]
         ELSE [r EXCEPT !.piece = encodeHead(w.lheads[r.lhpos]), !.lhpos = @ + 1]
    [] OTHER -> [r EXCEPT !.piece = SubSeq(w.str, r.strpos + 1, Len(w.str)),
                          !.strpos = Len(w.str)]

\* Read into a buffer of n bytes: the reader left, the bytes read, the error.
RECURSIVE Read(_, _, _, _)
Read(r, w, n, got) ==
  LET x  == next(r, w)
      nn == IF n < Len(x.piece) THEN n ELSE Len(x.piece)
  IN  IF x.piece = <<>>
      THEN [r |-> [x EXCEPT !.released = TRUE], got |-> got, err |-> "EOF"]
      ELSE IF nn < Len(x.piece)
      THEN [r |-> [x EXCEPT !.piece = SubSeq(@, nn + 1, Len(@))],
            got |-> got \o SubSeq(x.piece, 1, nn), err |-> ""]
      ELSE Read([x EXCEPT !.piece = <<>>], w, n - nn, got \o x.piece)

-----------------------------------------------------------------------------
(***************************************************************************)
(* The readers and writers of typed values that makeDecoder                 *)
(* (src/pkg/rlp/decode.go) and makeWriter (encode.go) pick.  A type is a    *)
(* record whose k names its case: "uint" (of n bytes), "bool", "bytes" (and *)
(* Go strings), "bytearray" (of n bytes), "big", "raw", "slice" and "array" *)
(* (of e), "struct" (fs, a sequence of fields [t, tag]), "ptr" (to e) and   *)
(* "iface".  The first six are leaves: one value, one call.                 *)
(***************************************************************************)

\* A big integer is its bytes without leading zeros, as SetBytes and Bytes of
\* math/big convert them.

decodeBigInt(s) ==
  Then(Bytes(s), LAMBDA r :
    IF r.val # <<>> /\ r.val[1] = 0 THEN Result(r.s, <<>>, "ErrCanonInt") ELSE r)

\* The error of s.Uint is dropped; on byte 0 it leaves the stream where it was.
SingleByte(u) == Result(u.s, <<u.val>>, "")

decodeByteArray(s, n) ==
  Then(Kind(s), LAMBDA k :
    CASE k.val = "List" -> Result(k.s, <<>>, "ErrExpectedString")
      [] k.val = "Byte" /\ n = 1 -> SingleByte(Uint(k.s, 8))
      [] k.val = "String" /\ n = k.s.size -> Then(readFull(k.s, n), LAMBDA r :
           IF n = 1 /\ r.val[1] < 128 THEN Result(r.s, <<>>, "ErrCanonSize") ELSE r)
      [] OTHER -> Result(k.s, <<>>, "input string too long or too short"))

decodeLeaf(s, t) ==
  CASE t.k = "uint" -> Uint(s, t.n)
    [] t.k = "bool" -> Bool(s)
    [] t.k = "bytes" -> Bytes(s)
    [] t.k = "bytearray" -> decodeByteArray(s, t.n)
    [] t.k = "big" -> decodeBigInt(s)
    [] t.k = "raw" -> Raw(s)

-----------------------------------------------------------------------------
writeUint(w, i) ==
  CASE i = 0 -> write(w, <<128>>)
    [] i \in 1 .. 127 -> write(w, <<i>>)
    [] OTHER -> write(w, <<128 + intsize(i)>> \o putint(i))

writeBigInt(w, i) == IF i = <<>> THEN write(w, <<128>>) ELSE encodeString(w, i)

writeBool(w, b) == write(w, IF b THEN <<1>> ELSE <<128>>)

\* The header Stream.Raw puts in front of the content again.
rawValue(v) ==
  CASE v.kind = "Byte" -> v.content
    [] v.kind = "String" -> puthead(128, 183, Len(v.content)) \o v.content
    [] OTHER -> puthead(192, 247, Len(v.content)) \o v.content

writeBytes(w, b) == encodeString(w, b)

writeLeaf(w, t, v) ==
  CASE t.k = "uint" -> writeUint(w, v)
    [] t.k = "bool" -> writeBool(w, v)
    [] t.k \in {"bytes", "bytearray"} -> writeBytes(w, v)
    [] t.k = "big" -> writeBigInt(w, v)
    [] t.k = "raw" -> write(w, rawValue(v))

\* A nil pointer: the empty string, or the empty list for structs and arrays.
writeNil(w, t) ==
  IF t.k \in {"struct", "array", "slice", "iface"} THEN listEnd(list(w), Len(w.lheads) + 1)
  ELSE write(w, <<128>>)

\* structFields: a field tagged "-" takes no part.
structFields(t) == SelectSeq(t.fs, LAMBDA f : f.tag # "-")

-----------------------------------------------------------------------------
(***************************************************************************)
(* Splitting encoded data without a stream (src/pkg/rlp/raw.go): readKind,  *)
(* Split, SplitString, SplitList and CountValues over a byte slice.  A read *)
(* past the end of the slice is the error "panic".                          *)
(***************************************************************************)

Head3(k, ts, cs, err) == [k |-> k, ts |-> ts, cs |-> cs, err |-> err]
From(b, n) == SubSeq(b, n + 1, Len(b))

readSize(b, slen) ==
  LET s == FoldLeft(LAMBDA a, x : 256 * a + x, 0, SubSeq(b, 1, slen)) IN
    IF slen > Len(b) THEN Head3("", 0, 0, "ErrUnexpectedEOF")
    ELSE IF s < 56 \/ b[1] = 0 THEN Head3("", 0, 0, "ErrCanonSize")
    ELSE Head3("", slen + 1, s, "")

\* A string of at most 55 bytes; buf[1] of the code is buf[2] here.
short(buf) ==
  IF buf[1] # 129 THEN Head3("String", 1, buf[1] - 128, "")
  ELSE IF Len(buf) < 2 THEN Head3("", 0, 0, "panic")
  ELSE IF buf[2] < 128 THEN Head3("", 0, 0, "ErrCanonSize")
  ELSE Head3("String", 1, 1, "")

header(buf) ==
  CASE buf[1] < 128 -> Head3("Byte", 0, 1, "")
    [] buf[1] \in 128 .. 183 -> short(buf)
    [] buf[1] \in 184 .. 191 -> [readSize(From(buf, 1), buf[1] - 183) EXCEPT !.k = "String"]
    [] buf[1] \in 192 .. 247 -> Head3("List", 1, buf[1] - 192, "")
    [] OTHER -> [readSize(From(buf, 1), buf[1] - 247) EXCEPT !.k = "List"]

within(h, n) ==
  IF h.err = "" /\ h.cs > n - h.ts THEN Head3("", 0, 0, "ErrValueTooLarge") ELSE h

readRawKind(buf) ==
  IF buf = <<>> THEN Head3("", 0, 0, "ErrUnexpectedEOF")
  ELSE within(header(buf), Len(buf))

Split(b) ==
  LET h == readRawKind(b) IN
    IF h.err # "" THEN [k |-> "", content |-> <<>>, rest |-> b, err |-> h.err]
    ELSE [k |-> h.k, content |-> SubSeq(b, h.ts + 1, h.ts + h.cs),
          rest |-> From(b, h.ts + h.cs), err |-> ""]

SplitString(b) ==
  LET x == Split(b) IN
    IF x.err = "" /\ x.k = "List"
    THEN [x EXCEPT !.content = <<>>, !.rest = b, !.err = "ErrExpectedString"] ELSE x

SplitList(b) ==
  LET x == Split(b) IN
    IF x.err = "" /\ x.k # "List"
    THEN [x EXCEPT !.content = <<>>, !.rest = b, !.err = "ErrExpectedList"] ELSE x

RECURSIVE CountValues(_)
CountValues(b) ==
  IF b = <<>> THEN [n |-> 0, err |-> ""]
  ELSE LET h == readRawKind(b) IN
    IF h.err # "" THEN [n |-> 0, err |-> h.err]
    ELSE LET r == CountValues(From(b, h.ts + h.cs)) IN
      IF r.err # "" THEN r ELSE [r EXCEPT !.n = @ + 1]

-----------------------------------------------------------------------------
(***************************************************************************)
(* Package rlp at work: a decoder that makes any sequence of calls of a     *)
(* Stream (src/pkg/rlp/decode.go) and writes each value it read to an       *)
(* encbuf (encode.go), which an encReader then hands out in pieces.  This   *)
(* is what the types with hand-written DecodeRLP and EncodeRLP methods do.  *)
(***************************************************************************)

CONSTANTS Inputs,      \* the byte strings a stream is opened on
          Types,       \* the types DecodeBytes is called with
          ReadSizes,   \* the buffer sizes Read is called with
          MaxInteger   \* the most bytes a hand-written decoder accepts for a number

VARIABLES stream,      \* the Stream
          target,      \* the type being decoded; Free for a hand-written decoder
          todo,        \* what is left to decode of it, innermost first
          err,         \* the error DecodeBytes returned; "done" for none
          buf,         \* the encbuf
          heads,       \* the list headers of buf that are not ended yet
          fault,       \* input was consumed and its value not delivered
          reader, out  \* the encReader, and what it has delivered
vars == <<stream, target, todo, err, buf, heads, fault, reader, out>>

Free == [k |-> "free"]
none == [newReader EXCEPT !.lhpos = 0]

\* A piece of decoding: a value; elements up to n of them (-1: all); a list's end.
Val(t, tag) == [op |-> "val", t |-> t, tag |-> tag, n |-> 0]
Elems(e, n) == [op |-> "elems", t |-> e, tag |-> "", n |-> n]
End == [op |-> "end", t |-> Free, tag |-> "", n |-> 0]

Streams(in) ==
  {Reset(in, Len(in), TRUE), Reset(in, 0, FALSE), NewListStream(in, Len(in), TRUE)}

Init ==
  /\ \E in \in Inputs :
       \/ /\ stream \in Streams(in)
          /\ target = Free
          /\ todo = <<>>
       \/ /\ stream = Reset(in, Len(in), TRUE)
          /\ target \in Types
          /\ todo = <<Val(target, "")>>
  /\ err = ""
  /\ buf = emptybuf
  /\ heads = <<>>
  /\ fault = FALSE
  /\ reader = none
  /\ out = <<>>

-----------------------------------------------------------------------------
(* A hand-written decoder calls the stream as it likes and goes on after    *)
(* errors; w is what its EncodeRLP counterpart writes for the result r.     *)

\* Input is gone without a value: a failed call consumed it, or ListEnd passed
\* over a value that Kind had announced.
Lost(r) ==
  /\ r.s.kind = "none"
  /\ IF r.err = "" THEN stream.kind # "none" /\ Len(r.s.stack) < Len(stream.stack)
     ELSE stream.kind # "none" \/ stream.pos # r.s.pos

Called(r, w, hs) ==
  /\ target = Free
  /\ reader = none
  /\ stream' = r.s
  /\ buf' = IF r.err = "" THEN w ELSE buf
  /\ heads' = IF r.err = "" THEN hs ELSE heads
  /\ fault' = (fault \/ Lost(r))
  /\ UNCHANGED <<target, todo, err, reader, out>>

Echo(r, t) == Called(r, IF r.err = "" THEN writeLeaf(buf, t, r.val) ELSE buf, heads)

PeekKind == Called(Kind(stream), buf, heads)
ReadBytes == Echo(Bytes(stream), [k |-> "bytes"])
ReadRaw == Echo(Raw(stream), [k |-> "raw"])
ReadUint == Echo(Uint(stream, MaxInteger), [k |-> "uint"])
ReadBool == Echo(Bool(stream), [k |-> "bool"])
ReadList == Called(List(stream), list(buf), Append(heads, Len(buf.lheads) + 1))
ReadListEnd ==
  Called(ListEnd(stream), IF heads = <<>> THEN buf ELSE listEnd(buf, Last(heads)),
         IF heads = <<>> THEN heads ELSE Front(heads))

-----------------------------------------------------------------------------
(* Stream.Decode: the decoder of a type, one call of the stream a step,     *)
(* with the writer of the type at work on what it read.                     *)

Decoding(op) == err = "" /\ todo # <<>> /\ todo[1].op = op

\* The call gave r; w is written and more replaces the first piece to do.  The
\* end of a list ends the elements of a slice or an array; it is an error in a
\* struct ("too few elements") and at the outermost level.
Step(r, w, hs, more) ==
  /\ stream' = r.s
  /\ CASE r.err = "" ->
            todo' = more \o Tail(todo) /\ buf' = w /\ heads' = hs /\ err' = ""
       [] r.err = "EOL" /\ todo[1].tag = "elem" ->
            /\ todo' = SubSeq(todo, 3, Len(todo))
            /\ err' = IF todo[2].n > 0 THEN "too few elements" ELSE ""
            /\ UNCHANGED <<buf, heads>>
       [] r.err # "" /\ ~(r.err = "EOL" /\ todo[1].tag = "elem") ->
            err' = r.err /\ UNCHANGED <<todo, buf, heads>>
  /\ UNCHANGED <<target, fault, reader, out>>

Leaf(r) ==
  Step(r, IF r.err = "" THEN writeLeaf(buf, todo[1].t, r.val) ELSE buf, heads, <<>>)

DecodeLeaf ==
  /\ Decoding("val")
  /\ todo[1].t.k \in {"uint", "bool", "bytes", "bytearray", "big", "raw"}
  /\ Leaf(decodeLeaf(stream, todo[1].t))

\* The writer of a slice begins a list header, the writer of a struct ends it.
Opened == Append(heads, Len(buf.lheads) + 1)
Closed == listEnd(buf, Last(heads))

\* What follows the call of List for a slice, an array or a struct.
Content(t) ==
  CASE t.k = "slice" -> <<Elems(t.e, -1), End>>
    [] t.k = "array" -> <<Elems(t.e, t.n), End>>
    [] t.k = "struct" ->
         [i \in DOMAIN structFields(t) |->
            Val(structFields(t)[i].t, structFields(t)[i].tag)] \o <<End>>

DecodeList ==
  /\ Decoding("val")
  /\ todo[1].t.k \in {"slice", "array", "struct"}
  /\ todo[1].tag # "tail"
  /\ Step(List(stream), list(buf), Opened, Content(todo[1].t))

\* The struct's own list goes on: no List, no ListEnd.
DecodeTail ==
  /\ Decoding("val")
  /\ todo[1].tag = "tail"
  /\ Step(Result(stream, 0, ""), buf, heads, <<Elems(todo[1].t.e, -1)>>)

DecodeElems ==
  /\ Decoding("elems")
  /\ Step(Result(stream, 0, ""), buf, heads,
          IF todo[1].n = 0 THEN <<>>
          ELSE <<Val(todo[1].t, "elem"), Elems(todo[1].t, todo[1].n - 1)>>)

DecodeEnd ==
  /\ Decoding("end")
  /\ Step(ListEnd(stream), Closed, Front(heads), <<>>)

\* A pointer: into its target, unless tagged "nil" and the input is empty.
Pointee == [todo[1] EXCEPT !.t = @.e, !.tag = IF @ = "elem" THEN @ ELSE ""]

Optional(k) ==
  IF k.err # "" \/ (k.s.size = 0 /\ k.val # "Byte")
  THEN Step([k EXCEPT !.s = Rearm(@)], writeNil(buf, todo[1].t.e), heads, <<>>)
  ELSE Step(k, buf, heads, <<Pointee>>)

DecodePointer ==
  /\ Decoding("val")
  /\ todo[1].t.k = "ptr"
  /\ IF todo[1].tag = "nil" THEN Optional(Kind(stream))
     ELSE Step(Result(stream, 0, ""), buf, heads, <<Pointee>>)

\* An interface value takes the shape of the input.
Shape(k) ==
  Step(k, buf, heads,
       <<[todo[1] EXCEPT !.t = IF k.val = "List" THEN [k |-> "slice", e |-> todo[1].t]
                               ELSE [k |-> "bytes"]]>>)

DecodeInterface ==
  /\ Decoding("val")
  /\ todo[1].t.k = "iface"
  /\ Shape(Kind(stream))

\* DecodeBytes: nothing may be left over.
DecodeBytes ==
  /\ target # Free
  /\ todo = <<>>
  /\ err = ""
  /\ err' = IF stream.pos < Len(stream.in) THEN "ErrMoreThanOneValue" ELSE "done"
  /\ UNCHANGED <<stream, target, todo, buf, heads, fault, reader, out>>

-----------------------------------------------------------------------------
EncodeToReader ==
  /\ reader = none
  /\ heads = <<>>
  /\ buf # emptybuf
  /\ err \in {"", "done"}
  /\ todo = <<>>
  /\ reader' = newReader
  /\ UNCHANGED <<stream, target, todo, err, buf, heads, fault, out>>

Delivered(r) == reader' = r.r /\ out' = out \o r.got

ReadOut(n) ==
  /\ reader # none
  /\ Delivered(Read(reader, buf, n, <<>>))
  /\ UNCHANGED <<stream, target, todo, err, buf, heads, fault>>

Next ==
  \/ PeekKind \/ ReadBytes \/ ReadRaw \/ ReadUint \/ ReadBool
  \/ ReadList \/ ReadListEnd
  \/ DecodeLeaf \/ DecodeList \/ DecodeTail \/ DecodeElems \/ DecodeEnd
  \/ DecodePointer \/ DecodeInterface \/ DecodeBytes
  \/ EncodeToReader
  \/ \E n \in ReadSizes : ReadOut(n)

Spec == Init /\ [][Next]_vars

-----------------------------------------------------------------------------
TypeOK ==
  /\ stream.pos \in 0 .. Len(stream.in)
  /\ stream.kind \in {"none", "Byte", "String", "List"}
  /\ target = Free \/ target \in Types
  /\ Len(heads) <= Len(buf.lheads)
  /\ fault \in BOOLEAN

\* The lists a stream is inside of nest: what is left of an inner list fits
\* into what is left of the one around it.  willRead and Kind subtract these
\* unsigned numbers without looking (decode.go).
ListsNest ==
  /\ \A i \in DOMAIN stream.stack :
       /\ stream.stack[i].pos <= stream.stack[i].size
       /\ i > 1 => stream.stack[i].size <= stream.stack[i-1].size - stream.stack[i-1].pos
  /\ stream.remaining >= 0

\* Between two values of the outermost level, and nothing went wrong so far.
Settled ==
  /\ ~fault /\ err \in {"", "done"}
  /\ ~InList(stream) /\ stream.kind = "none"
  /\ buf # emptybuf

\* A pointer tagged "nil" takes the empty string and the empty list alike.
Lenient(t) == t.k = "struct" /\ \E i \in DOMAIN t.fs : t.fs[i].tag = "nil"

Consumed == SubSeq(stream.in, 1, stream.pos)
Listed == puthead(192, 247, Len(stream.in)) \o Consumed

\* There is one encoding of every value: whatever a stream accepts, written
\* again through the encbuf, gives the very bytes that were consumed,
\* whichever calls or types read them (for a pointer tagged "nil", as many
\* bytes).  The reader hands out these bytes in
\* order, and all of them before it reports the end.
CanonicalForm ==
  /\ Settled => \/ toBytes(buf) \in {Consumed, Listed}
                \/ Lenient(target) /\ bufsize(buf) = stream.pos
  /\ heads = <<>> => Len(toBytes(buf)) = bufsize(buf)
  /\ reader # none =>
       /\ IsPrefix(out, toBytes(buf))
       /\ reader.released => out = toBytes(buf)

\* Split and Stream agree on strings, and what CountValues accepts as the
\* content of a list can be read value by value.
Agree(x, r) ==
  /\ x.err = "" => r.err = "" /\ r.val = x.content /\ r.s.pos = Len(r.s.in) - Len(x.rest)
  /\ r.err = "" => x.err = ""

SplitAgrees ==
  stream.pos = 0 /\ stream.limited /\ stream.kind = "none" /\ stream.in # <<>> =>
    /\ Agree(SplitString(stream.in), Bytes(stream))

RawList == [k |-> "slice", e |-> [k |-> "raw"]]
CountsAgree ==
  target = RawList /\ SplitList(stream.in).err = ""
    /\ CountValues(SplitList(stream.in).content).err = ""
    => err \in {"", "done", "ErrMoreThanOneValue"}
=============================================================================
