------------------------------ MODULE Framing ------------------------------
(***************************************************************************)
(* The framing layer of utils.rs (trait UnixStreamExt, lines 103-160): one *)
(* peer writes a request field by field with write_u8 / write_u32 /        *)
(* write_usize / write_string, the other reads the same fields with the    *)
(* read_* methods.  Bytes cross a stream socket: a write(2) may take any   *)
(* non-empty part of what write_all still has to send, and a read(2)      *)
(* returns any non-empty part of what is buffered, at most what            *)
(* read_exact still needs.  The writer may die at any point; the kernel    *)
(* then closes its end, and a read on an empty buffer returns 0 (EOF),     *)
(* which read_exact turns into an UnexpectedEof error.                     *)
(*                                                                         *)
(* A byte is an integer in 0..255; integers are encoded to_ne_bytes on a   *)
(* little-endian target (every Android ABI), usize with UsizeWidth bytes.  *)
(* String payloads are drawn from ASCII and the byte 0xFF, which is never  *)
(* part of valid UTF-8, so String::from_utf8 fails exactly when 0xFF is    *)
(* present.                                                                *)
(***************************************************************************)
EXTENDS Naturals, Sequences

CONSTANTS
  UsizeWidth,   \* std::mem::size_of::<usize>(): 4 or 8
  Messages      \* the requests a peer may send: sequences of fields

Types == {"u8", "u32", "usize", "string"}

Width(type) == CASE type = "u8" -> 1 [] type = "u32" -> 4 [] OTHER -> UsizeWidth

ASSUME UsizeWidthAssumption == UsizeWidth \in {4, 8}

VARIABLES
  msg,      \* the fields the writer sends, [type, value] records
  wfield,   \* index of the field write_* is sending
  wsent,    \* bytes of that field's encoding already written
  wclosed,  \* the writer's end of the stream is closed
  wire,     \* bytes in the socket buffer, not yet read
  rfield,   \* index of the field read_* is decoding
  rstage,   \* "int", "len" or "body": which read_exact is running
  rneed,    \* the length of read_exact's buffer
  rbuf,     \* bytes read_exact has filled so far
  got,      \* the values the read_* calls returned Ok
  rstate,   \* "reading", "done" or "error"
  sent,     \* history: every byte write_all has written, in order
  starts    \* history: starts[i] is the number of bytes written before field i

vars == <<msg, wfield, wsent, wclosed, wire, rfield, rstage, rneed, rbuf, got, rstate,
          sent, starts>>

\* The value shifted right by 0, 8, ..., 56 bits.  to_ne_bytes and
\* from_ne_bytes act on at most 8 bytes (u8, u32, usize of a 64-bit ABI).
Shifted(v) ==
  LET s2 == v \div 256   s3 == s2 \div 256  s4 == s3 \div 256  s5 == s4 \div 256
      s6 == s5 \div 256  s7 == s6 \div 256  s8 == s7 \div 256
  IN  <<v, s2, s3, s4, s5, s6, s7, s8>>

\* value.to_ne_bytes() for a w-byte integer, little-endian: byte i is the
\* value shifted right by 8(i-1) bits, truncated to 8 bits.
Encode(v, w) == [i \in 1..w |-> Shifted(v)[i] % 256]

\* v fits in w bytes: shifted right by 8(w-1) bits, less than a byte is left.
Fits(v, w) == Shifted(v)[w] < 256

\* Byte i of bs, 0 past its end.
ByteAt(bs, i) == IF i <= Len(bs) THEN bs[i] ELSE 0

\* u8, u32::from_ne_bytes and usize::from_ne_bytes, little-endian, evaluated
\* from the most significant byte down.
Decode(bs) ==
  ByteAt(bs, 1) + 256 * (ByteAt(bs, 2) + 256 * (ByteAt(bs, 3) + 256 * (ByteAt(bs, 4)
    + 256 * (ByteAt(bs, 5) + 256 * (ByteAt(bs, 6) + 256 * (ByteAt(bs, 7)
    + 256 * ByteAt(bs, 8)))))))

\* The length prefix of a string field: value.len(), unless the field
\* stands for a malformed request whose prefix says otherwise ("len").
Claimed(f) == IF "len" \in DOMAIN f THEN f.len ELSE Len(f.value)

\* The bytes write_<type>(value) hands to write_all, in order; write_string
\* is write_usize(len) followed by write_all(bytes).
Encoding(f) ==
  IF f.type = "string" THEN Encode(Claimed(f), UsizeWidth) \o f.value
                       ELSE Encode(f.value, Width(f.type))

\* String::from_utf8 over the modelled byte alphabet.
Utf8Ok(bs) == \A i \in DOMAIN bs : bs[i] # 255

\* The reader starts read_* for field i: a string begins with its length.
StartField(i) ==
  /\ rfield' = i
  /\ IF i > Len(msg)
       THEN rstage' = "int" /\ rneed' = 0 /\ rstate' = "done"
       ELSE /\ rstage' = IF msg[i].type = "string" THEN "len" ELSE "int"
            /\ rneed' = Width(msg[i].type)
            /\ rstate' = "reading"

Init ==
  /\ msg \in Messages
  /\ wfield = 1 /\ wsent = 0 /\ wclosed = FALSE
  /\ wire = <<>>
  /\ rbuf = <<>> /\ got = <<>>
  /\ rfield = 1
  /\ rstage = IF msg[1].type = "string" THEN "len" ELSE "int"
  /\ rneed = Width(msg[1].type)
  /\ rstate = "reading"
  /\ sent = <<>> /\ starts = <<0>>

\* One write(2) inside write_all: a non-empty part of the rest of the field;
\* when the field is complete, write_* returns and the next one starts.
Write ==
  /\ ~wclosed /\ wfield <= Len(msg)
  /\ LET enc == Encoding(msg[wfield]) IN
     \E k \in 1..(Len(enc) - wsent) :
       LET chunk == SubSeq(enc, wsent + 1, wsent + k) IN
       /\ wire' = wire \o chunk
       /\ sent' = sent \o chunk
       /\ IF wsent + k = Len(enc)
            THEN wfield' = wfield + 1 /\ wsent' = 0 /\ starts' = Append(starts, Len(sent'))
            ELSE UNCHANGED <<wfield, starts>> /\ wsent' = wsent + k
  /\ UNCHANGED <<msg, wclosed, rfield, rstage, rneed, rbuf, got, rstate>>

\* The writing process exits or dies; its descriptor is closed.
WriterClose ==
  /\ ~wclosed
  /\ wclosed' = TRUE
  /\ UNCHANGED <<msg, wfield, wsent, wire, rfield, rstage, rneed, rbuf, got, rstate,
                 sent, starts>>

\* One read(2) inside read_exact.
ReadChunk ==
  /\ rstate = "reading" /\ Len(rbuf) < rneed /\ wire # <<>>
  /\ \E k \in 1..Len(wire) :
       /\ k <= rneed - Len(rbuf)
       /\ rbuf' = rbuf \o SubSeq(wire, 1, k)
       /\ wire' = SubSeq(wire, k + 1, Len(wire))
  /\ UNCHANGED <<msg, wfield, wsent, wclosed, rfield, rstage, rneed, got, rstate,
                 sent, starts>>

\* A mutation of ReadEof: a read loop that takes a 0-byte read for "nothing
\* yet" and polls again, never reporting the closed stream.
ReadEofRetry ==
  /\ rstate = "reading" /\ Len(rbuf) < rneed /\ wire = <<>> /\ wclosed
  /\ UNCHANGED vars

\* read(2) returns 0 before the buffer is full: read_exact fails, and the
\* `?` of the read_* call propagates the error.
ReadEof ==
  /\ rstate = "reading" /\ Len(rbuf) < rneed /\ wire = <<>> /\ wclosed
  /\ rstate' = "error"
  /\ UNCHANGED <<msg, wfield, wsent, wclosed, wire, rfield, rstage, rneed, rbuf, got,
                 sent, starts>>

\* A mutation of ReadDone: read_string sizes its buffer one byte long, as
\* if a terminator followed the string.
ReadDoneWithTerminator ==
  /\ rstate = "reading" /\ Len(rbuf) = rneed
  /\ rbuf' = <<>>
  /\ CASE rstage = "int" ->
            /\ got' = Append(got, Decode(rbuf))
            /\ StartField(rfield + 1)
       [] rstage = "len" ->
            /\ rstage' = "body" /\ rneed' = Decode(rbuf) + 1
            /\ UNCHANGED <<rfield, got, rstate>>
       [] rstage = "body" /\ Utf8Ok(rbuf) ->
            /\ got' = Append(got, rbuf)
            /\ StartField(rfield + 1)
       [] rstage = "body" /\ ~Utf8Ok(rbuf) ->
            /\ rstate' = "error"
            /\ UNCHANGED <<rfield, rstage, rneed, got>>
  /\ UNCHANGED <<msg, wfield, wsent, wclosed, wire, sent, starts>>

\* A mutation of ReadDone: read_string returns the bytes without checking
\* them with String::from_utf8.
ReadDoneNoUtf8Check ==
  /\ rstate = "reading" /\ Len(rbuf) = rneed
  /\ rbuf' = <<>>
  /\ CASE rstage = "int" ->
            /\ got' = Append(got, Decode(rbuf))
            /\ StartField(rfield + 1)
       [] rstage = "len" ->
            /\ rstage' = "body" /\ rneed' = Decode(rbuf)
            /\ UNCHANGED <<rfield, got, rstate>>
       [] rstage = "body" ->
            /\ got' = Append(got, rbuf)
            /\ StartField(rfield + 1)
  /\ UNCHANGED <<msg, wfield, wsent, wclosed, wire, sent, starts>>

\* read_exact has filled its buffer: read_u8/u32/usize return the value;
\* read_string turns the length into a buffer of that many bytes, then
\* validates the bytes with String::from_utf8.
ReadDone ==
  /\ rstate = "reading" /\ Len(rbuf) = rneed
  /\ rbuf' = <<>>
  /\ CASE rstage = "int" ->
            /\ got' = Append(got, Decode(rbuf))
            /\ StartField(rfield + 1)
       [] rstage = "len" ->
            /\ rstage' = "body" /\ rneed' = Decode(rbuf)
            /\ UNCHANGED <<rfield, got, rstate>>
       [] rstage = "body" /\ Utf8Ok(rbuf) ->
            /\ got' = Append(got, rbuf)
            /\ StartField(rfield + 1)
       [] rstage = "body" /\ ~Utf8Ok(rbuf) ->
            /\ rstate' = "error"
            /\ UNCHANGED <<rfield, rstage, rneed, got>>
  /\ UNCHANGED <<msg, wfield, wsent, wclosed, wire, sent, starts>>

Terminated ==
  /\ rstate # "reading" /\ (wclosed \/ wfield > Len(msg))
  /\ UNCHANGED vars

Next == Write \/ WriterClose \/ ReadChunk \/ ReadEof \/ ReadDone \/ Terminated

\* Both processes are scheduled by the kernel; the writer's exit is not
\* assumed, only that a live writer keeps writing.
Spec == Init /\ [][Next]_vars /\ WF_vars(Write) /\ WF_vars(ReadChunk \/ ReadEof \/ ReadDone)

-----------------------------------------------------------------------------
(* Properties.                                                             *)

TypeOK ==
  /\ wfield \in 1..(Len(msg) + 1) /\ wsent \in Nat /\ wclosed \in BOOLEAN
  /\ wire \in Seq(0..255) /\ rbuf \in Seq(0..255)
  /\ rfield \in 1..(Len(msg) + 1) /\ rstage \in {"int", "len", "body"}
  /\ rneed \in Nat /\ rstate \in {"reading", "done", "error"}

\* Every value a read_* call returns Ok is the value the peer's write_* call
\* at the same position sent, whatever way write(2) and read(2) split the
\* bytes: the little-endian encode/decode pair and the string length
\* prefix keep reader and writer in step.
ReadValuesAreWritten ==
  \A i \in 1..Len(got) : i <= Len(msg) /\ got[i] = msg[i].value

\* The reader finishes only with every field of the request, all strings
\* valid UTF-8; it fails only on a request cut short by the writer's
\* death or on a string that is not UTF-8.
ReaderOutcome ==
  /\ rstate = "done" =>
       /\ got = [i \in 1..Len(msg) |-> msg[i].value]
       /\ \A i \in 1..Len(msg) : msg[i].type = "string" => Utf8Ok(msg[i].value)
  /\ rstate = "error" =>
       \/ wclosed /\ wfield <= Len(msg)
       \/ msg[rfield].type = "string" /\ ~Utf8Ok(msg[rfield].value)

\* Every blocking read_* call returns, with a value or an error, when the
\* peer either completes its request or dies.
EveryReadReturns == <>(rstate # "reading")

=============================================================================
