---------------------------- MODULE Framing_proofs ----------------------------
(***************************************************************************)
(* Proofs about the framing layer (Framing): for every request a writer    *)
(* can send with write_u8 / write_u32 / write_usize / write_string, every  *)
(* way write(2) and read(2) split its bytes, and every moment the writer   *)
(* may die, the reader returns the values written, in order.               *)
(***************************************************************************)
EXTENDS Framing, SequenceTheorems, TLAPS

(***************************************************************************)
(* What a writer sends through these methods.  An integer field holds a    *)
(* value of its Rust type, so it fits the type's width; a string field     *)
(* holds bytes whose count fits a usize, and write_string sends that count *)
(* (value.len()) as its prefix.                                            *)
(***************************************************************************)
IntFields == {f \in [type : {"u8", "u32", "usize"}, value : Nat] :
                Fits(f.value, Width(f.type))}

StrFields == {f \in [type : {"string"}, value : Seq(0..255)] :
                Fits(Len(f.value), UsizeWidth)}

Fields == IntFields \cup StrFields

\* Every request the dispatcher reads starts with its action byte, so none
\* is empty.
MessagesWellFormed == Messages \subseteq Seq(Fields) \ {<<>>}

-----------------------------------------------------------------------------
(* The stream invariant.                                                   *)

\* The bytes write_* hands to write_all for field i.
Enc(i) == Encoding(msg[i])

\* How many bytes of field i have been written.
Written(i) == IF i < wfield THEN Len(Enc(i)) ELSE wsent

\* The stream offset at which the running read_exact started: the start of
\* the field, or past the length prefix of a string.
RPos == starts[rfield] + (IF rstage = "body" THEN UsizeWidth ELSE 0)

\* The writer's history: sent is the encodings of the fields before wfield,
\* then the first wsent bytes of field wfield.
WriterInv ==
  /\ sent \in Seq(0..255) /\ starts \in Seq(Nat)
  /\ Len(starts) = wfield /\ starts[1] = 0
  /\ \A i, k \in 1..wfield : i <= k => starts[i] <= starts[k]
  /\ \A i \in 1..(wfield - 1) : starts[i + 1] = starts[i] + Len(Enc(i))
  /\ Len(sent) = starts[wfield] + wsent
  /\ wfield <= Len(msg) => wsent < Len(Enc(wfield))
  /\ wfield = Len(msg) + 1 => wsent = 0
  /\ \A i \in 1..Len(msg) : i <= wfield =>
       \A j \in 1..Written(i) : sent[starts[i] + j] = Enc(i)[j]

\* The reader's view: until a read fails, rbuf followed by the socket buffer
\* is what was sent from RPos on, and a running read_* expects the field
\* the writer sent.
ReaderInv ==
  /\ rfield <= wfield
  /\ rstate # "error" =>
       /\ RPos + Len(rbuf) + Len(wire) = Len(sent)
       /\ \A j \in 1..Len(rbuf) : rbuf[j] = sent[RPos + j]
       /\ \A j \in 1..Len(wire) : wire[j] = sent[RPos + Len(rbuf) + j]
  /\ rstate = "reading" =>
       /\ rfield <= Len(msg)
       /\ rstage \in IF msg[rfield].type = "string" THEN {"len", "body"} ELSE {"int"}
       /\ rneed = IF rstage = "body" THEN Len(msg[rfield].value)
                                     ELSE Width(msg[rfield].type)
       /\ Len(rbuf) <= rneed
  /\ rstate = "done" => rfield = Len(msg) + 1
  /\ rstate = "error" =>
       \/ wclosed /\ wfield <= Len(msg)
       \/ rfield <= Len(msg) /\ msg[rfield].type = "string"
          /\ ~Utf8Ok(msg[rfield].value)
  /\ got = [i \in 1..(rfield - 1) |-> msg[i].value]
  /\ \A i \in 1..(rfield - 1) : msg[i].type = "string" => Utf8Ok(msg[i].value)

FrameInv == TypeOK /\ msg \in Seq(Fields) /\ WriterInv /\ ReaderInv

-----------------------------------------------------------------------------
(* The integer codec.                                                      *)

USE UsizeWidthAssumption

\* Regrouping a sum of offsets, stated over names so that the proofs can
\* apply it to terms the solvers do not know to be numbers.
LEMMA AddAssoc ==
  ASSUME NEW a \in Nat, NEW b \in Nat, NEW c \in Nat
  PROVE  (a + b) + c = a + (b + c)
  OBVIOUS

LEMMA WidthRange == \A t \in Types : Width(t) \in {1, 4, 8}
  BY DEF Width, Types

\* The successive shifts v >> 8k that to_ne_bytes takes its bytes from.
LEMMA ShiftedNat ==
  ASSUME NEW v \in Nat
  PROVE  /\ Shifted(v) \in [1..8 -> Nat]
         /\ Shifted(v)[1] = v
         /\ \A i \in 1..7 : Shifted(v)[i + 1] = Shifted(v)[i] \div 256
  BY DEF Shifted

\* to_ne_bytes yields w bytes, byte i being (v >> 8(i-1)) % 256.
LEMMA EncodeBytes ==
  ASSUME NEW v \in Nat, NEW w \in 1..8
  PROVE  /\ Encode(v, w) \in [1..w -> 0..255]
         /\ Len(Encode(v, w)) = w
         /\ \A i \in 1..w : Encode(v, w)[i] = Shifted(v)[i] % 256
  <1>1. \A i \in 1..w : Shifted(v)[i] % 256 \in 0..255
    <2>1. Shifted(v) \in [1..8 -> Nat]
      BY ShiftedNat
    <2>2. QED
      BY <2>1, SMTT(30)
  <1>2. Encode(v, w) \in [1..w -> 0..255]
    BY <1>1 DEF Encode
  <1>3. QED
    BY <1>2 DEF Encode

\* The bytes of s1 \o s2: those of s1, then those of s2 (write_all sends
\* its buffer after what earlier calls sent).
LEMMA ConcatHead ==
  ASSUME NEW S, NEW s1 \in Seq(S), NEW s2 \in Seq(S), NEW i \in 1..Len(s1)
  PROVE  (s1 \o s2)[i] = s1[i]
  <1>1. \A k \in 1..(Len(s1) + Len(s2)) :
          (s1 \o s2)[k] = IF k <= Len(s1) THEN s1[k] ELSE s2[k - Len(s1)]
    BY ConcatProperties
  <1>2. i \in 1..(Len(s1) + Len(s2)) /\ i <= Len(s1)
    OBVIOUS
  <1>3. QED
    BY <1>1, <1>2

LEMMA ConcatTail ==
  ASSUME NEW S, NEW s1 \in Seq(S), NEW s2 \in Seq(S), NEW i \in 1..Len(s2)
  PROVE  (s1 \o s2)[Len(s1) + i] = s2[i]
  <1>1. \A k \in 1..(Len(s1) + Len(s2)) :
          (s1 \o s2)[k] = IF k <= Len(s1) THEN s1[k] ELSE s2[k - Len(s1)]
    BY ConcatProperties
  <1>2. /\ Len(s1) + i \in 1..(Len(s1) + Len(s2)) /\ ~(Len(s1) + i <= Len(s1))
        /\ Len(s1) + i - Len(s1) = i
    OBVIOUS
  <1>3. QED
    BY <1>1, <1>2

\* A slice of a byte string: the bytes m..n of s, renumbered from 1.
LEMMA SubSeqBytes ==
  ASSUME NEW s \in Seq(0..255), NEW m \in 1..(Len(s) + 1), NEW n \in (m - 1)..Len(s)
  PROVE  /\ SubSeq(s, m, n) \in Seq(0..255)
         /\ Len(SubSeq(s, m, n)) = n - m + 1
         /\ \A i \in 1..(n - m + 1) : SubSeq(s, m, n)[i] = s[m + i - 1]
  <1>1. \A i \in m..n : s[i] \in 0..255
    <2>1. SUFFICES ASSUME NEW i \in m..n PROVE s[i] \in 0..255
      OBVIOUS
    <2>2. i \in 1..Len(s)
      OBVIOUS
    <2>3. QED
      BY <2>2, ElementOfSeq, Zenon
  <1>2. QED
    BY <1>1, SubSeqProperties

\* The first k bytes of a byte string, and what follows them: what a
\* read(2) of k bytes takes from the socket buffer and what it leaves.
LEMMA SubSeqPrefix ==
  ASSUME NEW s \in Seq(0..255), NEW k \in 0..Len(s)
  PROVE  /\ SubSeq(s, 1, k) \in Seq(0..255) /\ Len(SubSeq(s, 1, k)) = k
         /\ \A i \in 1..k : SubSeq(s, 1, k)[i] = s[i]
  <1>1. 1 \in 1..(Len(s) + 1) /\ k \in (1 - 1)..Len(s)
    OBVIOUS
  <1>2. /\ SubSeq(s, 1, k) \in Seq(0..255)
        /\ Len(SubSeq(s, 1, k)) = k - 1 + 1
        /\ \A i \in 1..(k - 1 + 1) : SubSeq(s, 1, k)[i] = s[1 + i - 1]
    BY <1>1, SubSeqBytes, Zenon
  <1>3. k - 1 + 1 = k /\ \A i \in 1..k : 1 + i - 1 = i
    OBVIOUS
  <1>4. QED
    BY <1>2, <1>3, Zenon

LEMMA SubSeqSuffix ==
  ASSUME NEW s \in Seq(0..255), NEW k \in 0..Len(s)
  PROVE  /\ SubSeq(s, k + 1, Len(s)) \in Seq(0..255)
         /\ Len(SubSeq(s, k + 1, Len(s))) = Len(s) - k
         /\ \A i \in 1..(Len(s) - k) : SubSeq(s, k + 1, Len(s))[i] = s[k + i]
  <1>1. k + 1 \in 1..(Len(s) + 1) /\ Len(s) \in ((k + 1) - 1)..Len(s)
    OBVIOUS
  <1>2. /\ SubSeq(s, k + 1, Len(s)) \in Seq(0..255)
        /\ Len(SubSeq(s, k + 1, Len(s))) = Len(s) - (k + 1) + 1
        /\ \A i \in 1..(Len(s) - (k + 1) + 1) :
              SubSeq(s, k + 1, Len(s))[i] = s[(k + 1) + i - 1]
    BY <1>1, SubSeqBytes, Zenon
  <1>3. Len(s) - (k + 1) + 1 = Len(s) - k /\ \A i \in 1..(Len(s) - k) : (k + 1) + i - 1 = k + i
    OBVIOUS
  <1>4. QED
    BY <1>2, <1>3, Zenon

\* The k bytes of s after its first a: the chunk one write(2) sends.
LEMMA SubSeqMid ==
  ASSUME NEW s \in Seq(0..255), NEW a \in 0..Len(s), NEW k \in 0..(Len(s) - a)
  PROVE  /\ SubSeq(s, a + 1, a + k) \in Seq(0..255)
         /\ Len(SubSeq(s, a + 1, a + k)) = k
         /\ \A i \in 1..k : SubSeq(s, a + 1, a + k)[i] = s[a + i]
  <1>1. a + 1 \in 1..(Len(s) + 1) /\ a + k \in ((a + 1) - 1)..Len(s)
    OBVIOUS
  <1>2. /\ SubSeq(s, a + 1, a + k) \in Seq(0..255)
        /\ Len(SubSeq(s, a + 1, a + k)) = (a + k) - (a + 1) + 1
        /\ \A i \in 1..((a + k) - (a + 1) + 1) :
              SubSeq(s, a + 1, a + k)[i] = s[(a + 1) + i - 1]
    BY <1>1, SubSeqBytes, Zenon
  <1>3. (a + k) - (a + 1) + 1 = k /\ \A i \in 1..k : (a + 1) + i - 1 = a + i
    OBVIOUS
  <1>4. QED
    BY <1>2, <1>3, Zenon

\* Appending byte string s2 to s1 keeps the bytes of s1 and puts those of
\* s2 after them.
LEMMA ConcatBytes ==
  ASSUME NEW s1 \in Seq(0..255), NEW s2 \in Seq(0..255)
  PROVE  /\ s1 \o s2 \in Seq(0..255)
         /\ Len(s1 \o s2) = Len(s1) + Len(s2)
         /\ \A i \in 1..Len(s1) : (s1 \o s2)[i] = s1[i]
         /\ \A i \in 1..Len(s2) : (s1 \o s2)[Len(s1) + i] = s2[i]
  <1>1. s1 \o s2 \in Seq(0..255) /\ Len(s1 \o s2) = Len(s1) + Len(s2)
    BY ConcatProperties
  <1>2. \A i \in 1..Len(s1) : (s1 \o s2)[i] = s1[i]
    BY ConcatHead
  <1>3. \A i \in 1..Len(s2) : (s1 \o s2)[Len(s1) + i] = s2[i]
    BY ConcatTail
  <1>4. QED
    BY <1>1, <1>2, <1>3

\* Appending a count to a sequence of counts (Append(starts, ...)).
LEMMA AppendNat ==
  ASSUME NEW s \in Seq(Nat), NEW e \in Nat
  PROVE  /\ Append(s, e) \in Seq(Nat)
         /\ Len(Append(s, e)) = Len(s) + 1
         /\ \A i \in 1..Len(s) : Append(s, e)[i] = s[i]
         /\ Append(s, e)[Len(s) + 1] = e
  BY AppendProperties

\* The values a reader has returned, extended by the next field's value,
\* are the values of one more field (got' = Append(got, ...)).
LEMMA AppendValues ==
  ASSUME NEW m, NEW n \in Nat
  PROVE  Append([i \in 1..n |-> m[i].value], m[n + 1].value)
           = [i \in 1..(n + 1) |-> m[i].value]
  <1> DEFINE S == {m[i].value : i \in 1..(n + 1)}
             g == [i \in 1..n |-> m[i].value]
  <1>1. g \in [1..n -> S] /\ m[n + 1].value \in S
    OBVIOUS
  <1>2. g \in Seq(S)
    <2>1. [1..n -> S] \subseteq Seq(S)
      OBVIOUS
    <2>2. QED
      BY <1>1, <2>1, Zenon
  <1> HIDE DEF S, g
  <1>3. /\ Append(g, m[n + 1].value) \in Seq(S)
        /\ Len(Append(g, m[n + 1].value)) = n + 1
        /\ \A i \in 1..n : Append(g, m[n + 1].value)[i] = m[i].value
        /\ Append(g, m[n + 1].value)[n + 1] = m[n + 1].value
    <2>1. /\ Append(g, m[n + 1].value) \in Seq(S)
          /\ Len(Append(g, m[n + 1].value)) = Len(g) + 1
          /\ \A i \in 1..Len(g) : Append(g, m[n + 1].value)[i] = g[i]
          /\ Append(g, m[n + 1].value)[Len(g) + 1] = m[n + 1].value
      BY <1>1, <1>2, AppendProperties
    <2>2. Len(g) = n /\ \A i \in 1..n : g[i] = m[i].value
      BY <1>1, <1>2 DEF g
    <2>3. QED
      BY <2>1, <2>2
  <1>4. QED
    BY <1>3 DEF g

\* A byte array of any length is a byte string.
LEMMA ByteSeqs == \A n \in Nat : [1..n -> 0..255] \subseteq Seq(0..255)
  OBVIOUS

\* to_ne_bytes yields a byte string.
LEMMA EncodeSeq ==
  ASSUME NEW v \in Nat, NEW w \in 1..8
  PROVE  Encode(v, w) \in Seq(0..255)
  <1>1. w \in Nat
    OBVIOUS
  <1>2. Encode(v, w) \in [1..w -> 0..255]
    BY EncodeBytes, Zenon
  <1>3. QED
    BY <1>1, <1>2, ByteSeqs, Zenon

\* Once a shift is below 256, every later shift is, and those past it are 0.
LEMMA StaysSmall ==
  ASSUME NEW s \in [1..8 -> Nat], NEW w \in 1..8, s[w] < 256,
         \A i \in 1..7 : s[i + 1] = s[i] \div 256
  PROVE  \A i \in 1..8 : /\ i >= w => s[i] < 256
                         /\ i > w => s[i] = 0
  <1>1. \A i \in 1..7 : s[i] < 256 => s[i + 1] = 0
    OBVIOUS
  <1>2. \A i \in 1..7 : s[i + 1] <= s[i]
    OBVIOUS
  <1> DEFINE P(i) == i >= w => s[i] < 256
  <1>3. P(1) OBVIOUS
  <1>4. P(2) BY <1>2, <1>3
  <1>5. P(3) BY <1>2, <1>4
  <1>6. P(4) BY <1>2, <1>5
  <1>7. P(5) BY <1>2, <1>6
  <1>8. P(6) BY <1>2, <1>7
  <1>9. P(7) BY <1>2, <1>8
  <1>10. P(8) BY <1>2, <1>9
  <1>11. \A i \in 1..8 : P(i)
    BY <1>3, <1>4, <1>5, <1>6, <1>7, <1>8, <1>9, <1>10
  <1>12. QED
    BY <1>1, <1>11

\* from_ne_bytes of the bytes of the shifts gives back the first shift.
LEMMA HornerCollapse ==
  ASSUME NEW s \in [1..8 -> Nat], NEW bs, s[8] < 256,
         \A i \in 1..7 : s[i + 1] = s[i] \div 256,
         \A i \in 1..8 : ByteAt(bs, i) = s[i] % 256
  PROVE  Decode(bs) = s[1]
  <1>1. \A i \in 1..7 : s[i] = (s[i] % 256) + 256 * s[i + 1]
    OBVIOUS
  <1>2. s[8] % 256 = s[8]
    OBVIOUS
  <1>3. Decode(bs) = (s[1] % 256) + 256 * ((s[2] % 256) + 256 * ((s[3] % 256)
                       + 256 * ((s[4] % 256) + 256 * ((s[5] % 256) + 256 * ((s[6] % 256)
                       + 256 * ((s[7] % 256) + 256 * (s[8] % 256)))))))
    BY DEF Decode
  <1>4. QED
    BY <1>1, <1>2, <1>3

\* from_ne_bytes inverts to_ne_bytes on every value that fits the width.
LEMMA RoundTrip ==
  ASSUME NEW v \in Nat, NEW w \in 1..8, Fits(v, w)
  PROVE  Decode(Encode(v, w)) = v
  <1>1. /\ Shifted(v) \in [1..8 -> Nat]
        /\ Shifted(v)[1] = v
        /\ \A i \in 1..7 : Shifted(v)[i + 1] = Shifted(v)[i] \div 256
    BY ShiftedNat
  <1>2. \A i \in 1..8 : /\ i >= w => Shifted(v)[i] < 256
                        /\ i > w => Shifted(v)[i] = 0
    BY <1>1, StaysSmall DEF Fits
  <1>3. \A i \in 1..8 : ByteAt(Encode(v, w), i) = Shifted(v)[i] % 256
    <2>1. /\ Len(Encode(v, w)) = w
          /\ \A i \in 1..w : Encode(v, w)[i] = Shifted(v)[i] % 256
      <3>1. Encode(v, w) \in [1..w -> Int]
        BY <1>1 DEF Encode
      <3>2. QED
        BY <3>1 DEF Encode
    <2>2. SUFFICES ASSUME NEW i \in 1..8
                   PROVE  ByteAt(Encode(v, w), i) = Shifted(v)[i] % 256
      OBVIOUS
    <2>3. CASE i <= w
      BY <2>1, <2>3 DEF ByteAt
    <2>4. CASE ~(i <= w)
      <3>1. Shifted(v)[i] = 0
        BY <1>2, <2>4
      <3>2. ByteAt(Encode(v, w), i) = 0
        BY <2>1, <2>4 DEF ByteAt
      <3>3. QED
        BY <3>1, <3>2
    <2>5. QED
      BY <2>3, <2>4
  <1>4. QED
    BY <1>1, <1>2, <1>3, HornerCollapse

-----------------------------------------------------------------------------
(* The encoding of one field.                                              *)

LEMMA UsizeRange == UsizeWidth \in 1..8
  OBVIOUS

\* write_u8 / write_u32 / write_usize send to_ne_bytes of the value, which
\* read_u8 / read_u32 / read_usize decode back.
LEMMA IntEncoding ==
  ASSUME NEW f \in IntFields
  PROVE  /\ Encoding(f) \in Seq(0..255)
         /\ Len(Encoding(f)) = Width(f.type)
         /\ Decode(Encoding(f)) = f.value
         /\ f.type # "string"
  <1>1. /\ f.type \in {"u8", "u32", "usize"} /\ f.value \in Nat
        /\ Fits(f.value, Width(f.type))
    BY DEF IntFields
  <1>2. Width(f.type) \in 1..8
    BY <1>1 DEF Width
  <1>3. Encoding(f) = Encode(f.value, Width(f.type))
    BY <1>1 DEF Encoding
  <1>4. Encode(f.value, Width(f.type)) \in [1..Width(f.type) -> 0..255]
    BY <1>1, <1>2, EncodeBytes, Zenon
  <1>5. Decode(Encode(f.value, Width(f.type))) = f.value
    BY <1>1, <1>2, RoundTrip
  <1>6. Encode(f.value, Width(f.type)) \in Seq(0..255)
         /\ Len(Encode(f.value, Width(f.type))) = Width(f.type)
    BY <1>1, <1>2, EncodeSeq, EncodeBytes, Zenon
  <1>7. QED
    BY <1>1, <1>3, <1>5, <1>6

\* write_string sends value.len() as a usize, then the bytes; read_usize
\* decodes the prefix back to value.len().
LEMMA StrEncoding ==
  ASSUME NEW f \in StrFields
  PROVE  /\ f.type = "string" /\ f.value \in Seq(0..255)
         /\ Encoding(f) \in Seq(0..255)
         /\ Len(Encoding(f)) = UsizeWidth + Len(f.value)
         /\ \A j \in 1..UsizeWidth : Encoding(f)[j] = Encode(Len(f.value), UsizeWidth)[j]
         /\ \A j \in 1..Len(f.value) : Encoding(f)[UsizeWidth + j] = f.value[j]
         /\ Encode(Len(f.value), UsizeWidth) \in Seq(0..255)
         /\ Len(Encode(Len(f.value), UsizeWidth)) = UsizeWidth
         /\ Decode(Encode(Len(f.value), UsizeWidth)) = Len(f.value)
  <1>1. /\ f.type = "string" /\ f.value \in Seq(0..255) /\ Fits(Len(f.value), UsizeWidth)
    BY DEF StrFields
  <1>2. Claimed(f) = Len(f.value)
    <2>1. f \in [type : {"string"}, value : Seq(0..255)]
      BY DEF StrFields
    <2>2. QED
      BY <2>1 DEF Claimed
  <1>3. Encoding(f) = Encode(Len(f.value), UsizeWidth) \o f.value
    BY <1>1, <1>2 DEF Encoding
  <1>4. Len(f.value) \in Nat
    BY <1>1
  <1>5. Len(Encode(Len(f.value), UsizeWidth)) = UsizeWidth
    BY <1>4, UsizeRange, EncodeBytes, ZenonT(30)
  <1>6. Encode(Len(f.value), UsizeWidth) \in Seq(0..255)
    BY <1>4, UsizeRange, EncodeSeq, Zenon
  <1>7. Decode(Encode(Len(f.value), UsizeWidth)) = Len(f.value)
    BY <1>1, <1>4, UsizeRange, RoundTrip, Zenon
  <1>8. /\ Encode(Len(f.value), UsizeWidth) \o f.value \in Seq(0..255)
        /\ Len(Encode(Len(f.value), UsizeWidth) \o f.value) =
             Len(Encode(Len(f.value), UsizeWidth)) + Len(f.value)
        /\ \A j \in 1..(Len(Encode(Len(f.value), UsizeWidth)) + Len(f.value)) :
             (Encode(Len(f.value), UsizeWidth) \o f.value)[j] =
               IF j <= Len(Encode(Len(f.value), UsizeWidth))
                 THEN Encode(Len(f.value), UsizeWidth)[j]
                 ELSE f.value[j - Len(Encode(Len(f.value), UsizeWidth))]
    BY <1>1, <1>6, ConcatProperties, Zenon
  <1>9. Encoding(f) \in Seq(0..255) /\ Len(Encoding(f)) = UsizeWidth + Len(f.value)
    BY <1>3, <1>5, <1>8
  <1>10. ASSUME NEW j \in 1..UsizeWidth
         PROVE  Encoding(f)[j] = Encode(Len(f.value), UsizeWidth)[j]
    <2>1. /\ j \in 1..(Len(Encode(Len(f.value), UsizeWidth)) + Len(f.value))
          /\ j <= Len(Encode(Len(f.value), UsizeWidth))
      BY <1>4, <1>5, UsizeRange
    <2>2. (Encode(Len(f.value), UsizeWidth) \o f.value)[j] = Encode(Len(f.value), UsizeWidth)[j]
      BY <2>1, <1>8, Zenon
    <2>3. QED
      BY <2>2, <1>3, Zenon
  <1>11. ASSUME NEW j \in 1..Len(f.value)
         PROVE  Encoding(f)[UsizeWidth + j] = f.value[j]
    <2>1. (Encode(Len(f.value), UsizeWidth) \o f.value)[Len(Encode(Len(f.value), UsizeWidth)) + j]
            = f.value[j]
      BY <1>1, <1>6, ConcatTail
    <2>2. QED
      BY <1>3, <1>5, <2>1, Zenon
  <1>12. QED
    BY <1>1, <1>5, <1>6, <1>7, <1>9, <1>10, <1>11, Zenon

\* Every field's encoding is a non-empty byte string at least as long as
\* the first read_exact the reader makes for it.
LEMMA FieldEncoding ==
  ASSUME NEW f \in Fields
  PROVE  /\ Encoding(f) \in Seq(0..255)
         /\ Width(f.type) \in 1..8
         /\ Width(f.type) <= Len(Encoding(f))
  <1>1. CASE f \in IntFields
    <2>1. f.type \in {"u8", "u32", "usize"}
      BY <1>1 DEF IntFields
    <2>2. Width(f.type) \in 1..8
      BY <2>1 DEF Width
    <2>3. Encoding(f) \in Seq(0..255) /\ Len(Encoding(f)) = Width(f.type)
      BY <1>1, IntEncoding, Zenon
    <2>4. QED
      BY <2>2, <2>3
  <1>2. CASE f \in StrFields
    <2>1. f.type = "string"
      BY <1>2 DEF StrFields
    <2>2. Width(f.type) = UsizeWidth
      BY <2>1 DEF Width
    <2>3. QED
      BY <1>2, <2>2, UsizeRange, StrEncoding
  <1>3. QED
    BY <1>1, <1>2 DEF Fields

-----------------------------------------------------------------------------
(* The invariant holds initially.                                          *)

LEMMA InitFrameInv == MessagesWellFormed /\ Init => FrameInv
  <1> SUFFICES ASSUME MessagesWellFormed, Init PROVE FrameInv
    OBVIOUS
  <1>1. msg \in Seq(Fields) /\ Len(msg) \in Nat \ {0}
    BY DEF MessagesWellFormed, Init
  <1>2. /\ msg[1] \in Fields
        /\ Encoding(msg[1]) \in Seq(0..255)
        /\ Width(msg[1].type) \in 1..8
        /\ Width(msg[1].type) <= Len(Encoding(msg[1]))
    <2>1. msg[1] \in Fields
      BY <1>1
    <2>2. QED
      BY <2>1, FieldEncoding, Zenon
  <1>3. TypeOK
    <2>1. /\ wfield = 1 /\ wsent = 0 /\ wclosed = FALSE /\ wire = <<>> /\ rbuf = <<>>
          /\ rfield = 1 /\ rstage \in {"int", "len"} /\ rneed = Width(msg[1].type)
          /\ rstate = "reading"
      BY DEF Init
    <2>2. <<>> \in Seq(0..255)
      OBVIOUS
    <2>3. Width(msg[1].type) \in Nat /\ Len(msg) \in Nat
      BY <1>1, <1>2
    <2>4. wfield \in 1..(Len(msg) + 1) /\ rfield \in 1..(Len(msg) + 1)
      BY <2>1, <2>3
    <2>5. wsent \in Nat /\ rneed \in Nat
      BY <2>1, <2>3
    <2>6. wclosed \in BOOLEAN
      BY <2>1, Zenon
    <2>7. wire \in Seq(0..255) /\ rbuf \in Seq(0..255)
      BY <2>1, <2>2
    <2>8. rstage \in {"int", "len", "body"} /\ rstate \in {"reading", "done", "error"}
      BY <2>1
    <2>9. QED
      BY <2>4, <2>5, <2>6, <2>7, <2>8 DEF TypeOK
  <1>4. WriterInv
    BY <1>1, <1>2 DEF Init, WriterInv, Enc, Written
  <1>5. ReaderInv
    BY <1>1, <1>2 DEF Init, ReaderInv, RPos
  <1>6. QED
    BY <1>1, <1>3, <1>4, <1>5 DEF FrameInv

-----------------------------------------------------------------------------
(* Steps that touch neither stream.                                        *)

\* A step that changes nothing the invariant reads.
LEMMA StutterFrameInv == FrameInv /\ UNCHANGED vars => FrameInv'
  <1> SUFFICES ASSUME FrameInv, UNCHANGED vars PROVE FrameInv'
    OBVIOUS
  <1>1. /\ msg' = msg /\ wfield' = wfield /\ wsent' = wsent /\ wclosed' = wclosed
        /\ wire' = wire /\ rfield' = rfield /\ rstage' = rstage /\ rneed' = rneed
        /\ rbuf' = rbuf /\ got' = got /\ rstate' = rstate /\ sent' = sent
        /\ starts' = starts
    BY DEF vars
  <1>2. TypeOK'
    BY <1>1 DEF FrameInv, TypeOK
  <1>3. WriterInv'
    BY <1>1 DEF FrameInv, WriterInv, Enc, Written
  <1>4. ReaderInv'
    BY <1>1 DEF FrameInv, ReaderInv, RPos
  <1>5. QED
    BY <1>1, <1>2, <1>3, <1>4 DEF FrameInv

\* Closing the writer's end: the reader's error clause only gains a case.
LEMMA WriterCloseFrameInv == FrameInv /\ WriterClose => FrameInv'
  <1> SUFFICES ASSUME FrameInv, WriterClose PROVE FrameInv'
    OBVIOUS
  <1>1. /\ msg' = msg /\ wfield' = wfield /\ wsent' = wsent /\ wclosed' = TRUE
        /\ wire' = wire /\ rfield' = rfield /\ rstage' = rstage /\ rneed' = rneed
        /\ rbuf' = rbuf /\ got' = got /\ rstate' = rstate /\ sent' = sent
        /\ starts' = starts
    BY DEF WriterClose
  <1>2. TypeOK'
    BY <1>1 DEF FrameInv, TypeOK
  <1>3. WriterInv'
    BY <1>1, SMTT(30) DEF FrameInv, WriterInv, Enc, Written
  <1>4. ReaderInv'
    BY <1>1 DEF FrameInv, ReaderInv, RPos
  <1>5. QED
    BY <1>1, <1>2, <1>3, <1>4 DEF FrameInv

\* Which kind of field a record is, by its type.
LEMMA FieldCases ==
  ASSUME NEW f \in Fields
  PROVE  /\ f.type = "string" => f \in StrFields
         /\ f.type # "string" => f \in IntFields
  BY DEF Fields, IntFields, StrFields

\* The counters the invariant speaks of are natural numbers, and the
\* recorded start of every field up to the writer's is one.
LEMMA FrameNat ==
  ASSUME FrameInv
  PROVE  /\ wfield \in Nat /\ wsent \in Nat /\ rfield \in Nat /\ rneed \in Nat
         /\ Len(msg) \in Nat /\ 1 <= wfield /\ 1 <= rfield /\ rfield <= wfield
         /\ starts[wfield] \in Nat /\ starts[rfield] \in Nat
  <1>1. /\ wfield \in 1..(Len(msg) + 1) /\ wsent \in Nat /\ rneed \in Nat
        /\ rfield \in 1..(Len(msg) + 1) /\ rfield <= wfield
        /\ starts \in Seq(Nat) /\ Len(starts) = wfield /\ msg \in Seq(Fields)
    BY DEF FrameInv, TypeOK, WriterInv, ReaderInv
  <1>2. QED
    BY <1>1

\* The offset of the running read_exact is a byte count.
LEMMA RPosNat ==
  ASSUME FrameInv
  PROVE  RPos \in Nat
  <1>1. starts[rfield] \in Nat /\ UsizeWidth \in Nat
    BY FrameNat, UsizeRange
  <1>2. QED
    BY <1>1 DEF RPos

\* Until a read fails, read_exact's buffer and then the socket buffer hold
\* the bytes sent from RPos on.
LEMMA ReaderStream ==
  ASSUME FrameInv, rstate # "error"
  PROVE  /\ RPos + Len(rbuf) + Len(wire) = Len(sent)
         /\ \A j \in 1..Len(rbuf) : rbuf[j] = sent[RPos + j]
         /\ \A j \in 1..Len(wire) : wire[j] = sent[RPos + Len(rbuf) + j]
  BY DEF FrameInv, ReaderInv

\* The running read_exact lies inside the encoding of field rfield: an
\* integer or a body read ends where the field ends, a prefix read ends
\* UsizeWidth bytes into it.
LEMMA ReadWithinField ==
  ASSUME FrameInv, rstate = "reading"
  PROVE  /\ rfield \in 1..Len(msg) /\ rfield < Len(starts) + 1
         /\ msg[rfield] \in Fields
         /\ RPos \in Nat /\ rneed \in Nat
         /\ rstage \in {"int", "body"} => RPos + rneed = starts[rfield] + Len(Enc(rfield))
         /\ rstage = "len" => RPos + rneed = starts[rfield] + UsizeWidth
         /\ RPos + rneed <= starts[rfield] + Len(Enc(rfield))
  <1> USE FrameNat
  <1>1. /\ rfield \in 1..Len(msg) /\ msg \in Seq(Fields)
        /\ rfield <= wfield /\ Len(starts) = wfield /\ starts \in Seq(Nat)
        /\ rstage \in IF msg[rfield].type = "string" THEN {"len", "body"} ELSE {"int"}
        /\ rneed = IF rstage = "body" THEN Len(msg[rfield].value)
                                      ELSE Width(msg[rfield].type)
    BY DEF FrameInv, ReaderInv, WriterInv, TypeOK
  <1>2. /\ rfield \in 1..Len(msg) /\ rfield < Len(starts) + 1
        /\ msg[rfield] \in Fields /\ starts[rfield] \in Nat
    BY <1>1
  <1>3. CASE msg[rfield].type = "string"
    <2>1. msg[rfield] \in StrFields
      BY <1>2, <1>3, FieldCases
    <2>2. /\ Len(Enc(rfield)) = UsizeWidth + Len(msg[rfield].value)
          /\ Width(msg[rfield].type) = UsizeWidth
          /\ Len(msg[rfield].value) \in Nat
      <3>1. /\ Len(Encoding(msg[rfield])) = UsizeWidth + Len(msg[rfield].value)
            /\ msg[rfield].value \in Seq(0..255)
        BY <2>1, StrEncoding, Zenon
      <3>2. Width(msg[rfield].type) = UsizeWidth
        BY <1>3 DEF Width
      <3>3. QED
        BY <3>1, <3>2 DEF Enc
    <2>3. CASE rstage = "body"
      <3>1. RPos = starts[rfield] + UsizeWidth /\ rneed = Len(msg[rfield].value)
        BY <1>1, <2>3 DEF RPos
      <3>2. RPos \in Nat /\ rneed \in Nat
        BY <1>2, <2>2, <3>1, UsizeRange, SMTT(30)
      <3>3. RPos + rneed = starts[rfield] + Len(Enc(rfield))
        <4>1. /\ UsizeWidth \in Nat /\ starts[rfield] \in Nat
              /\ Len(msg[rfield].value) \in Nat
          BY <1>2, <2>2, UsizeRange
        <4>2. (starts[rfield] + UsizeWidth) + Len(msg[rfield].value)
                = starts[rfield] + (UsizeWidth + Len(msg[rfield].value))
          BY ONLY <4>1, AddAssoc, Zenon
        <4>3. QED
          BY <2>2, <3>1, <4>2, Zenon
      <3>4. rstage # "len" /\ rstage \in {"int", "body"}
        BY <2>3
      <3>5. QED
        BY <1>2, <3>2, <3>3, <3>4
    <2>4. CASE rstage = "len"
      <3>1. RPos = starts[rfield] /\ rneed = UsizeWidth
        BY <1>1, <2>2, <2>4 DEF RPos
      <3>2. QED
        BY <1>2, <2>2, <2>4, <3>1, UsizeRange, SMTT(30)
    <2>5. QED
      BY <1>1, <1>3, <2>3, <2>4
  <1>4. CASE msg[rfield].type # "string"
    <2>1. msg[rfield] \in IntFields
      BY <1>2, <1>4, FieldCases
    <2>2. Len(Encoding(msg[rfield])) = Width(msg[rfield].type)
      BY <2>1, IntEncoding, Zenon
    <2>3. Width(msg[rfield].type) \in 1..8
      BY <1>2, FieldEncoding, Zenon
    <2>4. rstage = "int" /\ RPos = starts[rfield] /\ rneed = Width(msg[rfield].type)
      BY <1>1, <1>4 DEF RPos
    <2>5. QED
      BY <1>2, <2>2, <2>3, <2>4 DEF Enc
  <1>5. QED
    BY <1>3, <1>4

\* The j-th byte of a read that started r - s bytes into a field that
\* starts at s is byte r - s + j of the field's encoding.
LEMMA OffsetArith ==
  ASSUME NEW s \in Nat, NEW r \in Nat, NEW n \in Nat, NEW j \in 1..n, s <= r
  PROVE  s + (r - s + j) = r + j /\ r - s + j \in Nat /\ 1 <= r - s + j
  OBVIOUS

\* The writer's history is monotone past the field it is sending.
LEMMA StartsBound ==
  ASSUME FrameInv, NEW i \in 1..Len(msg), i < wfield
  PROVE  starts[i] + Len(Enc(i)) <= Len(sent)
  <1> USE FrameNat
  <1>1. /\ starts[i + 1] = starts[i] + Len(Enc(i))
        /\ starts[i + 1] <= starts[wfield]
        /\ Len(sent) = starts[wfield] + wsent
        /\ wsent \in Nat /\ starts \in Seq(Nat) /\ Len(starts) = wfield
        /\ wfield \in 1..(Len(msg) + 1)
    BY DEF FrameInv, WriterInv, TypeOK
  <1>2. starts[wfield] \in Nat
    BY <1>1
  <1>3. QED
    BY <1>1, <1>2, SMTT(30)

\* read_exact hits EOF only while the writer, now closed, had not finished.
LEMMA ReadEofFrameInv == FrameInv /\ ReadEof => FrameInv'
  <1> SUFFICES ASSUME FrameInv, ReadEof PROVE FrameInv'
    OBVIOUS
  <1> USE FrameNat
  <1>1. wfield <= Len(msg)
    <2>1. SUFFICES ASSUME ~(wfield <= Len(msg)) PROVE FALSE
      OBVIOUS
    <2>2. /\ rfield \in 1..Len(msg) /\ RPos \in Nat /\ rneed \in Nat
          /\ RPos + rneed <= starts[rfield] + Len(Enc(rfield))
      BY ReadWithinField DEF ReadEof
    <2>3. rfield < wfield
      BY <2>1, <2>2 DEF FrameInv, TypeOK
    <2>4. starts[rfield] + Len(Enc(rfield)) <= Len(sent)
      BY <2>2, <2>3, StartsBound
    <2>5. RPos + Len(rbuf) = Len(sent) /\ Len(rbuf) < rneed
      <3>1. rstate = "reading" /\ wire = <<>> /\ Len(rbuf) < rneed
        BY DEF ReadEof
      <3>2. RPos + Len(rbuf) + Len(wire) = Len(sent)
        BY <3>1, ReaderStream
      <3>3. QED
        BY <2>2, <3>1, <3>2
    <2>6. QED
      BY <2>2, <2>4, <2>5
  <1>2. /\ msg' = msg /\ wfield' = wfield /\ wsent' = wsent /\ wclosed' = wclosed
        /\ wire' = wire /\ rfield' = rfield /\ rstage' = rstage /\ rneed' = rneed
        /\ rbuf' = rbuf /\ got' = got /\ rstate' = "error" /\ sent' = sent
        /\ starts' = starts /\ wclosed
    BY DEF ReadEof
  <1>3. TypeOK'
    BY <1>2 DEF FrameInv, TypeOK
  <1>4. WriterInv'
    BY <1>2 DEF FrameInv, WriterInv, Enc, Written
  <1>5. ReaderInv'
    <2>1. rfield' <= wfield'
      BY <1>2 DEF FrameInv, ReaderInv
    <2>2. /\ got' = [i \in 1..(rfield' - 1) |-> msg'[i].value]
          /\ \A i \in 1..(rfield' - 1) : msg'[i].type = "string" => Utf8Ok(msg'[i].value)
      BY <1>2 DEF FrameInv, ReaderInv
    <2>3. wclosed' /\ wfield' <= Len(msg')
      BY <1>1, <1>2
    <2>4. QED
      BY <1>2, <2>1, <2>2, <2>3 DEF ReaderInv
  <1>6. msg' \in Seq(Fields)
    BY <1>2 DEF FrameInv
  <1>7. QED
    BY <1>3, <1>4, <1>5, <1>6 DEF FrameInv

\* A read(2) moves the first k buffered bytes into read_exact's buffer; the
\* bytes stay in the order they were sent.
LEMMA ReadChunkFrameInv == FrameInv /\ ReadChunk => FrameInv'
  <1> SUFFICES ASSUME FrameInv, ReadChunk PROVE FrameInv'
    OBVIOUS
  <1> USE FrameNat
  <1>1. PICK k \in 1..Len(wire) :
          /\ k <= rneed - Len(rbuf)
          /\ rbuf' = rbuf \o SubSeq(wire, 1, k)
          /\ wire' = SubSeq(wire, k + 1, Len(wire))
    BY Zenon DEF ReadChunk
  <1>2. /\ msg' = msg /\ wfield' = wfield /\ wsent' = wsent /\ wclosed' = wclosed
        /\ rfield' = rfield /\ rstage' = rstage /\ rneed' = rneed /\ got' = got
        /\ rstate' = rstate /\ sent' = sent /\ starts' = starts
        /\ rstate = "reading"
    BY Zenon DEF ReadChunk
  <1>3. wire \in Seq(0..255) /\ rbuf \in Seq(0..255)
    BY DEF FrameInv, TypeOK
  <1> DEFINE head == SubSeq(wire, 1, k)
  <1>4. /\ head \in Seq(0..255) /\ Len(head) = k
        /\ \A i \in 1..k : head[i] = wire[i]
    <2>1. k \in 0..Len(wire)
      BY <1>1
    <2>2. QED
      BY <1>3, <2>1, SubSeqPrefix
  <1>5. /\ wire' \in Seq(0..255) /\ Len(wire') = Len(wire) - k
        /\ \A i \in 1..(Len(wire) - k) : wire'[i] = wire[k + i]
    <2>1. k \in 0..Len(wire)
      BY <1>1
    <2>2. /\ SubSeq(wire, k + 1, Len(wire)) \in Seq(0..255)
          /\ Len(SubSeq(wire, k + 1, Len(wire))) = Len(wire) - k
          /\ \A i \in 1..(Len(wire) - k) : SubSeq(wire, k + 1, Len(wire))[i] = wire[k + i]
      BY <1>3, <2>1, SubSeqSuffix
    <2>3. QED
      BY <1>1, <2>2, Zenon
  <1>6. /\ rbuf' \in Seq(0..255) /\ Len(rbuf') = Len(rbuf) + k
        /\ \A i \in 1..Len(rbuf) : rbuf'[i] = rbuf[i]
        /\ \A i \in 1..k : rbuf'[Len(rbuf) + i] = wire[i]
    <2>1. rbuf \o head \in Seq(0..255) /\ Len(rbuf \o head) = Len(rbuf) + k
      BY <1>3, <1>4
    <2>2. \A i \in 1..Len(rbuf) : (rbuf \o head)[i] = rbuf[i]
      BY <1>3, <1>4, ConcatHead
    <2>3. \A i \in 1..k : (rbuf \o head)[Len(rbuf) + i] = head[i]
      BY <1>3, <1>4, ConcatTail
    <2>4. QED
      BY <1>1, <1>4, <2>1, <2>2, <2>3
  <1>7. /\ RPos' = RPos /\ RPos \in Nat
        /\ RPos + Len(rbuf) + Len(wire) = Len(sent)
        /\ \A j \in 1..Len(rbuf) : rbuf[j] = sent[RPos + j]
        /\ \A j \in 1..Len(wire) : wire[j] = sent[RPos + Len(rbuf) + j]
    <2>1. RPos' = RPos
      BY <1>2 DEF RPos
    <2>2. RPos \in Nat
      BY ReadWithinField, <1>2
    <2>3. QED
      BY <1>2, <2>1, <2>2, ReaderStream
  <1>8. TypeOK'
    BY <1>2, <1>5, <1>6 DEF FrameInv, TypeOK
  <1>9. WriterInv'
    BY <1>2 DEF FrameInv, WriterInv, Enc, Written
  <1>10. ReaderInv'
    <2>1. RPos' + Len(rbuf') + Len(wire') = Len(sent')
      <3>1. RPos' + Len(rbuf') + Len(wire') = RPos + (Len(rbuf) + k) + (Len(wire) - k)
        BY <1>5, <1>6, <1>7, Zenon
      <3>2. /\ RPos \in Nat /\ Len(rbuf) \in Nat /\ Len(wire) \in Nat /\ k \in Nat
            /\ RPos + Len(rbuf) + Len(wire) = Len(sent)
        BY <1>3, <1>7
      <3>3. RPos + (Len(rbuf) + k) + (Len(wire) - k) = Len(sent)
        BY ONLY <3>2
      <3>4. QED
        BY <1>2, <3>1, <3>3, Zenon
    <2>2. \A j \in 1..Len(rbuf') : rbuf'[j] = sent'[RPos' + j]
      <3> SUFFICES ASSUME NEW j \in 1..(Len(rbuf) + k) PROVE rbuf'[j] = sent[RPos + j]
        BY <1>2, <1>6, <1>7
      <3>1. CASE j <= Len(rbuf)
        BY <1>6, <1>7, <3>1, SMTT(30)
      <3>2. CASE ~(j <= Len(rbuf))
        <4>1. j - Len(rbuf) \in 1..k /\ j = Len(rbuf) + (j - Len(rbuf))
          BY <3>2
        <4>2. rbuf'[j] = wire[j - Len(rbuf)]
          BY <1>6, <4>1
        <4>3. j - Len(rbuf) \in 1..Len(wire)
          BY <1>1, <4>1
        <4>4. wire[j - Len(rbuf)] = sent[RPos + Len(rbuf) + (j - Len(rbuf))]
          BY <1>7, <4>3
        <4>5. RPos + Len(rbuf) + (j - Len(rbuf)) = RPos + j
          BY <1>7
        <4>6. QED
          BY <4>2, <4>4, <4>5, Zenon
      <3>3. QED
        BY <3>1, <3>2
    <2>3. \A j \in 1..Len(wire') : wire'[j] = sent'[RPos' + Len(rbuf') + j]
      <3> SUFFICES ASSUME NEW j \in 1..(Len(wire) - k)
                   PROVE  wire'[j] = sent[RPos + (Len(rbuf) + k) + j]
        BY <1>2, <1>5, <1>6, <1>7
      <3>1. wire'[j] = wire[k + j] /\ k + j \in 1..Len(wire)
        BY <1>5
      <3>2. wire[k + j] = sent[RPos + Len(rbuf) + (k + j)]
        BY <1>7, <3>1, Zenon
      <3>3. RPos \in Nat /\ Len(rbuf) \in Nat /\ k \in Nat /\ j \in Nat
        BY <1>3, <1>7
      <3>4. RPos + Len(rbuf) + (k + j) = RPos + (Len(rbuf) + k) + j
        BY ONLY <3>3
      <3>5. QED
        BY <3>1, <3>2, <3>4, Zenon
    <2>4. Len(rbuf') <= rneed'
      BY <1>1, <1>2, <1>6
    <2>5. QED
      BY <1>2, <2>1, <2>2, <2>3, <2>4 DEF FrameInv, ReaderInv
  <1>11. msg' \in Seq(Fields)
    BY <1>2 DEF FrameInv
  <1>12. QED
    BY <1>8, <1>9, <1>10, <1>11 DEF FrameInv

\* One write(2) of write_all: the chunk is appended both to the socket
\* buffer and to the history; finishing a field records where the next
\* one starts.
LEMMA WriteFrameInv == FrameInv /\ Write => FrameInv'
  <1> SUFFICES ASSUME FrameInv, Write PROVE FrameInv'
    OBVIOUS
  <1> USE FrameNat
  <1>1. /\ wfield \in 1..Len(msg) /\ ~wclosed
        /\ wsent < Len(Enc(wfield))
        /\ sent \in Seq(0..255) /\ wire \in Seq(0..255)
        /\ starts \in Seq(Nat) /\ Len(starts) = wfield
        /\ Len(sent) = starts[wfield] + wsent
    BY DEF FrameInv, TypeOK, WriterInv, Write
  <1>2. Enc(wfield) \in Seq(0..255) /\ 1 <= Len(Enc(wfield))
    <2>1. msg[wfield] \in Fields
      BY <1>1 DEF FrameInv
    <2>2. Encoding(msg[wfield]) \in Seq(0..255) /\ Width(msg[wfield].type) \in 1..8
          /\ Width(msg[wfield].type) <= Len(Encoding(msg[wfield]))
      BY <2>1, FieldEncoding, Zenon
    <2>3. QED
      BY <2>2 DEF Enc
  <1>3. PICK k \in 1..(Len(Enc(wfield)) - wsent) :
          /\ wire' = wire \o SubSeq(Enc(wfield), wsent + 1, wsent + k)
          /\ sent' = sent \o SubSeq(Enc(wfield), wsent + 1, wsent + k)
          /\ IF wsent + k = Len(Enc(wfield))
               THEN wfield' = wfield + 1 /\ wsent' = 0 /\ starts' = Append(starts, Len(sent'))
               ELSE UNCHANGED <<wfield, starts>> /\ wsent' = wsent + k
    BY Zenon DEF Write, Enc
  <1> DEFINE E == Enc(wfield)
             chunk == SubSeq(E, wsent + 1, wsent + k)
  <1>4. /\ chunk \in Seq(0..255) /\ Len(chunk) = k
        /\ \A i \in 1..k : chunk[i] = E[wsent + i]
    <2>1. wsent \in 0..Len(E) /\ k \in 0..(Len(E) - wsent)
      BY <1>1, <1>2
    <2>2. QED
      BY <1>2, <2>1, SubSeqMid, ZenonT(30)
  <1>5. /\ sent' \in Seq(0..255) /\ Len(sent') = Len(sent) + k
        /\ \A p \in 1..Len(sent) : sent'[p] = sent[p]
        /\ \A q \in 1..k : sent'[Len(sent) + q] = E[wsent + q]
    <2>1. /\ sent \o chunk \in Seq(0..255)
          /\ Len(sent \o chunk) = Len(sent) + Len(chunk)
          /\ \A p \in 1..Len(sent) : (sent \o chunk)[p] = sent[p]
          /\ \A q \in 1..Len(chunk) : (sent \o chunk)[Len(sent) + q] = chunk[q]
      BY <1>1, <1>4, ConcatBytes, Zenon
    <2>2. QED
      BY <1>3, <1>4, <2>1, Zenon
  <1>6. /\ wire' \in Seq(0..255) /\ Len(wire') = Len(wire) + k
        /\ \A p \in 1..Len(wire) : wire'[p] = wire[p]
        /\ \A q \in 1..k : wire'[Len(wire) + q] = E[wsent + q]
    <2>1. /\ wire \o chunk \in Seq(0..255)
          /\ Len(wire \o chunk) = Len(wire) + Len(chunk)
          /\ \A p \in 1..Len(wire) : (wire \o chunk)[p] = wire[p]
          /\ \A q \in 1..Len(chunk) : (wire \o chunk)[Len(wire) + q] = chunk[q]
      BY <1>1, <1>4, ConcatBytes, Zenon
    <2>2. QED
      BY <1>3, <1>4, <2>1, Zenon
  <1>7. /\ msg' = msg /\ wclosed' = wclosed /\ rfield' = rfield /\ rstage' = rstage
        /\ rneed' = rneed /\ rbuf' = rbuf /\ got' = got /\ rstate' = rstate
    BY DEF Write
  <1>8. \A i \in 1..Len(msg) : Enc(i)' = Enc(i)
    BY <1>7 DEF Enc
  <1>9. Len(sent') \in Nat
    BY <1>5
  \* The two ways the step ends: the field is complete, or it is not.
  <1>10. wsent + k = Len(E) =>
           /\ wfield' = wfield + 1 /\ wsent' = 0
           /\ starts' \in Seq(Nat) /\ Len(starts') = wfield + 1
           /\ \A i \in 1..wfield : starts'[i] = starts[i]
           /\ starts'[wfield + 1] = Len(sent')
           /\ Len(sent') = starts[wfield] + Len(E)
    <2>1. SUFFICES ASSUME wsent + k = Len(E)
                   PROVE  /\ wfield' = wfield + 1 /\ wsent' = 0
                          /\ starts' \in Seq(Nat) /\ Len(starts') = wfield + 1
                          /\ \A i \in 1..wfield : starts'[i] = starts[i]
                          /\ starts'[wfield + 1] = Len(sent')
                          /\ Len(sent') = starts[wfield] + Len(E)
      OBVIOUS
    <2>2. wfield' = wfield + 1 /\ wsent' = 0 /\ starts' = Append(starts, Len(sent'))
      BY <1>3, <2>1
    <2>3. /\ Append(starts, Len(sent')) \in Seq(Nat)
          /\ Len(Append(starts, Len(sent'))) = Len(starts) + 1
          /\ \A i \in 1..Len(starts) : Append(starts, Len(sent'))[i] = starts[i]
          /\ Append(starts, Len(sent'))[Len(starts) + 1] = Len(sent')
      BY <1>1, <1>9, AppendNat, Zenon
    <2>4. Len(sent') = starts[wfield] + Len(E)
      <3>1. starts[wfield] \in Nat /\ wsent \in Nat /\ k \in Nat
        OBVIOUS
      <3>2. (starts[wfield] + wsent) + k = starts[wfield] + (wsent + k)
        BY ONLY <3>1, AddAssoc, Zenon
      <3>3. QED
        BY <1>1, <1>5, <2>1, <3>2, Zenon
    <2>5. QED
      BY <1>1, <2>2, <2>3, <2>4, Zenon
  <1>11. wsent + k # Len(E) =>
           /\ wfield' = wfield /\ starts' = starts /\ wsent' = wsent + k
           /\ wsent + k < Len(E)
    <2>1. SUFFICES ASSUME wsent + k # Len(E)
                   PROVE  /\ wfield' = wfield /\ starts' = starts /\ wsent' = wsent + k
                          /\ wsent + k < Len(E)
      OBVIOUS
    <2>2. wfield' = wfield /\ starts' = starts /\ wsent' = wsent + k
      BY <1>3, <2>1
    <2>3. QED
      BY <1>2, <2>1, <2>2
  <1>12. /\ wfield' \in 1..(Len(msg) + 1) /\ wsent' \in Nat /\ wfield <= wfield'
         /\ \A i \in 1..wfield : starts'[i] = starts[i]
    <2>1. CASE wsent + k = Len(E)
      BY <1>1, <1>10, <2>1
    <2>2. CASE wsent + k # Len(E)
      BY <1>1, <1>11, <2>2, SMTT(30)
    <2>3. QED
      BY <2>1, <2>2
  <1>13. TypeOK'
    <2>1. wclosed' \in BOOLEAN
      <3>1. wclosed \in BOOLEAN
        BY DEF FrameInv, TypeOK
      <3>2. QED
        BY <1>7, <3>1, Zenon
    <2>2. /\ rbuf' \in Seq(0..255) /\ rfield' \in 1..(Len(msg') + 1)
          /\ rstage' \in {"int", "len", "body"} /\ rneed' \in Nat
          /\ rstate' \in {"reading", "done", "error"}
      BY <1>7 DEF FrameInv, TypeOK
    <2>3. QED
      BY <1>6, <1>7, <1>12, <2>1, <2>2 DEF TypeOK
  \* Every byte sent so far, by the fields before wfield and by wfield
  \* itself, is in place in the new history.
  <1>14. \A i \in 1..wfield :
           \A j \in 1..(IF i < wfield THEN Len(Enc(i)) ELSE wsent + k) :
             sent'[starts[i] + j] = Enc(i)[j]
    <2> SUFFICES ASSUME NEW i \in 1..wfield,
                        NEW j \in 1..(IF i < wfield THEN Len(Enc(i)) ELSE wsent + k)
                 PROVE  sent'[starts[i] + j] = Enc(i)[j]
      OBVIOUS
    <2>1. \A m \in 1..Len(msg) : m <= wfield =>
            \A n \in 1..Written(m) : sent[starts[m] + n] = Enc(m)[n]
      BY DEF FrameInv, WriterInv
    <2>2. CASE i < wfield
      <3>1. j \in 1..Len(Enc(i)) /\ i \in 1..Len(msg)
        BY <1>1, <2>2
      <3>2. Written(i) = Len(Enc(i))
        BY <2>2 DEF Written
      <3>3. sent[starts[i] + j] = Enc(i)[j]
        BY <2>1, <2>2, <3>1, <3>2
      <3>4. starts[i] + Len(Enc(i)) <= Len(sent) /\ starts[i] \in Nat
        BY <1>1, <2>2, <3>1, StartsBound, SMTT(30)
      <3>5. starts[i] + j \in 1..Len(sent)
        BY <3>1, <3>4, SMTT(30)
      <3>6. QED
        BY <1>5, <3>3, <3>5, SMTT(30)
    <2>3. CASE i = wfield
      <3>1. j \in 1..(wsent + k) /\ Written(wfield) = wsent
        BY <2>3 DEF Written
      <3>2. CASE j <= wsent
        <4>1. sent[starts[wfield] + j] = Enc(wfield)[j]
          BY <1>1, <2>1, <3>1, <3>2
        <4>2. starts[wfield] + j \in 1..Len(sent)
          BY <1>1, <3>1, <3>2, SMTT(30)
        <4>3. QED
          BY <1>5, <2>3, <4>1, <4>2, SMTT(30)
      <3>3. CASE ~(j <= wsent)
        <4>1. /\ j - wsent \in 1..k /\ wsent + (j - wsent) = j
              /\ starts[wfield] + j = Len(sent) + (j - wsent)
          BY <1>1, <3>1, <3>3, SMTT(60)
        <4>2. sent'[Len(sent) + (j - wsent)] = E[wsent + (j - wsent)]
          BY <1>5, <4>1, Zenon
        <4>3. QED
          BY <2>3, <4>1, <4>2, Zenon
      <3>4. QED
        BY <3>2, <3>3
    <2>4. QED
      BY <2>2, <2>3
  <1>15. WriterInv'
    <2>1. /\ starts[1] = 0
          /\ \A i, m \in 1..wfield : i <= m => starts[i] <= starts[m]
          /\ \A i \in 1..(wfield - 1) : starts[i + 1] = starts[i] + Len(Enc(i))
      BY DEF FrameInv, WriterInv
    <2>2. CASE wsent + k = Len(E)
      <3>1. /\ wfield' = wfield + 1 /\ wsent' = 0
            /\ starts' \in Seq(Nat) /\ Len(starts') = wfield + 1
            /\ \A i \in 1..wfield : starts'[i] = starts[i]
            /\ starts'[wfield + 1] = Len(sent')
            /\ Len(sent') = starts[wfield] + Len(E)
        BY <1>10, <2>2
      <3>2. starts'[1] = 0
        BY <2>1, <3>1, SMTT(30)
      <3>3. \A i, m \in 1..(wfield + 1) : i <= m => starts'[i] <= starts'[m]
        <4> SUFFICES ASSUME NEW i \in 1..(wfield + 1), NEW m \in 1..(wfield + 1), i <= m
                     PROVE  starts'[i] <= starts'[m]
          OBVIOUS
        <4>1. CASE m <= wfield
          <5>1. i \in 1..wfield /\ m \in 1..wfield
            BY <4>1
          <5>2. starts'[i] = starts[i] /\ starts'[m] = starts[m]
            BY <3>1, <5>1, Zenon
          <5>3. starts[i] <= starts[m]
            BY <2>1, <5>1, Zenon
          <5>4. QED
            BY <5>2, <5>3, Zenon
        <4>2. CASE m = wfield + 1 /\ i = m
          <5>1. starts'[m] \in Nat
            BY <1>9, <3>1, <4>2
          <5>2. QED
            BY <4>2, <5>1
        <4>3. CASE m = wfield + 1 /\ i <= wfield
          <5>1. starts[i] <= starts[wfield] /\ starts[i] \in Nat
            BY <1>1, <2>1, <4>3, ElementOfSeq, SMTT(30)
          <5>2. QED
            BY <1>2, <3>1, <4>3, <5>1, SMTT(30)
        <4>4. QED
          BY <4>1, <4>2, <4>3
      <3>4. \A i \in 1..wfield : starts'[i + 1] = starts'[i] + Len(Enc(i))
        <4> SUFFICES ASSUME NEW i \in 1..wfield PROVE starts'[i + 1] = starts'[i] + Len(Enc(i))
          OBVIOUS
        <4>1. CASE i < wfield
          <5>1. i + 1 \in 1..wfield /\ i \in 1..(wfield - 1)
            BY <4>1
          <5>2. starts'[i + 1] = starts[i + 1] /\ starts'[i] = starts[i]
            BY <3>1, <5>1, Zenon
          <5>3. starts[i + 1] = starts[i] + Len(Enc(i))
            BY <2>1, <5>1, Zenon
          <5>4. QED
            BY <5>2, <5>3, Zenon
        <4>2. CASE i = wfield
          BY <3>1, <4>2
        <4>3. QED
          BY <4>1, <4>2
      <3>5. Len(sent') = starts'[wfield + 1] + 0
        BY <1>9, <3>1
      <3>6. wfield + 1 <= Len(msg) => 0 < Len(Enc(wfield + 1))
        <4>1. SUFFICES ASSUME wfield + 1 <= Len(msg) PROVE 0 < Len(Enc(wfield + 1))
          OBVIOUS
        <4>2. msg[wfield + 1] \in Fields
          BY <1>1, <4>1, SMTT(30) DEF FrameInv
        <4>3. Width(msg[wfield + 1].type) \in 1..8
              /\ Width(msg[wfield + 1].type) <= Len(Encoding(msg[wfield + 1]))
          BY <4>2, FieldEncoding, Zenon
        <4>4. QED
          BY <4>3 DEF Enc
      <3>7. \A i \in 1..Len(msg) : i <= wfield + 1 =>
              \A j \in 1..(IF i < wfield + 1 THEN Len(Enc(i)) ELSE 0) :
                sent'[starts'[i] + j] = Enc(i)[j]
        <4> SUFFICES ASSUME NEW i \in 1..Len(msg), i <= wfield + 1,
                            NEW j \in 1..(IF i < wfield + 1 THEN Len(Enc(i)) ELSE 0)
                     PROVE  sent'[starts'[i] + j] = Enc(i)[j]
          OBVIOUS
        <4>1. i \in 1..wfield /\ j \in 1..(IF i < wfield THEN Len(Enc(i)) ELSE wsent + k)
          BY <2>2, SMTT(30)
        <4>2. starts'[i] = starts[i]
          BY <3>1, <4>1, Zenon
        <4>3. sent'[starts[i] + j] = Enc(i)[j]
          BY <1>14, <4>1, Zenon
        <4>4. QED
          BY <4>2, <4>3, Zenon
      <3>8. (sent \in Seq(0..255) /\ starts \in Seq(Nat) /\ Len(starts) = wfield)'
        BY <1>5, <3>1
      <3>9. (\A i \in 1..(wfield - 1) : starts[i + 1] = starts[i] + Len(Enc(i)))'
        <4>1. wfield' - 1 = wfield
          BY <3>1
        <4>2. \A i \in 1..(wfield' - 1) : starts'[i + 1] = starts'[i] + Len(Encoding(msg'[i]))
          BY <1>7, <3>4, <4>1, Zenon DEF Enc
        <4>3. QED
          BY <4>2 DEF Enc
      <3>10. (wfield <= Len(msg) => wsent < Len(Enc(wfield)))'
        BY <1>7, <3>1, <3>6 DEF Enc
      <3>11. (\A i \in 1..Len(msg) : i <= wfield =>
                \A j \in 1..Written(i) : sent[starts[i] + j] = Enc(i)[j])'
        <4>1. \A i \in 1..Len(msg') : i <= wfield' =>
                \A j \in 1..(IF i < wfield' THEN Len(Encoding(msg'[i])) ELSE wsent') :
                  sent'[starts'[i] + j] = Encoding(msg'[i])[j]
          BY <1>7, <3>1, <3>7, Zenon DEF Enc
        <4>2. QED
          BY <4>1 DEF Written, Enc
      <3>12. QED
        BY <3>1, <3>2, <3>3, <3>5, <3>8, <3>9, <3>10, <3>11 DEF WriterInv
    <2>3. CASE wsent + k # Len(E)
      <3>1. /\ wfield' = wfield /\ starts' = starts /\ wsent' = wsent + k
            /\ wsent + k < Len(E)
        BY <1>11, <2>3
      <3>2. Len(sent') = starts[wfield] + (wsent + k)
        <4>1. starts[wfield] \in Nat /\ wsent \in Nat /\ k \in Nat
          OBVIOUS
        <4>2. (starts[wfield] + wsent) + k = starts[wfield] + (wsent + k)
          BY ONLY <4>1, AddAssoc, Zenon
        <4>3. QED
          BY <1>1, <1>5, <4>2, Zenon
      <3>3. \A i \in 1..Len(msg) : i <= wfield =>
              \A j \in 1..(IF i < wfield THEN Len(Enc(i)) ELSE wsent + k) :
                sent'[starts[i] + j] = Enc(i)[j]
        <4> SUFFICES ASSUME NEW i \in 1..Len(msg), i <= wfield
                     PROVE  \A j \in 1..(IF i < wfield THEN Len(Enc(i)) ELSE wsent + k) :
                              sent'[starts[i] + j] = Enc(i)[j]
          BY SMTT(30)
        <4>1. i \in 1..wfield
          OBVIOUS
        <4>2. QED
          BY <1>14, <4>1, Zenon
      <3>4. (sent \in Seq(0..255) /\ starts \in Seq(Nat) /\ Len(starts) = wfield
             /\ starts[1] = 0
             /\ \A i, m \in 1..wfield : i <= m => starts[i] <= starts[m])'
        BY <1>1, <1>5, <2>1, <3>1
      <3>5. (\A i \in 1..(wfield - 1) : starts[i + 1] = starts[i] + Len(Enc(i)))'
        BY <1>7, <2>1, <3>1, Zenon DEF Enc
      <3>6. (/\ wfield <= Len(msg) => wsent < Len(Enc(wfield))
             /\ wfield = Len(msg) + 1 => wsent = 0)'
        BY <1>1, <1>7, <3>1 DEF Enc
      <3>7. (\A i \in 1..Len(msg) : i <= wfield =>
               \A j \in 1..Written(i) : sent[starts[i] + j] = Enc(i)[j])'
        BY <1>7, <3>1, <3>3 DEF Written, Enc
      <3>8. QED
        BY <3>1, <3>2, <3>4, <3>5, <3>6, <3>7, Zenon DEF WriterInv
    <2>4. QED
      BY <2>2, <2>3
  <1>16. ReaderInv'
    <2>1. RPos' = RPos /\ RPos \in Nat
      <3>1. starts'[rfield] = starts[rfield]
        BY <1>12
      <3>2. QED
        BY <1>7, <3>1, RPosNat DEF RPos
    <2>2. rfield' <= wfield'
      BY <1>7, <1>12
    <2>3. rstate' # "error" =>
            /\ RPos' + Len(rbuf') + Len(wire') = Len(sent')
            /\ \A j \in 1..Len(rbuf') : rbuf'[j] = sent'[RPos' + j]
            /\ \A j \in 1..Len(wire') : wire'[j] = sent'[RPos' + Len(rbuf') + j]
      <3> SUFFICES ASSUME rstate # "error"
                   PROVE  /\ RPos + Len(rbuf) + Len(wire') = Len(sent')
                          /\ \A j \in 1..Len(rbuf) : rbuf[j] = sent'[RPos + j]
                          /\ \A j \in 1..Len(wire') : wire'[j] = sent'[RPos + Len(rbuf) + j]
        BY <1>7, <2>1, SMTT(30)
      <3>1. /\ RPos + Len(rbuf) + Len(wire) = Len(sent)
            /\ \A j \in 1..Len(rbuf) : rbuf[j] = sent[RPos + j]
            /\ \A j \in 1..Len(wire) : wire[j] = sent[RPos + Len(rbuf) + j]
        BY ReaderStream
      <3>0. Len(rbuf) \in Nat /\ Len(wire) \in Nat
        BY <1>1 DEF FrameInv, TypeOK
      <3>2. RPos + Len(rbuf) + Len(wire') = Len(sent')
        <4>1. /\ Len(sent') = Len(sent) + k /\ Len(wire') = Len(wire) + k
              /\ RPos + Len(rbuf) + Len(wire) = Len(sent)
              /\ RPos \in Nat /\ k \in Nat
          BY <1>5, <1>6, <2>1, <3>1
        <4>2. QED
          BY ONLY <3>0, <4>1
      <3>3. \A j \in 1..Len(rbuf) : rbuf[j] = sent'[RPos + j]
        <4> SUFFICES ASSUME NEW j \in 1..Len(rbuf) PROVE rbuf[j] = sent'[RPos + j]
          OBVIOUS
        <4>1. RPos + j \in 1..Len(sent)
          BY <2>1, <3>1
        <4>2. QED
          BY <1>5, <3>1, <4>1, SMTT(30)
      <3>4. \A j \in 1..Len(wire') : wire'[j] = sent'[RPos + Len(rbuf) + j]
        <4> SUFFICES ASSUME NEW j \in 1..(Len(wire) + k)
                     PROVE  wire'[j] = sent'[RPos + Len(rbuf) + j]
          BY <1>6
        <4>1. CASE j <= Len(wire)
          <5>1. RPos + Len(rbuf) + j \in 1..Len(sent)
            BY <2>1, <3>1, <4>1
          <5>2. QED
            BY <1>5, <1>6, <3>1, <4>1, <5>1, SMTT(30)
        <4>2. CASE ~(j <= Len(wire))
          <5>1. j - Len(wire) \in 1..k /\ j = Len(wire) + (j - Len(wire))
                /\ RPos + Len(rbuf) + j = Len(sent) + (j - Len(wire))
            <6>1. /\ RPos + Len(rbuf) + Len(wire) = Len(sent)
                  /\ RPos \in Nat /\ k \in Nat /\ j \in 1..(Len(wire) + k)
                  /\ ~(j <= Len(wire))
              BY <2>1, <3>1, <4>2
            <6>2. QED
              BY ONLY <3>0, <6>1
          <5>2. wire'[Len(wire) + (j - Len(wire))] = E[wsent + (j - Len(wire))]
            BY <1>6, <5>1, SMTT(30)
          <5>3. sent'[Len(sent) + (j - Len(wire))] = E[wsent + (j - Len(wire))]
            BY <1>5, <5>1, SMTT(60)
          <5>4. QED
            BY <5>1, <5>2, <5>3, Zenon
        <4>3. QED
          BY <4>1, <4>2
      <3>5. QED
        BY <3>2, <3>3, <3>4
    <2>4. (rstate = "reading" =>
             /\ rfield <= Len(msg)
             /\ rstage \in IF msg[rfield].type = "string" THEN {"len", "body"} ELSE {"int"}
             /\ rneed = IF rstage = "body" THEN Len(msg[rfield].value)
                                          ELSE Width(msg[rfield].type)
             /\ Len(rbuf) <= rneed)'
      BY <1>7 DEF FrameInv, ReaderInv
    <2>5. (rstate = "done" => rfield = Len(msg) + 1)'
      BY <1>7 DEF FrameInv, ReaderInv
    <2>6. (rstate = "error" =>
             \/ wclosed /\ wfield <= Len(msg)
             \/ rfield <= Len(msg) /\ msg[rfield].type = "string"
                /\ ~Utf8Ok(msg[rfield].value))'
      <3>1. rstate = "error" =>
              rfield <= Len(msg) /\ msg[rfield].type = "string" /\ ~Utf8Ok(msg[rfield].value)
        BY <1>1 DEF FrameInv, ReaderInv
      <3>2. QED
        BY <1>7, <3>1
    <2>7. (/\ got = [i \in 1..(rfield - 1) |-> msg[i].value]
           /\ \A i \in 1..(rfield - 1) : msg[i].type = "string" => Utf8Ok(msg[i].value))'
      BY <1>7 DEF FrameInv, ReaderInv
    <2>8. QED
      BY <2>2, <2>3, <2>4, <2>5, <2>6, <2>7 DEF ReaderInv
  <1>17. msg' \in Seq(Fields)
    BY <1>7 DEF FrameInv
  <1>18. QED
    BY <1>13, <1>15, <1>16, <1>17 DEF FrameInv

-----------------------------------------------------------------------------
(* A read_exact that completes.                                            *)

\* The bytes a completed read_exact holds are the bytes of field rfield
\* from offset RPos - starts[rfield] on.
LEMMA ReadBytesSent ==
  ASSUME FrameInv, rstate = "reading", Len(rbuf) = rneed
  PROVE  \A j \in 1..rneed : rbuf[j] = Enc(rfield)[RPos - starts[rfield] + j]
  <1> SUFFICES ASSUME NEW j \in 1..rneed
               PROVE  rbuf[j] = Enc(rfield)[RPos - starts[rfield] + j]
    OBVIOUS
  <1> USE FrameNat
  <1>0. starts[rfield] \in Nat /\ wsent \in Nat /\ rneed \in Nat /\ j \in 1..rneed
    OBVIOUS
  <1>1. /\ rfield \in 1..Len(msg) /\ msg[rfield] \in Fields
        /\ RPos \in Nat /\ rneed \in Nat
        /\ RPos + rneed <= starts[rfield] + Len(Enc(rfield))
    BY ReadWithinField
  <1>2. /\ RPos + Len(rbuf) + Len(wire) = Len(sent)
        /\ rbuf[j] = sent[RPos + j]
    <2>1. /\ RPos + Len(rbuf) + Len(wire) = Len(sent)
          /\ \A m \in 1..Len(rbuf) : rbuf[m] = sent[RPos + m]
      BY ReaderStream
    <2>2. j \in 1..Len(rbuf)
      OBVIOUS
    <2>3. QED
      BY <2>1, <2>2, Zenon
  <1>3. Len(wire) \in Nat /\ Len(Enc(rfield)) \in Nat
    <2>1. Enc(rfield) \in Seq(0..255)
      BY <1>1, FieldEncoding, Zenon DEF Enc
    <2>2. QED
      BY <2>1 DEF FrameInv, TypeOK
  <1>4. /\ Len(sent) = starts[wfield] + wsent
        /\ \A i \in 1..Len(msg) : i <= wfield =>
             \A m \in 1..Written(i) : sent[starts[i] + m] = Enc(i)[m]
    BY Zenon DEF FrameInv, WriterInv
  <1>5. starts[rfield] <= RPos /\ RPos - starts[rfield] \in Nat
    <2>1. UsizeWidth \in 1..8
      BY UsizeRange
    <2>2. QED
      BY <2>1 DEF RPos
  <1> DEFINE m == RPos - starts[rfield] + j
  <1>6. starts[rfield] + m = RPos + j /\ m \in Nat /\ 1 <= m
    BY ONLY <1>0, <1>1, <1>5, OffsetArith, Zenon
  <1>7. m <= Written(rfield)
    <2>1. CASE rfield < wfield
      <3>1. Written(rfield) = Len(Enc(rfield))
        BY <2>1 DEF Written
      <3>2. QED
        BY ONLY <1>0, <1>1, <1>3, <1>5, <3>1, SMTT(30)
    <2>2. CASE rfield = wfield
      <3>1. Written(rfield) = wsent
        BY <2>2 DEF Written
      <3>2. RPos + j <= starts[rfield] + wsent
        BY <1>1, <1>2, <1>3, <1>4, <2>2
      <3>3. QED
        BY ONLY <1>0, <1>1, <1>5, <3>1, <3>2, SMTT(30)
    <2>3. QED
      BY <2>1, <2>2
  <1>8. sent[starts[rfield] + m] = Enc(rfield)[m]
    <2>1. m \in 1..Written(rfield)
      BY <1>6, <1>7
    <2>2. QED
      BY <1>1, <1>4, <2>1, Zenon
  <1>9. QED
    BY <1>2, <1>6, <1>8, Zenon

\* What a completed read_exact holds: the bytes write_u8/u32/usize sent
\* for an integer field, the length prefix write_string sent, or the
\* string's bytes.
LEMMA CompletedRead ==
  ASSUME FrameInv, rstate = "reading", Len(rbuf) = rneed
  PROVE  /\ rstage = "int" =>
              msg[rfield] \in IntFields /\ rbuf = Encoding(msg[rfield])
         /\ rstage = "len" =>
              msg[rfield] \in StrFields
              /\ rbuf = Encode(Len(msg[rfield].value), UsizeWidth)
         /\ rstage = "body" =>
              msg[rfield] \in StrFields /\ rbuf = msg[rfield].value
  <1> USE FrameNat
  <1>1. /\ rfield \in 1..Len(msg) /\ msg[rfield] \in Fields /\ rbuf \in Seq(0..255)
        /\ rstage \in IF msg[rfield].type = "string" THEN {"len", "body"} ELSE {"int"}
        /\ rneed = IF rstage = "body" THEN Len(msg[rfield].value)
                                      ELSE Width(msg[rfield].type)
    BY DEF FrameInv, ReaderInv, TypeOK
  <1>2. \A j \in 1..rneed : rbuf[j] = Enc(rfield)[RPos - starts[rfield] + j]
    BY ReadBytesSent
  <1>3. starts[rfield] \in Nat /\ UsizeWidth \in 1..8
    BY UsizeRange
  <1>4. rstage = "int" => msg[rfield] \in IntFields /\ rbuf = Encoding(msg[rfield])
    <2>1. SUFFICES ASSUME rstage = "int"
                   PROVE  msg[rfield] \in IntFields /\ rbuf = Encoding(msg[rfield])
      OBVIOUS
    <2>2. msg[rfield] \in IntFields
      <3>1. msg[rfield].type # "string"
        BY <1>1, <2>1
      <3>2. QED
        BY <1>1, <3>1, FieldCases
    <2>3. Encoding(msg[rfield]) \in Seq(0..255)
          /\ Len(Encoding(msg[rfield])) = Width(msg[rfield].type)
      BY <2>2, IntEncoding, Zenon
    <2>4. rneed = Width(msg[rfield].type) /\ RPos = starts[rfield]
      BY <1>1, <2>1 DEF RPos
    <2>5. \A j \in 1..Len(rbuf) : rbuf[j] = Encoding(msg[rfield])[j]
      <3> SUFFICES ASSUME NEW j \in 1..Len(rbuf) PROVE rbuf[j] = Encoding(msg[rfield])[j]
        OBVIOUS
      <3>1. j \in 1..rneed /\ RPos - starts[rfield] + j = j
        BY <1>3, <2>4
      <3>2. rbuf[j] = Enc(rfield)[RPos - starts[rfield] + j]
        BY <1>2, <3>1, Zenon
      <3>3. QED
        BY <3>1, <3>2, Zenon DEF Enc
    <2>6. Len(rbuf) = Len(Encoding(msg[rfield]))
      BY <2>3, <2>4
    <2>7. QED
      BY <1>1, <2>2, <2>3, <2>5, <2>6, SeqEqual, Zenon
  <1>5. rstage = "len" =>
          msg[rfield] \in StrFields /\ rbuf = Encode(Len(msg[rfield].value), UsizeWidth)
    <2>1. SUFFICES ASSUME rstage = "len"
                   PROVE  msg[rfield] \in StrFields
                          /\ rbuf = Encode(Len(msg[rfield].value), UsizeWidth)
      OBVIOUS
    <2>2. msg[rfield].type = "string" /\ msg[rfield] \in StrFields
      <3>1. msg[rfield].type = "string"
        BY <1>1, <2>1
      <3>2. QED
        BY <1>1, <3>1, FieldCases
    <2>3. /\ \A j \in 1..UsizeWidth :
               Encoding(msg[rfield])[j] = Encode(Len(msg[rfield].value), UsizeWidth)[j]
          /\ Encode(Len(msg[rfield].value), UsizeWidth) \in Seq(0..255)
          /\ Len(Encode(Len(msg[rfield].value), UsizeWidth)) = UsizeWidth
      BY <2>2, StrEncoding, ZenonT(30)
    <2>4. rneed = UsizeWidth /\ RPos = starts[rfield]
      BY <1>1, <2>1, <2>2 DEF RPos, Width
    <2>5. \A j \in 1..Len(rbuf) :
            rbuf[j] = Encode(Len(msg[rfield].value), UsizeWidth)[j]
      <3> SUFFICES ASSUME NEW j \in 1..Len(rbuf)
                   PROVE  rbuf[j] = Encode(Len(msg[rfield].value), UsizeWidth)[j]
        OBVIOUS
      <3>1. j \in 1..rneed /\ j \in 1..UsizeWidth /\ RPos - starts[rfield] + j = j
        BY <1>3, <2>4
      <3>2. rbuf[j] = Enc(rfield)[RPos - starts[rfield] + j]
        BY <1>2, <3>1, Zenon
      <3>3. Enc(rfield)[j] = Encode(Len(msg[rfield].value), UsizeWidth)[j]
        BY <2>3, <3>1, Zenon DEF Enc
      <3>4. QED
        BY <3>1, <3>2, <3>3, Zenon
    <2>6. Len(rbuf) = Len(Encode(Len(msg[rfield].value), UsizeWidth))
      BY <2>3, <2>4
    <2>7. QED
      BY <1>1, <2>2, <2>3, <2>5, <2>6, SeqEqual, Zenon
  <1>6. rstage = "body" => msg[rfield] \in StrFields /\ rbuf = msg[rfield].value
    <2>1. SUFFICES ASSUME rstage = "body"
                   PROVE  msg[rfield] \in StrFields /\ rbuf = msg[rfield].value
      OBVIOUS
    <2>2. msg[rfield].type = "string" /\ msg[rfield] \in StrFields
      <3>1. msg[rfield].type = "string"
        BY <1>1, <2>1
      <3>2. QED
        BY <1>1, <3>1, FieldCases
    <2>3. /\ msg[rfield].value \in Seq(0..255)
          /\ \A j \in 1..Len(msg[rfield].value) :
               Encoding(msg[rfield])[UsizeWidth + j] = msg[rfield].value[j]
      BY <2>2, StrEncoding, Zenon
    <2>4. rneed = Len(msg[rfield].value) /\ RPos = starts[rfield] + UsizeWidth
      BY <1>1, <2>1 DEF RPos
    <2>5. \A j \in 1..Len(rbuf) : rbuf[j] = msg[rfield].value[j]
      <3> SUFFICES ASSUME NEW j \in 1..Len(rbuf) PROVE rbuf[j] = msg[rfield].value[j]
        OBVIOUS
      <3>1. /\ j \in 1..rneed /\ j \in 1..Len(msg[rfield].value)
            /\ RPos - starts[rfield] + j = UsizeWidth + j
        BY <1>3, <2>4
      <3>2. rbuf[j] = Enc(rfield)[RPos - starts[rfield] + j]
        BY <1>2, <3>1, Zenon
      <3>3. Enc(rfield)[UsizeWidth + j] = msg[rfield].value[j]
        BY <2>3, <3>1, Zenon DEF Enc
      <3>4. QED
        BY <3>1, <3>2, <3>3, Zenon
    <2>6. Len(rbuf) = Len(msg[rfield].value)
      BY <2>4
    <2>7. QED
      BY <1>1, <2>2, <2>3, <2>5, <2>6, SeqEqual, Zenon
  <1>7. QED
    BY <1>4, <1>5, <1>6

\* An integer read or a string body that completes lies in a field the
\* writer has finished.
LEMMA WholeFieldSent ==
  ASSUME FrameInv, rstate = "reading", Len(rbuf) = rneed, rstage \in {"int", "body"}
  PROVE  /\ rfield < wfield
         /\ RPos + rneed = starts[rfield + 1]
  <1> USE FrameNat
  <1>1. /\ rfield \in 1..Len(msg) /\ msg[rfield] \in Fields /\ RPos \in Nat
        /\ RPos + rneed = starts[rfield] + Len(Enc(rfield))
    BY ReadWithinField
  <1>2. RPos + Len(rbuf) + Len(wire) = Len(sent)
    BY ReaderStream
  <1>3. Len(wire) \in Nat /\ Len(Enc(rfield)) \in Nat
    <2>1. Enc(rfield) \in Seq(0..255)
      BY <1>1, FieldEncoding, Zenon DEF Enc
    <2>2. QED
      BY <2>1 DEF FrameInv, TypeOK
  <1>4. /\ Len(sent) = starts[wfield] + wsent
        /\ wfield <= Len(msg) => wsent < Len(Enc(wfield))
        /\ \A i \in 1..(wfield - 1) : starts[i + 1] = starts[i] + Len(Enc(i))
    BY Zenon DEF FrameInv, WriterInv
  <1>5. rfield < wfield
    <2>1. SUFFICES ASSUME rfield = wfield PROVE FALSE
      OBVIOUS
    <2>2. wsent < Len(Enc(rfield))
      BY <1>1, <1>4, <2>1
    <2>3. QED
      BY <1>1, <1>2, <1>3, <1>4, <2>1, <2>2
  <1>6. starts[rfield + 1] = starts[rfield] + Len(Enc(rfield))
    <2>1. rfield \in 1..(wfield - 1)
      BY <1>1, <1>5
    <2>2. QED
      BY <1>4, <2>1, Zenon
  <1>7. QED
    BY <1>1, <1>5, <1>6

\* A read_* call returns Ok with the value of field rfield and the reader
\* moves on to the next field (StartField).
LEMMA AdvanceFrameInv ==
  ASSUME FrameInv, rstate = "reading", Len(rbuf) = rneed,
         rfield < wfield, RPos + rneed = starts[rfield + 1],
         msg[rfield].type = "string" => Utf8Ok(msg[rfield].value),
         rbuf' = <<>>, got' = Append(got, msg[rfield].value),
         StartField(rfield + 1),
         UNCHANGED <<msg, wfield, wsent, wclosed, wire, sent, starts>>
  PROVE  FrameInv'
  <1> USE FrameNat
  <1>1. /\ msg' = msg /\ wfield' = wfield /\ wsent' = wsent /\ wclosed' = wclosed
        /\ wire' = wire /\ sent' = sent /\ starts' = starts
    BY Zenon
  <1>2. /\ rfield \in 1..Len(msg) /\ msg \in Seq(Fields)
        /\ wire \in Seq(0..255) /\ wclosed \in BOOLEAN
        /\ got = [i \in 1..(rfield - 1) |-> msg[i].value]
        /\ \A i \in 1..(rfield - 1) : msg[i].type = "string" => Utf8Ok(msg[i].value)
    BY DEF FrameInv, ReaderInv, TypeOK
  <1>3. /\ RPos + Len(rbuf) + Len(wire) = Len(sent)
        /\ \A j \in 1..Len(wire) : wire[j] = sent[RPos + Len(rbuf) + j]
    BY ReaderStream
  \* StartField(rfield + 1): the next field's first read, or the end.
  <1>4. /\ rfield' = rfield + 1 /\ rstage' \in {"int", "len"}
        /\ rfield + 1 > Len(msg) => rstate' = "done" /\ rneed' = 0
        /\ rfield + 1 <= Len(msg) =>
             /\ rstate' = "reading"
             /\ rstage' = IF msg[rfield + 1].type = "string" THEN "len" ELSE "int"
             /\ rneed' = Width(msg[rfield + 1].type)
    BY DEF StartField
  <1>5. rstate' \in {"reading", "done"} /\ rneed' \in Nat
    <2>1. CASE rfield + 1 <= Len(msg)
      <3>1. msg[rfield + 1] \in Fields
        BY <1>2, <2>1
      <3>2. Width(msg[rfield + 1].type) \in 1..8
        BY <3>1, FieldEncoding, Zenon
      <3>3. QED
        BY <1>4, <2>1, <3>2
    <2>2. CASE ~(rfield + 1 <= Len(msg))
      BY <1>4, <2>2
    <2>3. QED
      BY <2>1, <2>2
  <1>6. TypeOK'
    <2>1. wclosed' \in BOOLEAN
      BY <1>1, <1>2, Zenon
    <2>2. rbuf' \in Seq(0..255)
      BY EmptySeq
    <2>3. /\ wfield' \in 1..(Len(msg') + 1) /\ wsent' \in Nat /\ wire' \in Seq(0..255)
          /\ rfield' \in 1..(Len(msg') + 1) /\ rstage' \in {"int", "len", "body"}
          /\ rneed' \in Nat /\ rstate' \in {"reading", "done", "error"}
      <3>1. wfield \in 1..(Len(msg) + 1)
        BY DEF FrameInv, TypeOK
      <3>2. QED
        BY <1>1, <1>2, <1>4, <1>5, <3>1
    <2>4. QED
      BY <2>1, <2>2, <2>3, Zenon DEF TypeOK
  <1>7. WriterInv'
    <2>1. WriterInv
      BY DEF FrameInv
    <2>2. QED
      BY <1>1, <2>1 DEF WriterInv, Written, Enc
  <1>8. RPos' = starts[rfield + 1]
    BY <1>1, <1>4 DEF RPos
  <1>9. (rstate # "error" =>
           /\ RPos + Len(rbuf) + Len(wire) = Len(sent)
           /\ \A j \in 1..Len(rbuf) : rbuf[j] = sent[RPos + j]
           /\ \A j \in 1..Len(wire) : wire[j] = sent[RPos + Len(rbuf) + j])'
    <2>1. RPos + Len(rbuf) = RPos' /\ RPos \in Nat /\ Len(rbuf) \in Nat /\ Len(wire) \in Nat
      BY <1>2, <1>8, RPosNat DEF FrameInv, TypeOK
    <2>2. Len(rbuf') = 0
      OBVIOUS
    <2>3. RPos' + Len(rbuf') + Len(wire') = Len(sent')
      BY <1>1, <1>3, <2>1, <2>2, SMTT(30)
    <2>4. \A j \in 1..Len(wire') : wire'[j] = sent'[RPos' + Len(rbuf') + j]
      BY <1>1, <1>3, <2>1, <2>2, SMTT(30)
    <2>5. QED
      BY <2>2, <2>3, <2>4
  <1>10. (rstate = "reading" =>
            /\ rfield <= Len(msg)
            /\ rstage \in IF msg[rfield].type = "string" THEN {"len", "body"} ELSE {"int"}
            /\ rneed = IF rstage = "body" THEN Len(msg[rfield].value)
                                          ELSE Width(msg[rfield].type)
            /\ Len(rbuf) <= rneed)'
    <2>1. SUFFICES ASSUME rstate' = "reading"
                   PROVE  /\ rfield' <= Len(msg')
                          /\ rstage' \in IF msg'[rfield'].type = "string"
                                           THEN {"len", "body"} ELSE {"int"}
                          /\ rneed' = IF rstage' = "body" THEN Len(msg'[rfield'].value)
                                                          ELSE Width(msg'[rfield'].type)
                          /\ Len(rbuf') <= rneed'
      OBVIOUS
    <2>2. rfield + 1 <= Len(msg)
      BY <1>4, <2>1
    <2>3. QED
      BY <1>1, <1>4, <1>5, <2>2
  <1>11. (rstate = "done" => rfield = Len(msg) + 1)'
    BY <1>1, <1>2, <1>4
  <1>12. got' = [i \in 1..(rfield' - 1) |-> msg'[i].value]
    <2>1. rfield - 1 \in Nat /\ (rfield - 1) + 1 = rfield
      OBVIOUS
    <2>2. Append([i \in 1..(rfield - 1) |-> msg[i].value], msg[(rfield - 1) + 1].value)
            = [i \in 1..((rfield - 1) + 1) |-> msg[i].value]
      BY <2>1, AppendValues, SMTT(30)
    <2>3. QED
      BY <1>1, <1>2, <1>4, <2>1, <2>2
  <1>13. \A i \in 1..(rfield' - 1) : msg'[i].type = "string" => Utf8Ok(msg'[i].value)
    <2>1. SUFFICES ASSUME NEW i \in 1..rfield, msg[i].type = "string"
                   PROVE  Utf8Ok(msg[i].value)
      BY <1>1, <1>4
    <2>2. CASE i < rfield
      <3>1. i \in 1..(rfield - 1)
        BY <1>2, <2>1, <2>2
      <3>2. QED
        BY <1>2, <2>1, <3>1, Zenon
    <2>3. CASE i = rfield
      BY <2>1, <2>3
    <2>4. QED
      BY <2>2, <2>3
  <1>14. ReaderInv'
    <2>1. rfield' <= wfield'
      BY <1>1, <1>4
    <2>2. (rstate = "error" =>
             \/ wclosed /\ wfield <= Len(msg)
             \/ rfield <= Len(msg) /\ msg[rfield].type = "string"
                /\ ~Utf8Ok(msg[rfield].value))'
      BY <1>5
    <2>3. QED
      BY <1>9, <1>10, <1>11, <1>12, <1>13, <2>1, <2>2 DEF ReaderInv
  <1>15. QED
    BY <1>1, <1>2, <1>6, <1>7, <1>14 DEF FrameInv

\* read_* returning: a completed integer or string read returns its value
\* and the reader moves to the next field, a completed length prefix
\* starts the body read, and a body that is not UTF-8 fails the read.
LEMMA ReadDoneFrameInv == FrameInv /\ ReadDone => FrameInv'
  <1> SUFFICES ASSUME FrameInv, ReadDone PROVE FrameInv'
    OBVIOUS
  <1> USE FrameNat
  <1>1. /\ rstate = "reading" /\ Len(rbuf) = rneed /\ rbuf' = <<>>
        /\ UNCHANGED <<msg, wfield, wsent, wclosed, wire, sent, starts>>
    BY DEF ReadDone
  <1>2. /\ msg' = msg /\ wfield' = wfield /\ wsent' = wsent /\ wclosed' = wclosed
        /\ wire' = wire /\ sent' = sent /\ starts' = starts
    BY <1>1, Zenon
  <1>3. /\ rstage \in {"int", "len", "body"} /\ rfield \in 1..Len(msg)
        /\ wfield \in 1..(Len(msg) + 1) /\ msg \in Seq(Fields)
        /\ wclosed \in BOOLEAN /\ wire \in Seq(0..255)
        /\ got = [i \in 1..(rfield - 1) |-> msg[i].value]
        /\ \A i \in 1..(rfield - 1) : msg[i].type = "string" => Utf8Ok(msg[i].value)
    BY <1>1 DEF FrameInv, TypeOK, ReaderInv
  <1>4. WriterInv'
    <2>1. WriterInv
      BY DEF FrameInv
    <2>2. QED
      BY <1>2, <2>1 DEF WriterInv, Written, Enc
  <1>5. rbuf' \in Seq(0..255) /\ Len(rbuf') = 0
    BY <1>1, EmptySeq, SMTT(30)
  <1>6. CASE rstage = "int"
    <2>1. got' = Append(got, Decode(rbuf)) /\ StartField(rfield + 1)
      BY <1>6 DEF ReadDone
    <2>2. msg[rfield] \in IntFields /\ rbuf = Encoding(msg[rfield])
      BY <1>1, <1>6, CompletedRead
    <2>3. Decode(rbuf) = msg[rfield].value /\ msg[rfield].type # "string"
      BY <2>2, IntEncoding, Zenon
    <2>4. rfield < wfield /\ RPos + rneed = starts[rfield + 1]
      BY <1>1, <1>6, WholeFieldSent
    <2>5. got' = Append(got, msg[rfield].value)
      BY <2>1, <2>3
    <2>6. QED
      BY <1>1, <2>1, <2>3, <2>4, <2>5, AdvanceFrameInv
  <1>7. CASE rstage = "body" /\ Utf8Ok(rbuf)
    <2>1. got' = Append(got, rbuf) /\ StartField(rfield + 1)
      BY <1>7 DEF ReadDone
    <2>2. msg[rfield] \in StrFields /\ rbuf = msg[rfield].value
      BY <1>1, <1>7, CompletedRead
    <2>3. rfield < wfield /\ RPos + rneed = starts[rfield + 1]
      BY <1>1, <1>7, WholeFieldSent
    <2>4. got' = Append(got, msg[rfield].value) /\ Utf8Ok(msg[rfield].value)
      BY <1>7, <2>1, <2>2
    <2>5. QED
      BY <1>1, <2>1, <2>3, <2>4, AdvanceFrameInv
  <1>8. CASE rstage = "len"
    <2>1. /\ rstage' = "body" /\ rneed' = Decode(rbuf)
          /\ rfield' = rfield /\ got' = got /\ rstate' = rstate
      BY <1>8 DEF ReadDone
    <2>2. msg[rfield] \in StrFields
          /\ rbuf = Encode(Len(msg[rfield].value), UsizeWidth)
      BY <1>1, <1>8, CompletedRead
    <2>3. /\ msg[rfield].type = "string"
          /\ Decode(Encode(Len(msg[rfield].value), UsizeWidth)) = Len(msg[rfield].value)
          /\ Len(Encode(Len(msg[rfield].value), UsizeWidth)) = UsizeWidth
          /\ msg[rfield].value \in Seq(0..255)
      BY <2>2, StrEncoding, Zenon
    <2>4. rneed' = Len(msg[rfield].value) /\ rneed' \in Nat
      BY <2>1, <2>2, <2>3
    <2>5. TypeOK'
      <3>1. wclosed' \in BOOLEAN
        BY <1>2, <1>3, Zenon
      <3>2. /\ wfield' \in 1..(Len(msg') + 1) /\ wsent' \in Nat /\ wire' \in Seq(0..255)
            /\ rfield' \in 1..(Len(msg') + 1) /\ rstage' \in {"int", "len", "body"}
            /\ rneed' \in Nat /\ rstate' \in {"reading", "done", "error"}
        BY <1>1, <1>2, <1>3, <2>1, <2>4
      <3>3. QED
        BY <1>5, <3>1, <3>2, Zenon DEF TypeOK
    <2>6. RPos' = RPos + Len(rbuf) /\ RPos \in Nat /\ Len(wire) \in Nat
      <3>1. RPos = starts[rfield] /\ RPos' = starts[rfield] + UsizeWidth
        BY <1>2, <1>8, <2>1 DEF RPos
      <3>2. QED
        BY <1>3, <2>2, <2>3, <3>1, RPosNat
    <2>7. (rstate # "error" =>
             /\ RPos + Len(rbuf) + Len(wire) = Len(sent)
             /\ \A j \in 1..Len(rbuf) : rbuf[j] = sent[RPos + j]
             /\ \A j \in 1..Len(wire) : wire[j] = sent[RPos + Len(rbuf) + j])'
      <3>1. /\ RPos + Len(rbuf) + Len(wire) = Len(sent)
            /\ \A j \in 1..Len(wire) : wire[j] = sent[RPos + Len(rbuf) + j]
        BY <1>1, ReaderStream
      <3>2. RPos' + Len(rbuf') + Len(wire') = Len(sent')
        BY <1>2, <1>5, <2>6, <3>1
      <3>3. \A j \in 1..Len(wire') : wire'[j] = sent'[RPos' + Len(rbuf') + j]
        BY <1>2, <1>5, <2>6, <3>1
      <3>4. QED
        BY <1>5, <3>2, <3>3
    <2>8. (rstate = "reading" =>
             /\ rfield <= Len(msg)
             /\ rstage \in IF msg[rfield].type = "string" THEN {"len", "body"} ELSE {"int"}
             /\ rneed = IF rstage = "body" THEN Len(msg[rfield].value)
                                           ELSE Width(msg[rfield].type)
             /\ Len(rbuf) <= rneed)'
      BY <1>2, <1>3, <1>5, <2>1, <2>3, <2>4
    <2>9. QED
      <3>1. ReaderInv'
        BY <1>1, <1>2, <1>3, <2>1, <2>7, <2>8 DEF ReaderInv
      <3>2. QED
        BY <1>2, <1>3, <1>4, <2>5, <3>1 DEF FrameInv
  <1>9. CASE rstage = "body" /\ ~Utf8Ok(rbuf)
    <2>1. /\ rstate' = "error" /\ rfield' = rfield /\ rstage' = rstage
          /\ rneed' = rneed /\ got' = got
      BY <1>9 DEF ReadDone
    <2>2. msg[rfield] \in StrFields /\ rbuf = msg[rfield].value
      BY <1>1, <1>9, CompletedRead
    <2>3. msg[rfield].type = "string" /\ ~Utf8Ok(msg[rfield].value)
      BY <1>9, <2>2, StrEncoding, Zenon
    <2>4. TypeOK'
      <3>1. wclosed' \in BOOLEAN
        BY <1>2, <1>3, Zenon
      <3>2. /\ wfield' \in 1..(Len(msg') + 1) /\ wsent' \in Nat /\ wire' \in Seq(0..255)
            /\ rfield' \in 1..(Len(msg') + 1) /\ rstage' \in {"int", "len", "body"}
            /\ rneed' \in Nat /\ rstate' \in {"reading", "done", "error"}
        BY <1>2, <1>3, <2>1
      <3>3. QED
        BY <1>5, <3>1, <3>2, Zenon DEF TypeOK
    <2>5. ReaderInv'
      <3>1. rfield' <= wfield' /\ rstate' = "error"
        BY <1>2, <2>1
      <3>2. (rstate = "error" =>
               \/ wclosed /\ wfield <= Len(msg)
               \/ rfield <= Len(msg) /\ msg[rfield].type = "string"
                  /\ ~Utf8Ok(msg[rfield].value))'
        BY <1>2, <1>3, <2>1, <2>3
      <3>3. (/\ got = [i \in 1..(rfield - 1) |-> msg[i].value]
             /\ \A i \in 1..(rfield - 1) : msg[i].type = "string" => Utf8Ok(msg[i].value))'
        BY <1>2, <1>3, <2>1
      <3>4. QED
        BY <3>1, <3>2, <3>3, Zenon DEF ReaderInv
    <2>6. QED
      BY <1>2, <1>3, <1>4, <2>4, <2>5 DEF FrameInv
  <1>10. QED
    BY <1>3, <1>6, <1>7, <1>8, <1>9

\* Every step of the two processes, and the final stutter, keeps the
\* stream invariant.
LEMMA NextFrameInv == FrameInv /\ [Next]_vars => FrameInv'
  <1> SUFFICES ASSUME FrameInv, [Next]_vars PROVE FrameInv'
    OBVIOUS
  <1>1. CASE Write
    BY <1>1, WriteFrameInv
  <1>2. CASE WriterClose
    BY <1>2, WriterCloseFrameInv
  <1>3. CASE ReadChunk
    BY <1>3, ReadChunkFrameInv
  <1>4. CASE ReadEof
    BY <1>4, ReadEofFrameInv
  <1>5. CASE ReadDone
    BY <1>5, ReadDoneFrameInv
  <1>6. CASE Terminated
    BY <1>6, StutterFrameInv DEF Terminated
  <1>7. CASE UNCHANGED vars
    BY <1>7, StutterFrameInv
  <1>8. QED
    BY <1>1, <1>2, <1>3, <1>4, <1>5, <1>6, <1>7 DEF Next

-----------------------------------------------------------------------------
(* The properties the framing run checks, for every request the write_*   *)
(* methods can produce and every usize width.                              *)

\* FrameInv gives ReadValuesAreWritten: got is the values of the fields
\* before rfield, and rfield never passes the end of the request.
LEMMA FrameInvValues == FrameInv => ReadValuesAreWritten
  <1> SUFFICES ASSUME FrameInv PROVE ReadValuesAreWritten
    OBVIOUS
  <1>1. /\ got = [i \in 1..(rfield - 1) |-> msg[i].value]
        /\ rfield \in 1..(Len(msg) + 1)
    BY DEF FrameInv, ReaderInv, TypeOK
  <1>2. Len(got) = rfield - 1
    BY <1>1
  <1>3. QED
    BY <1>1, <1>2 DEF ReadValuesAreWritten

\* FrameInv gives ReaderOutcome: done means rfield is past the last
\* field, and an error carries one of its two causes.
LEMMA FrameInvOutcome == FrameInv => ReaderOutcome
  <1> SUFFICES ASSUME FrameInv PROVE ReaderOutcome
    OBVIOUS
  <1>1. /\ got = [i \in 1..(rfield - 1) |-> msg[i].value]
        /\ \A i \in 1..(rfield - 1) : msg[i].type = "string" => Utf8Ok(msg[i].value)
        /\ rstate = "done" => rfield = Len(msg) + 1
        /\ rstate = "error" =>
             \/ wclosed /\ wfield <= Len(msg)
             \/ rfield <= Len(msg) /\ msg[rfield].type = "string"
                /\ ~Utf8Ok(msg[rfield].value)
        /\ Len(msg) \in Nat
    BY DEF FrameInv, ReaderInv, TypeOK
  <1>2. rstate = "done" =>
          /\ got = [i \in 1..Len(msg) |-> msg[i].value]
          /\ \A i \in 1..Len(msg) : msg[i].type = "string" => Utf8Ok(msg[i].value)
    BY <1>1
  <1>3. QED
    BY <1>1, <1>2 DEF ReaderOutcome

\* Every value read_u8 / read_u32 / read_usize / read_string has returned
\* is the value the peer's write_* call sent for that field, in order,
\* whatever the splits of write(2) and read(2) and wherever the writer died.
THEOREM ReadValuesAreWrittenHolds == MessagesWellFormed => (Spec => []ReadValuesAreWritten)
  <1> SUFFICES ASSUME MessagesWellFormed PROVE Spec => []ReadValuesAreWritten
    OBVIOUS
  <1>1. Init => FrameInv
    BY InitFrameInv
  <1>2. FrameInv /\ [Next]_vars => FrameInv'
    BY NextFrameInv
  <1>3. FrameInv => ReadValuesAreWritten
    BY FrameInvValues
  <1>4. QED
    BY <1>1, <1>2, <1>3, PTL DEF Spec

\* The reader reaches done only with every field of the request, all of
\* its strings UTF-8, and fails only on a request the writer's death cut
\* short or on a string that is not UTF-8.
THEOREM ReaderOutcomeHolds == MessagesWellFormed => (Spec => []ReaderOutcome)
  <1> SUFFICES ASSUME MessagesWellFormed PROVE Spec => []ReaderOutcome
    OBVIOUS
  <1>1. Init => FrameInv
    BY InitFrameInv
  <1>2. FrameInv /\ [Next]_vars => FrameInv'
    BY NextFrameInv
  <1>3. FrameInv => ReaderOutcome
    BY FrameInvOutcome
  <1>4. QED
    BY <1>1, <1>2, <1>3, PTL DEF Spec

\* Every counter, buffer and state of the two processes keeps its type:
\* the field indices stay within the request plus one, the buffers hold
\* bytes.
THEOREM FramingTypeOK == MessagesWellFormed => (Spec => []TypeOK)
  <1> SUFFICES ASSUME MessagesWellFormed PROVE Spec => []TypeOK
    OBVIOUS
  <1>1. Init => FrameInv
    BY InitFrameInv
  <1>2. FrameInv /\ [Next]_vars => FrameInv'
    BY NextFrameInv
  <1>3. FrameInv => TypeOK
    BY DEF FrameInv
  <1>4. QED
    BY <1>1, <1>2, <1>3, PTL DEF Spec

=============================================================================
