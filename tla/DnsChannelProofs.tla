-------------------------- MODULE DnsChannelProofs --------------------------
(***************************************************************************)
(* What passes through DnsChannel, for any messages, any room in the       *)
(* socket and any cut of the writes longer than Whole: as long as no read  *)
(* that took bytes was dropped, the reader, the bytes of the socket and    *)
(* those still to write are, put together, the frames of the messages that *)
(* were not read yet; and no such read is dropped unless a message was     *)
(* longer than Whole.                                                      *)
(***************************************************************************)
EXTENDS DnsChannel, SequenceTheorems, TLAPS

-----------------------------------------------------------------------------
(* Strings of bytes.                                                       *)

LEMMA BytesAssociative ==
    \A f, g, h \in Seq(Byte) : (f \o g) \o h = f \o (g \o h)
<1>. SUFFICES ASSUME NEW f \in Seq(Byte), NEW g \in Seq(Byte), NEW h \in Seq(Byte)
              PROVE  (f \o g) \o h = f \o (g \o h)
  OBVIOUS
<1>. QED  BY ConcatAssociative

LEMMA BytesJoin ==
    \A f, g \in Seq(Byte) : f \o g \in Seq(Byte)
<1>. SUFFICES ASSUME NEW f \in Seq(Byte), NEW g \in Seq(Byte)
              PROVE  f \o g \in Seq(Byte)
  OBVIOUS
<1>. QED  BY ConcatProperties

LEMMA BytesLength ==
    \A f, g \in Seq(Byte) : Len(f \o g) = Len(f) + Len(g)
<1>. SUFFICES ASSUME NEW f \in Seq(Byte), NEW g \in Seq(Byte)
              PROVE  Len(f \o g) = Len(f) + Len(g)
  OBVIOUS
<1>. QED  BY ConcatProperties

(* A string is cut in one place into two of given lengths in one way only. *)
LEMMA SameCut ==
    \A a, b, c, d \in Seq(Byte) :
        a \o b = c \o d /\ Len(a) = Len(c) => a = c /\ b = d
<1>. SUFFICES ASSUME NEW a \in Seq(Byte), NEW b \in Seq(Byte), NEW c \in Seq(Byte),
                     NEW d \in Seq(Byte), a \o b = c \o d, Len(a) = Len(c)
              PROVE  a = c /\ b = d
  OBVIOUS
<1>1. Len(a) \in Nat /\ Len(b) \in Nat /\ Len(d) \in Nat
  BY LenProperties
<1>2. ASSUME NEW i \in 1..Len(a)
      PROVE  a[i] = c[i]
  <2>1. i <= Len(a) /\ i \in 1..(Len(a) + Len(b)) /\ i \in 1..(Len(c) + Len(d)) /\ i <= Len(c)
    BY <1>1
  <2>2. (a \o b)[i] = a[i]
    BY <2>1, ConcatProperties
  <2>3. (c \o d)[i] = c[i]
    BY <2>1, ConcatProperties
  <2>. QED  BY <2>2, <2>3
<1>3. a = c
  BY <1>2, SeqEqual
<1>4. Len(b) = Len(d)
  <2>1. Len(a \o b) = Len(a) + Len(b) /\ Len(c \o d) = Len(c) + Len(d)
    BY ConcatProperties
  <2>. QED  BY <1>1, <2>1
<1>5. ASSUME NEW i \in 1..Len(b)
      PROVE  b[i] = d[i]
  <2>. DEFINE j == Len(a) + i
  <2>1. /\ j \in 1..(Len(a) + Len(b)) /\ ~(j <= Len(a)) /\ j - Len(a) = i
        /\ j \in 1..(Len(c) + Len(d)) /\ ~(j <= Len(c)) /\ j - Len(c) = i
    BY <1>1, <1>4
  <2>. HIDE DEF j
  <2>2. (a \o b)[j] = IF j <= Len(a) THEN a[j] ELSE b[j - Len(a)]
    BY <2>1, ConcatProperties
  <2>3. (c \o d)[j] = IF j <= Len(c) THEN c[j] ELSE d[j - Len(c)]
    BY <2>1, ConcatProperties
  <2>. QED  BY <2>1, <2>2, <2>3
<1>6. b = d
  BY <1>4, <1>5, SeqEqual
<1>. QED  BY <1>3, <1>6

-----------------------------------------------------------------------------
(* Frames: what is written, and what a reader makes of it.                 *)

(* Two bytes always make a length. *)
LEMMA LengthType ==
    /\ MaxLen \in Nat
    /\ \A b, c \in Byte : b * 256 + c \in 0..MaxLen
<1>1. MaxLen \in Nat
  BY DEF MaxLen
<1>2. \A b, c \in Byte : b * 256 + c \in Nat /\ b * 256 + c <= MaxLen
  BY DEF Byte, MaxLen
<1>. QED  BY <1>1, <1>2

(* A length of two bytes, taken apart and put together. *)
LEMMA LengthBytes ==
    ASSUME NEW n \in Nat, n <= MaxLen
    PROVE  /\ n % 65536 = n
           /\ n \div 256 \in Byte /\ n % 256 \in Byte
           /\ (n \div 256) * 256 + (n % 256) = n
<1>1. n < 65536
  BY DEF MaxLen
<1>2. n % 65536 = n
  BY <1>1
<1>3. n \div 256 \in Byte /\ n % 256 \in Byte
  BY <1>1 DEF Byte
<1>4. (n \div 256) * 256 + (n % 256) = n
  BY <1>1
<1>. QED  BY <1>2, <1>3, <1>4

(* The bytes of a length, of a message, and those a reader took of a frame. *)
Header(n) == <<n \div 256, n % 256>>
Frame(m) == Writes(m)[1] \o Writes(m)[2]
Consumed(r) == IF r.len = 0 THEN r.buf ELSE Header(r.len) \o r.buf

(* What a reader holds is short of what it reads. *)
ShortOfNeed(r) == Len(r.buf) < IF r.len = 0 THEN 2 ELSE r.len

LEMMA HeaderType ==
    ASSUME NEW n \in Nat, n <= MaxLen
    PROVE  /\ Header(n) \in Seq(Byte) /\ 2 <= Len(Header(n)) /\ Len(Header(n)) <= 2
           /\ Header(n)[1] * 256 + Header(n)[2] = n
<1>1. /\ n \div 256 \in Byte /\ n % 256 \in Byte
      /\ (n \div 256) * 256 + (n % 256) = n
  BY LengthBytes
<1>2. Header(n) \in Seq(Byte) /\ 2 <= Len(Header(n)) /\ Len(Header(n)) <= 2
  BY <1>1 DEF Header
<1>3. Header(n)[1] = n \div 256 /\ Header(n)[2] = n % 256
  BY DEF Header
<1>. QED  BY <1>1, <1>2, <1>3

(* The length that goes first is the length the reader makes of it. *)
LEMMA FrameType ==
    ASSUME NEW m \in Message
    PROVE  /\ m \in Seq(Byte) /\ Len(m) \in Nat /\ Len(m) >= 2 /\ Len(m) <= MaxLen
           /\ Writes(m) = << Header(Len(m)), m >>
           /\ Header(Len(m)) \in Seq(Byte)
           /\ 2 <= Len(Header(Len(m))) /\ Len(Header(Len(m))) <= 2
           /\ Frame(m) = Header(Len(m)) \o m
           /\ Frame(m) \in Seq(Byte) /\ Len(Frame(m)) = Len(m) + 2
<1>. DEFINE n == Len(m)
<1>1. m \in Seq(Byte) /\ n \in Nat /\ n >= 2 /\ n <= MaxLen
  <2>1. m \in Seq(Byte) /\ n \in 2..MaxLen
    BY MessageAssumption
  <2>. QED  BY <2>1, LengthType
<1>2. Writes(m) = << Header(n), m >>
  <2>1. n % 65536 = n
    <3>. HIDE DEF n
    <3>. QED  BY <1>1, LengthBytes
  <2>. QED  BY <2>1 DEF Writes, Header
<1>. HIDE DEF n
<1>3. Header(n) \in Seq(Byte) /\ 2 <= Len(Header(n)) /\ Len(Header(n)) <= 2
  BY <1>1, HeaderType
<1>4. Frame(m) = Header(n) \o m
  BY <1>2 DEF Frame
<1>5. Frame(m) \in Seq(Byte) /\ Len(Frame(m)) = Len(m) + 2
  <2>1. Frame(m) \in Seq(Byte) /\ Len(Frame(m)) = Len(Header(n)) + Len(m)
    BY <1>1, <1>3, <1>4, ConcatProperties
  <2>. QED  BY <1>1, <1>3, <2>1 DEF n
<1>. QED  BY <1>1, <1>2, <1>3, <1>4, <1>5 DEF n

(* A poll of read_exact takes its bytes off the front of the stream: all it  *)
(* needs, or all there are.                                                  *)
LEMMA FillSplit ==
    ASSUME NEW buf \in Seq(Byte), NEW need \in Nat, NEW bytes \in Seq(Byte),
           Len(buf) <= need
    PROVE  /\ Fill(buf, need, bytes).buf \in Seq(Byte)
           /\ Fill(buf, need, bytes).rest \in Seq(Byte)
           /\ Fill(buf, need, bytes).buf \o Fill(buf, need, bytes).rest = buf \o bytes
           /\ Len(Fill(buf, need, bytes).rest) <= Len(bytes)
           /\ Len(Fill(buf, need, bytes).buf) <= need
           /\ Len(Fill(buf, need, bytes).buf) < need => Fill(buf, need, bytes).rest = <<>>
<1>. DEFINE k == Min({need - Len(buf), Len(bytes)})
            a == SubSeq(bytes, 1, k)
            b == SubSeq(bytes, k + 1, Len(bytes))
<1>1. /\ need - Len(buf) \in Nat /\ Len(bytes) \in Nat /\ Len(buf) \in Nat
      /\ \A i \in 1..Len(bytes) : bytes[i] \in Byte
  BY LenProperties
<1>2. k \in 0..Len(bytes) /\ (k = need - Len(buf) \/ (k < need - Len(buf) /\ k = Len(bytes)))
  <2>1. PICK m \in {need - Len(buf), Len(bytes)} :
           \A y \in {need - Len(buf), Len(bytes)} : m =< y
    BY <1>1
  <2>2. /\ k \in {need - Len(buf), Len(bytes)}
        /\ \A y \in {need - Len(buf), Len(bytes)} : k =< y
    BY <2>1 DEF Min
  <2>. HIDE DEF k
  <2>. QED  BY <1>1, <2>2
<1>3. Fill(buf, need, bytes) = [buf |-> buf \o a, rest |-> b]
  BY DEF Fill
<1>. HIDE DEF k
<1>4. /\ a \in Seq(Byte) /\ Len(a) = k
      /\ b \in Seq(Byte) /\ Len(b) = Len(bytes) - k
  BY <1>1, <1>2, SubSeqProperties
<1>5. a \o b = bytes
  <2>1. 1 \in 1..(Len(bytes) + 1) /\ k \in (1 - 1)..Len(bytes) /\ Len(bytes) \in k..Len(bytes)
    BY <1>1, <1>2
  <2>2. a \o b = SubSeq(bytes, 1, Len(bytes))
    BY <2>1, ConcatAdjacentSubSeq
  <2>. QED  BY <2>2, SubSeqFull
<1>. HIDE DEF a, b
<1>6. /\ buf \o a \in Seq(Byte) /\ Len(buf \o a) = Len(buf) + k
      /\ (buf \o a) \o b = buf \o bytes
  <2>1. (buf \o a) \o b = buf \o (a \o b)
    BY <1>4, BytesAssociative, Zenon
  <2>2. buf \o a \in Seq(Byte) /\ Len(buf \o a) = Len(buf) + Len(a)
    BY <1>4, ConcatProperties
  <2>. QED  BY <1>4, <1>5, <2>1, <2>2
<1>7. Fill(buf, need, bytes).buf = buf \o a /\ Fill(buf, need, bytes).rest = b
  BY <1>3
<1>8. Len(b) <= Len(bytes)
  BY <1>1, <1>2, <1>4
<1>9. /\ Len(buf \o a) <= need
      /\ Len(buf \o a) < need => b = <<>>
  <2>1. CASE k = need - Len(buf)
    BY <1>1, <1>6, <2>1
  <2>2. CASE k < need - Len(buf) /\ k = Len(bytes)
    <3>1. Len(b) = 0
      BY <1>1, <1>4, <2>2
    <3>2. b = <<>>
      BY <1>4, <3>1, EmptySeq
    <3>3. Len(buf \o a) < need
      BY <1>1, <1>6, <2>2
    <3>. QED  BY <3>2, <3>3
  <2>. QED  BY <1>2, <2>1, <2>2
<1>. QED  BY <1>4, <1>6, <1>7, <1>8, <1>9

(* A poll never takes more than the stream has, so what it takes and what it *)
(* leaves are bytes; and it is pending only if it leaves none.               *)
LEMMA PollType ==
    ASSUME NEW r \in Reader, ShortOfNeed(r), NEW bytes \in Seq(Byte)
    PROVE  LET poll == Poll(r, bytes)
           IN  /\ poll.res \in {"pending", "message", "error"}
               /\ poll.rest \in Seq(Byte) /\ Len(poll.rest) <= Len(bytes)
               /\ poll.reader \in Reader /\ ShortOfNeed(poll.reader)
               /\ poll.res = "message" => poll.msg \in Seq(Byte)
               /\ poll.res = "pending" => poll.rest = <<>>
<1>. DEFINE head == IF r.len = 0 THEN Fill(r.buf, 2, bytes)
                    ELSE [buf |-> <<>>, rest |-> bytes]
            len  == IF r.len = 0 THEN head.buf[1] * 256 + head.buf[2] ELSE r.len
            buf  == IF r.len = 0 THEN <<>> ELSE r.buf
            body == Fill(buf, len, head.rest)
<1>1. /\ r.len \in 0..MaxLen /\ r.len \in Nat
      /\ r.buf \in Seq(Byte) /\ Len(r.buf) \in Nat
  <2>1. r.len \in 0..MaxLen /\ r.buf \in Seq(Byte)
    BY DEF Reader
  <2>. QED  BY <2>1, LengthType, LenProperties
<1>2. /\ head.buf \in Seq(Byte) /\ head.rest \in Seq(Byte)
      /\ Len(head.rest) <= Len(bytes) /\ Len(head.rest) \in Nat /\ Len(bytes) \in Nat
      /\ (r.len = 0 /\ Len(head.buf) < 2) => head.rest = <<>>
  <2>1. CASE r.len = 0
    <3>1. Len(r.buf) <= 2 /\ 2 \in Nat
      BY <1>1, <2>1 DEF ShortOfNeed
    <3>2. head = Fill(r.buf, 2, bytes)
      BY <2>1
    <3>. HIDE DEF head
    <3>. QED  BY <1>1, <3>1, <3>2, FillSplit, LenProperties
  <2>2. CASE r.len # 0
    BY <2>2, EmptySeq, LenProperties
  <2>. QED  BY <2>1, <2>2
<1>3. NewReader \in Reader /\ ShortOfNeed(NewReader)
  BY LengthType, EmptySeq DEF NewReader, Reader, ShortOfNeed
<1>4. Poll(r, bytes) =
        IF r.len = 0 /\ Len(head.buf) < 2
        THEN [res |-> "pending", reader |-> [len |-> 0, buf |-> head.buf],
              rest |-> head.rest]
        ELSE IF Len(body.buf) < len
        THEN [res |-> "pending", reader |-> [len |-> len, buf |-> body.buf],
              rest |-> body.rest]
        ELSE [res |-> IF len >= 2 THEN "message" ELSE "error", msg |-> body.buf,
              reader |-> NewReader, rest |-> body.rest]
  BY DEF Poll
<1>. HIDE DEF head
<1>5. CASE r.len = 0 /\ Len(head.buf) < 2
  <2>1. [len |-> 0, buf |-> head.buf] \in Reader /\ ShortOfNeed([len |-> 0, buf |-> head.buf])
    BY LengthType, <1>2, <1>5 DEF Reader, ShortOfNeed
  <2>2. head.rest = <<>>
    BY <1>2, <1>5, Zenon
  <2>3. Poll(r, bytes) = [res |-> "pending", reader |-> [len |-> 0, buf |-> head.buf],
                          rest |-> head.rest]
    BY <1>4, <1>5
  <2>. QED  BY <1>2, <2>1, <2>2, <2>3
<1>6. CASE ~(r.len = 0 /\ Len(head.buf) < 2)
  <2>1. Len(head.buf) \in Nat /\ \A i \in 1..Len(head.buf) : head.buf[i] \in Byte
    BY <1>2, LenProperties
  <2>2. len \in 0..MaxLen /\ len \in Nat
    <3>1. CASE r.len = 0
      <4>1. Len(head.buf) >= 2
        BY <1>6, <2>1, <3>1
      <4>2. head.buf[1] \in Byte /\ head.buf[2] \in Byte
        BY <2>1, <4>1
      <4>. QED  BY <3>1, <4>2, LengthType
    <3>2. CASE r.len # 0
      BY <1>1, <3>2
    <3>. QED  BY <3>1, <3>2
  <2>3. buf \in Seq(Byte) /\ Len(buf) <= len
    BY <1>1, <2>2, EmptySeq DEF ShortOfNeed
  <2>. HIDE DEF len, buf
  <2>4. /\ body.buf \in Seq(Byte) /\ body.rest \in Seq(Byte)
        /\ Len(body.rest) <= Len(head.rest)
        /\ Len(body.buf) < len => body.rest = <<>>
    BY <1>2, <2>2, <2>3, FillSplit
  <2>. HIDE DEF body
  <2>5. Len(body.rest) <= Len(bytes)
    BY <1>2, <2>4, LenProperties
  <2>6. CASE Len(body.buf) < len
    <3>1. [len |-> len, buf |-> body.buf] \in Reader
      BY <2>2, <2>4 DEF Reader
    <3>2. ShortOfNeed([len |-> len, buf |-> body.buf])
      BY <2>2, <2>4, <2>6, LenProperties DEF ShortOfNeed
    <3>3. body.rest = <<>>
      BY <2>2, <2>4, <2>6
    <3>4. Poll(r, bytes) = [res |-> "pending", reader |-> [len |-> len, buf |-> body.buf],
                            rest |-> body.rest]
      BY <1>4, <1>6, <2>6
    <3>. QED  BY <2>4, <2>5, <3>1, <3>2, <3>3, <3>4
  <2>7. CASE ~(Len(body.buf) < len)
    <3>1. Poll(r, bytes) = [res |-> IF len >= 2 THEN "message" ELSE "error",
                            msg |-> body.buf, reader |-> NewReader, rest |-> body.rest]
      BY <1>4, <1>6, <2>7
    <3>. QED  BY <1>3, <2>4, <2>5, <3>1
  <2>. QED  BY <2>6, <2>7
<1>. QED  BY <1>5, <1>6

(* What comes of a poll: the reader waits for what is left of the frame of m, *)
(* or it has m, and rest follows.                                            *)
Polled(poll, z, m, rest) ==
    \/ /\ poll.res = "pending"
       /\ (Consumed(poll.reader) \o poll.rest) \o z = Frame(m) \o rest
       /\ poll.reader.len = 0 \/ poll.reader.len = Len(m)
    \/ /\ poll.res = "message" /\ poll.msg = m /\ poll.reader = NewReader
       /\ poll.rest \o z = rest

(* A reader that took the front of a frame, and finds more of it: after the  *)
(* poll it has the message, and the stream what follows; or it still waits,  *)
(* and what it took, what it finds later and all that follows are the same.  *)
LEMMA PollFrame ==
    ASSUME NEW r \in Reader, ShortOfNeed(r), NEW bytes \in Seq(Byte), NEW z \in Seq(Byte),
           NEW m \in Message, NEW rest \in Seq(Byte)
    PROVE  (Consumed(r) \o bytes) \o z = Frame(m) \o rest =>
              Polled(Poll(r, bytes), z, m, rest)
<1>. DEFINE head == IF r.len = 0 THEN Fill(r.buf, 2, bytes)
                    ELSE [buf |-> <<>>, rest |-> bytes]
            len  == IF r.len = 0 THEN head.buf[1] * 256 + head.buf[2] ELSE r.len
            buf  == IF r.len = 0 THEN <<>> ELSE r.buf
            body == Fill(buf, len, head.rest)
            h    == Header(Len(m))
<1>0. SUFFICES ASSUME (Consumed(r) \o bytes) \o z = Frame(m) \o rest
               PROVE  LET poll == Poll(r, bytes)
                      IN  \/ /\ poll.res = "pending"
                             /\ (Consumed(poll.reader) \o poll.rest) \o z = Frame(m) \o rest
                             /\ poll.reader.len = 0 \/ poll.reader.len = Len(m)
                          \/ /\ poll.res = "message" /\ poll.msg = m
                             /\ poll.reader = NewReader /\ poll.rest \o z = rest
  BY DEF Polled
<1>1. /\ r.len \in Nat /\ r.len <= MaxLen
      /\ r.buf \in Seq(Byte) /\ Len(r.buf) \in Nat
  <2>1. r.len \in 0..MaxLen /\ r.buf \in Seq(Byte)
    BY DEF Reader
  <2>. QED  BY <2>1, LengthType, LenProperties
<1>2. /\ m \in Seq(Byte) /\ Len(m) \in Nat /\ Len(m) >= 2 /\ Len(m) <= MaxLen
      /\ h \in Seq(Byte) /\ 2 <= Len(h) /\ Len(h) <= 2 /\ h[1] * 256 + h[2] = Len(m)
      /\ Frame(m) = h \o m
      /\ Frame(m) \o rest = h \o (m \o rest) /\ m \o rest \in Seq(Byte)
  <2>1. /\ m \in Seq(Byte) /\ Len(m) \in Nat /\ Len(m) >= 2 /\ Len(m) <= MaxLen
        /\ h \in Seq(Byte) /\ 2 <= Len(h) /\ Len(h) <= 2 /\ Frame(m) = h \o m
    BY FrameType
  <2>2. h[1] * 256 + h[2] = Len(m)
    BY <2>1, HeaderType
  <2>. HIDE DEF h
  <2>3. (h \o m) \o rest = h \o (m \o rest)
    BY <2>1, BytesAssociative, Zenon
  <2>4. m \o rest \in Seq(Byte)
    BY <2>1, BytesJoin, Zenon
  <2>. QED  BY <2>1, <2>2, <2>3, <2>4
<1>3. Poll(r, bytes) =
        IF r.len = 0 /\ Len(head.buf) < 2
        THEN [res |-> "pending", reader |-> [len |-> 0, buf |-> head.buf],
              rest |-> head.rest]
        ELSE IF Len(body.buf) < len
        THEN [res |-> "pending", reader |-> [len |-> len, buf |-> body.buf],
              rest |-> body.rest]
        ELSE [res |-> IF len >= 2 THEN "message" ELSE "error", msg |-> body.buf,
              reader |-> NewReader, rest |-> body.rest]
  BY DEF Poll
<1>4. r.len = 0 =>
        /\ head.buf \in Seq(Byte) /\ head.rest \in Seq(Byte)
        /\ head.buf \o head.rest = Consumed(r) \o bytes
        /\ Len(head.buf) <= 2 /\ Len(head.buf) \in Nat
  <2>. SUFFICES ASSUME r.len = 0
                PROVE  /\ head.buf \in Seq(Byte) /\ head.rest \in Seq(Byte)
                       /\ head.buf \o head.rest = Consumed(r) \o bytes
                       /\ Len(head.buf) <= 2 /\ Len(head.buf) \in Nat
    OBVIOUS
  <2>1. Len(r.buf) <= 2 /\ 2 \in Nat
    BY <1>1 DEF ShortOfNeed
  <2>2. head = Fill(r.buf, 2, bytes) /\ Consumed(r) = r.buf
    BY DEF Consumed
  <2>3. /\ Fill(r.buf, 2, bytes).buf \in Seq(Byte)
        /\ Fill(r.buf, 2, bytes).rest \in Seq(Byte)
        /\ Fill(r.buf, 2, bytes).buf \o Fill(r.buf, 2, bytes).rest = r.buf \o bytes
        /\ Len(Fill(r.buf, 2, bytes).buf) <= 2 /\ Len(Fill(r.buf, 2, bytes).buf) \in Nat
    BY <1>1, <2>1, FillSplit, LenProperties
  <2>. HIDE DEF head
  <2>. QED  BY <2>2, <2>3, Zenon
<1>. HIDE DEF head, h
<1>5. h \in Seq(Byte)
  BY <1>2
<1>6. m \in Seq(Byte) /\ m \o rest \in Seq(Byte)
  BY <1>2
<1>7. CASE r.len = 0 /\ Len(head.buf) < 2
  <2>1. Poll(r, bytes) = [res |-> "pending", reader |-> [len |-> 0, buf |-> head.buf],
                          rest |-> head.rest]
    BY <1>3, <1>7
  <2>2. Consumed([len |-> 0, buf |-> head.buf]) = head.buf
    BY DEF Consumed
  <2>3. /\ Poll(r, bytes).res = "pending"
        /\ Poll(r, bytes).reader = [len |-> 0, buf |-> head.buf]
        /\ Poll(r, bytes).rest = head.rest
    BY <2>1
  <2>4. [len |-> 0, buf |-> head.buf].len = 0
    OBVIOUS
  <2>5. (head.buf \o head.rest) \o z = Frame(m) \o rest
    BY <1>0, <1>4, <1>7, Zenon
  <2>. QED  BY <2>2, <2>3, <2>4, <2>5, Zenon
<1>8. CASE ~(r.len = 0 /\ Len(head.buf) < 2)
  (* the length is known, and rest is preceded by the message *)
  <2>1. /\ len = Len(m) /\ buf \in Seq(Byte) /\ Len(buf) <= Len(m)
        /\ head.rest \in Seq(Byte)
        /\ (buf \o head.rest) \o z = m \o rest
    <3>1. CASE r.len = 0
      <4>1. Len(head.buf) >= 2 /\ Len(head.buf) <= 2 /\ head.buf \in Seq(Byte) /\ head.rest \in Seq(Byte)
        BY <1>4, <1>8, <3>1
      <4>2. head.buf \o (head.rest \o z) = h \o (m \o rest)
        <5>1. (head.buf \o head.rest) \o z = head.buf \o (head.rest \o z)
          BY <4>1, BytesAssociative, Zenon
        <5>. QED  BY <1>0, <1>2, <1>4, <3>1, <5>1, Zenon
      <4>3. head.buf = h /\ head.rest \o z = m \o rest
        <5>1. head.rest \o z \in Seq(Byte)
          BY <4>1, BytesJoin, Zenon
        <5>2. Len(head.buf) = Len(h)
          BY <1>2, <4>1
        <5>. QED  BY <1>5, <1>6, <4>1, <4>2, <5>1, <5>2, SameCut
      <4>4. len = Len(m)
        BY <1>2, <3>1, <4>3
      <4>5. buf = <<>> /\ buf \in Seq(Byte) /\ buf \o head.rest = head.rest /\ Len(buf) = 0
        BY <3>1, <4>1, EmptySeq, ConcatEmptySeq
      <4>6. Len(buf) <= Len(m)
        BY <1>2, <4>5
      <4>. QED  BY <4>1, <4>3, <4>4, <4>5, <4>6, Zenon
    <3>2. CASE r.len # 0
      <4>1. head.rest = bytes /\ buf = r.buf /\ len = r.len
        BY <3>2 DEF head
      <4>2. Header(r.len) \in Seq(Byte) /\ 2 <= Len(Header(r.len)) /\ Len(Header(r.len)) <= 2
            /\ Header(r.len)[1] * 256 + Header(r.len)[2] = r.len
        BY <1>1, HeaderType
      <4>3. Header(r.len) \o ((r.buf \o bytes) \o z) = h \o (m \o rest)
        <5>1. Consumed(r) = Header(r.len) \o r.buf
          BY <3>2 DEF Consumed
        <5>2. (Header(r.len) \o r.buf) \o bytes = Header(r.len) \o (r.buf \o bytes)
          BY <1>1, <4>2, BytesAssociative, Zenon
        <5>3. r.buf \o bytes \in Seq(Byte)
          BY <1>1, BytesJoin, Zenon
        <5>4. (Header(r.len) \o (r.buf \o bytes)) \o z
                = Header(r.len) \o ((r.buf \o bytes) \o z)
          BY <4>2, <5>3, BytesAssociative, Zenon
        <5>. QED  BY <1>0, <1>2, <5>1, <5>2, <5>4, Zenon
      <4>4. Header(r.len) = h /\ (r.buf \o bytes) \o z = m \o rest
        <5>. DEFINE g == Header(r.len)
                    x == (r.buf \o bytes) \o z
                    y == m \o rest
        <5>1. x \in Seq(Byte)
          BY <1>1, BytesJoin, Zenon
        <5>2. g \in Seq(Byte) /\ y \in Seq(Byte) /\ g \o x = h \o y /\ Len(g) = Len(h)
          BY <1>2, <4>2, <4>3
        <5>. HIDE DEF g, x, y
        <5>3. g = h /\ x = y
          BY <1>5, <5>1, <5>2, SameCut
        <5>. QED  BY <5>3 DEF g, x, y
      <4>5. len = Len(m)
        BY <1>2, <4>1, <4>2, <4>4
      <4>6. Len(r.buf) < r.len
        BY <3>2 DEF ShortOfNeed
      <4>7. Len(buf) <= Len(m)
        <5>1. r.len = Len(m)
          BY <4>1, <4>5
        <5>. QED  BY <1>1, <1>2, <4>1, <4>6, <5>1
      <4>. QED  BY <1>1, <4>1, <4>4, <4>5, <4>7
    <3>. QED  BY <3>1, <3>2
  <2>. HIDE DEF len, buf
  <2>2. /\ body.buf \in Seq(Byte) /\ body.rest \in Seq(Byte)
        /\ (body.buf \o body.rest) \o z = m \o rest
        /\ Len(body.buf) <= Len(m) /\ Len(body.buf) \in Nat
    <3>1. body = Fill(buf, Len(m), head.rest)
      BY <2>1
    <3>2. /\ body.buf \in Seq(Byte) /\ body.rest \in Seq(Byte)
          /\ body.buf \o body.rest = buf \o head.rest
          /\ Len(body.buf) <= Len(m)
      <4>1. LET f == Fill(buf, Len(m), head.rest)
            IN  /\ f.buf \in Seq(Byte) /\ f.rest \in Seq(Byte)
                /\ f.buf \o f.rest = buf \o head.rest
                /\ Len(f.buf) <= Len(m) /\ (Len(f.buf) < Len(m) => f.rest = <<>>)
        BY <1>2, <2>1, FillSplit
      <4>. HIDE DEF body
      <4>. QED  BY <3>1, <4>1, Zenon
    <3>. HIDE DEF body
    <3>. QED  BY <2>1, <3>2, LenProperties
  <2>. HIDE DEF body
  <2>3. CASE Len(body.buf) < Len(m)
    <3>1. Poll(r, bytes) = [res |-> "pending", reader |-> [len |-> Len(m), buf |-> body.buf],
                            rest |-> body.rest]
      BY <1>3, <1>8, <2>1, <2>3
    <3>2. Consumed([len |-> Len(m), buf |-> body.buf]) = h \o body.buf
      <4>1. Len(m) # 0
        BY <1>2
      <4>. QED  BY <4>1 DEF Consumed, h
    <3>3. body.buf \in Seq(Byte) /\ body.rest \in Seq(Byte)
      BY <2>2
    <3>4. ((h \o body.buf) \o body.rest) \o z = Frame(m) \o rest
      <4>1. (h \o body.buf) \o body.rest = h \o (body.buf \o body.rest)
        BY <1>5, <3>3, BytesAssociative, Zenon
      <4>2. body.buf \o body.rest \in Seq(Byte)
        BY <2>2, BytesJoin, Zenon
      <4>3. (h \o (body.buf \o body.rest)) \o z = h \o ((body.buf \o body.rest) \o z)
        BY <1>5, <4>2, BytesAssociative, Zenon
      <4>. QED  BY <1>2, <2>2, <4>1, <4>3, Zenon
    <3>5. /\ Poll(r, bytes).res = "pending"
          /\ Poll(r, bytes).reader = [len |-> Len(m), buf |-> body.buf]
          /\ Poll(r, bytes).rest = body.rest
      BY <3>1
    <3>6. [len |-> Len(m), buf |-> body.buf].len = Len(m)
      OBVIOUS
    <3>. QED  BY <3>2, <3>4, <3>5, <3>6, Zenon
  <2>4. CASE ~(Len(body.buf) < Len(m))
    <3>1. Len(body.buf) = Len(m) /\ ~(Len(body.buf) < Len(m)) /\ Len(m) >= 2
      BY <1>2, <2>2, <2>4
    <3>2. Poll(r, bytes) = [res |-> "message", msg |-> body.buf, reader |-> NewReader,
                            rest |-> body.rest]
      BY <1>3, <1>8, <2>1, <3>1
    <3>3. body.buf = m /\ body.rest \o z = rest
      <4>1. (body.buf \o body.rest) \o z = body.buf \o (body.rest \o z)
        BY <2>2, BytesAssociative, Zenon
      <4>2. body.rest \o z \in Seq(Byte)
        BY <2>2, BytesJoin, Zenon
      <4>3. body.buf \o (body.rest \o z) = m \o rest
        BY <2>2, <4>1, Zenon
      <4>. DEFINE b == body.buf
                  x == body.rest \o z
      <4>4. /\ b \in Seq(Byte) /\ x \in Seq(Byte) /\ m \in Seq(Byte)
            /\ b \o x = m \o rest /\ Len(b) = Len(m)
        BY <1>6, <2>2, <3>1, <4>2, <4>3
      <4>. HIDE DEF b, x
      <4>5. b = m /\ x = rest
        BY <4>4, SameCut
      <4>. QED  BY <4>5 DEF b, x
    <3>4. /\ Poll(r, bytes).res = "message" /\ Poll(r, bytes).msg = body.buf
          /\ Poll(r, bytes).reader = NewReader /\ Poll(r, bytes).rest = body.rest
      BY <3>2
    <3>. QED  BY <3>3, <3>4, Zenon
  <2>. QED  BY <2>2, <2>3, <2>4
<1>. QED  BY <1>7, <1>8

-----------------------------------------------------------------------------
(* The frames of a string of bytes.                                        *)

(* all is the frames of the messages from d + 1 to w: rests[t] is what is    *)
(* left of it once the frame of message t is read.                           *)
Split(all, said, d, w, rests) ==
    /\ rests[d] = all /\ rests[w] = <<>>
    /\ \A t \in (d + 1)..w : rests[t - 1] = Frame(said[t]) \o rests[t]
    /\ \A t \in d..w, u \in d..w : t <= u => Len(rests[u]) <= Len(rests[t])

Holds(all, said, d, w) ==
    d <= w /\ \E rests \in [d..w -> Seq(Byte)] : Split(all, said, d, w, rests)

LEMMA HoldsNone ==
    ASSUME NEW said, NEW d \in Nat
    PROVE  Holds(<<>>, said, d, d)
<1>. DEFINE rests == [t \in d..d |-> <<>>]
<1>1. rests \in [d..d -> Seq(Byte)]
  BY EmptySeq
<1>2. /\ \A t \in d..d : rests[t] = <<>>
      /\ ~ \E t \in (d + 1)..d : TRUE
      /\ d \in d..d
  OBVIOUS
<1>. HIDE DEF rests
<1>3. Split(<<>>, said, d, d, rests)
  <2>1. rests[d] = <<>>
    BY <1>2, Zenon
  <2>2. \A t \in (d + 1)..d : rests[t - 1] = Frame(said[t]) \o rests[t]
    BY <1>2, Zenon
  <2>3. Len(<<>>) <= Len(<<>>)
    BY EmptySeq
  <2>4. \A t \in d..d, u \in d..d : t <= u => Len(rests[u]) <= Len(rests[t])
    BY <1>2, <2>3, Zenon
  <2>. QED  BY <2>1, <2>2, <2>4, Zenon DEF Split
<1>. QED  BY <1>1, <1>3 DEF Holds

(* Messages after w are no matter. *)
LEMMA HoldsOther ==
    ASSUME NEW all, NEW said, NEW other, NEW d \in Nat, NEW w \in Nat,
           Holds(all, said, d, w), \A t \in (d + 1)..w : other[t] = said[t]
    PROVE  Holds(all, other, d, w)
<1>1. d <= w
  BY DEF Holds
<1>2. PICK rests \in [d..w -> Seq(Byte)] : Split(all, said, d, w, rests)
  BY DEF Holds
<1>3. \A t \in (d + 1)..w : rests[t - 1] = Frame(other[t]) \o rests[t]
  <2>. SUFFICES ASSUME NEW t \in (d + 1)..w
                PROVE  rests[t - 1] = Frame(other[t]) \o rests[t]
    OBVIOUS
  <2>1. rests[t - 1] = Frame(said[t]) \o rests[t]
    BY <1>2 DEF Split
  <2>2. other[t] = said[t]
    OBVIOUS
  <2>. QED  BY <2>1, <2>2, Zenon
<1>4. Split(all, other, d, w, rests)
  <2>1. rests[d] = all /\ rests[w] = <<>>
    BY <1>2, Zenon DEF Split
  <2>2. \A t \in d..w, u \in d..w : t <= u => Len(rests[u]) <= Len(rests[t])
    BY <1>2, Zenon DEF Split
  <2>. QED  BY <1>3, <2>1, <2>2, Zenon DEF Split
<1>. QED  BY <1>1, <1>4, Zenon DEF Holds

(* A frame joins the others at the end. *)
LEMMA HoldsMore ==
    ASSUME NEW all, NEW said, NEW d \in Nat, NEW w \in Nat, Holds(all, said, d, w),
           \A t \in (d + 1)..(w + 1) : Frame(said[t]) \in Seq(Byte)
    PROVE  Holds(all \o Frame(said[w + 1]), said, d, w + 1)
<1>. DEFINE frame == Frame(said[w + 1])
<1>1. d <= w
  BY DEF Holds
<1>2. PICK rests \in [d..w -> Seq(Byte)] : Split(all, said, d, w, rests)
  BY DEF Holds
<1>3. frame \in Seq(Byte) /\ Len(frame) \in Nat
  <2>1. w + 1 \in (d + 1)..(w + 1)
    BY <1>1
  <2>. QED  BY <2>1, LenProperties
<1>. HIDE DEF frame
<1>. DEFINE more == [t \in d..(w + 1) |-> IF t = w + 1 THEN <<>> ELSE rests[t] \o frame]
<1>4. \A t \in d..w : /\ rests[t] \in Seq(Byte) /\ rests[t] \o frame \in Seq(Byte)
                      /\ Len(rests[t] \o frame) = Len(rests[t]) + Len(frame)
                      /\ Len(rests[t]) \in Nat
  BY <1>3, ConcatProperties, LenProperties
<1>5. more[w + 1] = <<>> /\ \A t \in d..w : more[t] = rests[t] \o frame
  <2>1. w + 1 \in d..(w + 1) /\ \A t \in d..w : t \in d..(w + 1) /\ t # w + 1
    BY <1>1
  <2>. QED  BY <2>1
<1>6. more \in [d..(w + 1) -> Seq(Byte)]
  <2>1. ASSUME NEW t \in d..(w + 1)
        PROVE  (IF t = w + 1 THEN <<>> ELSE rests[t] \o frame) \in Seq(Byte)
    <3>1. t # w + 1 => t \in d..w
      OBVIOUS
    <3>. QED  BY <1>4, <3>1, EmptySeq
  <2>. QED  BY <2>1
<1>. HIDE DEF more
<1>7. more[d] = all \o frame
  <2>1. d \in d..w
    BY <1>1
  <2>. QED  BY <1>2, <1>5, <2>1 DEF Split
<1>8. ASSUME NEW t \in (d + 1)..(w + 1)
      PROVE  more[t - 1] = Frame(said[t]) \o more[t]
  <2>1. CASE t = w + 1
    <3>1. t - 1 = w /\ w \in d..w
      BY <1>1, <2>1
    <3>2. more[w] = <<>> \o frame
      BY <1>2, <1>5, <3>1 DEF Split
    <3>3. <<>> \o frame = frame /\ frame \o <<>> = frame
      BY <1>3, ConcatEmptySeq
    <3>. QED  BY <1>5, <2>1, <3>1, <3>2, <3>3 DEF frame
  <2>2. CASE t # w + 1
    <3>1. t \in (d + 1)..w /\ t \in d..w /\ t - 1 \in d..w
      BY <2>2
    <3>2. more[t - 1] = rests[t - 1] \o frame /\ more[t] = rests[t] \o frame
      BY <1>5, <3>1
    <3>3. rests[t - 1] = Frame(said[t]) \o rests[t]
      BY <1>2, <3>1 DEF Split
    <3>4. (Frame(said[t]) \o rests[t]) \o frame = Frame(said[t]) \o (rests[t] \o frame)
      <4>1. Frame(said[t]) \in Seq(Byte) /\ rests[t] \in Seq(Byte)
        BY <1>4, <3>1
      <4>. QED  BY <1>3, <4>1, BytesAssociative, Zenon
    <3>. QED  BY <3>2, <3>3, <3>4
  <2>. QED  BY <2>1, <2>2
<1>9. ASSUME NEW t \in d..(w + 1), NEW u \in d..(w + 1), t <= u
      PROVE  Len(more[u]) <= Len(more[t])
  <2>1. CASE u = w + 1
    <3>1. Len(more[u]) = 0
      BY <1>5, <2>1, EmptySeq
    <3>2. Len(more[t]) \in Nat
      BY <1>6, LenProperties
    <3>. QED  BY <3>1, <3>2
  <2>2. CASE u # w + 1
    <3>1. t \in d..w /\ u \in d..w
      BY <1>9, <2>2
    <3>2. Len(rests[u]) <= Len(rests[t])
      BY <1>2, <1>9, <3>1 DEF Split
    <3>3. /\ Len(more[t]) = Len(rests[t]) + Len(frame)
          /\ Len(more[u]) = Len(rests[u]) + Len(frame)
      BY <1>4, <1>5, <3>1, Zenon
    <3>4. Len(rests[t]) \in Nat /\ Len(rests[u]) \in Nat
      BY <1>4, <3>1, Zenon
    <3>. QED  BY <1>3, <3>2, <3>3, <3>4
  <2>. QED  BY <2>1, <2>2
<1>10. Split(all \o frame, said, d, w + 1, more)
  BY <1>5, <1>7, <1>8, <1>9 DEF Split
<1>11. d <= w + 1
  BY <1>1
<1>. QED  BY <1>6, <1>10, <1>11 DEF Holds, frame

(* Bytes that are there begin with the frame of the next message; what       *)
(* follows is as long as the last frame, or this one is the last.            *)
LEMMA HoldsFirst ==
    ASSUME NEW all, NEW said, NEW d \in Nat, NEW w \in Nat, Holds(all, said, d, w),
           all # <<>>, \A t \in (d + 1)..w : Frame(said[t]) \in Seq(Byte)
    PROVE  /\ d < w
           /\ \E rest \in Seq(Byte) :
                 /\ all = Frame(said[d + 1]) \o rest
                 /\ Holds(rest, said, d + 1, w)
                 /\ d + 1 = w => rest = <<>>
                 /\ d + 1 < w => Len(Frame(said[w])) <= Len(rest)
<1>1. d <= w
  BY DEF Holds
<1>2. PICK rests \in [d..w -> Seq(Byte)] : Split(all, said, d, w, rests)
  BY DEF Holds
<1>3. d < w
  <2>1. d # w
    BY <1>2 DEF Split
  <2>. QED  BY <1>1, <2>1
<1>4. /\ d + 1 \in (d + 1)..w /\ d + 1 \in d..w /\ w \in (d + 1)..w /\ (d + 1) - 1 = d
      /\ \A t \in (d + 1)..w : t \in d..w
      /\ \A t \in ((d + 1) + 1)..w : t \in (d + 1)..w /\ t - 1 \in (d + 1)..w
  BY <1>3
<1>. DEFINE rest == rests[d + 1]
            left == [t \in (d + 1)..w |-> rests[t]]
<1>5. rest \in Seq(Byte) /\ all = Frame(said[d + 1]) \o rest
  <2>1. rests[(d + 1) - 1] = Frame(said[d + 1]) \o rests[d + 1]
    BY <1>2, <1>4 DEF Split
  <2>. QED  BY <1>2, <1>4, <2>1 DEF Split
<1>6. /\ left \in [(d + 1)..w -> Seq(Byte)]
      /\ \A t \in (d + 1)..w : left[t] = rests[t]
  BY <1>4
<1>. HIDE DEF left
<1>7. Split(rest, said, d + 1, w, left)
  <2>1. left[d + 1] = rest /\ left[w] = <<>>
    BY <1>2, <1>4, <1>6 DEF Split
  <2>2. \A t \in ((d + 1) + 1)..w : left[t - 1] = Frame(said[t]) \o left[t]
    <3>. SUFFICES ASSUME NEW t \in ((d + 1) + 1)..w
                  PROVE  left[t - 1] = Frame(said[t]) \o left[t]
      OBVIOUS
    <3>1. t \in (d + 1)..w /\ t - 1 \in (d + 1)..w
      BY <1>4
    <3>2. rests[t - 1] = Frame(said[t]) \o rests[t]
      BY <1>2, <3>1 DEF Split
    <3>. QED  BY <1>6, <3>1, <3>2
  <2>3. \A t \in (d + 1)..w, u \in (d + 1)..w : t <= u => Len(left[u]) <= Len(left[t])
    BY <1>2, <1>4, <1>6 DEF Split
  <2>. QED  BY <2>1, <2>2, <2>3 DEF Split
<1>8. Holds(rest, said, d + 1, w)
  <2>1. d + 1 <= w
    BY <1>3
  <2>. QED  BY <1>6, <1>7, <2>1 DEF Holds
<1>9. d + 1 = w => rest = <<>>
  BY <1>2 DEF Split
<1>10. d + 1 < w => Len(Frame(said[w])) <= Len(rest)
  <2>. SUFFICES ASSUME d + 1 < w PROVE Len(Frame(said[w])) <= Len(rest)
    OBVIOUS
  <2>1. d + 1 \in d..w /\ w - 1 \in d..w /\ d + 1 <= w - 1
    OBVIOUS
  <2>2. rests[w - 1] = Frame(said[w]) \o rests[w] /\ rests[w] = <<>>
    BY <1>2, <1>4 DEF Split
  <2>3. rests[w - 1] = Frame(said[w])
    <3>1. Frame(said[w]) \in Seq(Byte)
      BY <1>4
    <3>. QED  BY <2>2, <3>1, ConcatEmptySeq
  <2>. QED  BY <1>2, <2>1, <2>3 DEF Split
<1>. QED  BY <1>3, <1>5, <1>8, <1>9, <1>10

-----------------------------------------------------------------------------
(* A reader in step with its peer.                                         *)

Short(s) == \A k \in 1..Len(s) : Len(s[k]) <= Whole

(* What is still to be written ends where message w ends, and begins where a *)
(* write begins.                                                             *)
Clean(z, s, w) == z = <<>> \/ (w \in 1..Len(s) /\ (z = s[w] \/ z = Frame(s[w])))

(* What reader r took, the bytes of the socket and the bytes z still to be   *)
(* written are the frames of messages n + 1 .. w of s; and the reader never  *)
(* waits in the middle of a length or a message if all of s are written in   *)
(* one piece.                                                                *)
InStep(r, bytes, s, n, w, z) ==
    /\ Holds((Consumed(r) \o bytes) \o z, s, n, w)
    /\ w <= Len(s)
    /\ Short(s) => r.buf = <<>> /\ Clean(z, s, w)

LEMMA FramesOf ==
    ASSUME NEW s \in Seq(Message), NEW n \in Nat, NEW w \in Nat, w <= Len(s)
    PROVE  /\ Len(s) \in Nat
           /\ \A t \in (n + 1)..w : s[t] \in Message /\ Frame(s[t]) \in Seq(Byte)
<1>1. Len(s) \in Nat /\ \A t \in 1..Len(s) : s[t] \in Message
  BY LenProperties
<1>2. \A t \in (n + 1)..w : t \in 1..Len(s)
  BY <1>1
<1>. QED  BY <1>1, <1>2, FrameType

LEMMA ConsumedType ==
    ASSUME NEW r \in Reader
    PROVE  Consumed(r) \in Seq(Byte)
<1>1. r.len \in Nat /\ r.len <= MaxLen /\ r.buf \in Seq(Byte)
  <2>1. r.len \in 0..MaxLen /\ r.buf \in Seq(Byte)
    BY DEF Reader
  <2>. QED  BY <2>1, LengthType
<1>2. Header(r.len) \in Seq(Byte)
  BY <1>1, HeaderType
<1>. QED  BY <1>1, <1>2, ConcatProperties DEF Consumed

LEMMA NoPartLengths ==
    ASSUME NEW b \in Nat, NEW c \in Nat, NEW l \in Nat, NEW f \in Nat, NEW k \in Nat,
           NEW size \in Nat, NEW n \in Nat, NEW w \in Nat,
           c + k = (size + 2) + l, k = 0 \/ k = f - 2 \/ k = f,
           (c = b /\ b < 2) \/ (c = b + 2 /\ b < size),
           (n + 1 = w /\ l = 0 /\ size + 2 = f) \/ f <= l
    PROVE  b = 0
<1>1. CASE c = b /\ b < 2
  BY <1>1
<1>2. CASE c = b + 2 /\ b < size
  BY <1>2
<1>. QED  BY <1>1, <1>2

(* A reader that found no more took no part of a length or of a message, if  *)
(* what is still to be written begins where a write begins.                  *)
LEMMA NoPart ==
    ASSUME NEW s \in Seq(Message), NEW n \in Nat, NEW w \in Nat, w <= Len(s), n < w,
           NEW r \in Reader, ShortOfNeed(r), r.len = 0 \/ r.len = Len(s[n + 1]),
           NEW z \in Seq(Byte), Clean(z, s, w), NEW rest \in Seq(Byte),
           Consumed(r) \o z = Frame(s[n + 1]) \o rest,
           n + 1 = w => rest = <<>>,
           n + 1 < w => Len(Frame(s[w])) <= Len(rest)
    PROVE  r.buf = <<>>
<1>. DEFINE m == s[n + 1]
            c == Len(Consumed(r))
            b == Len(r.buf)
            l == Len(rest)
            f == Len(Frame(s[w]))
            k == Len(z)
            size == Len(m)
<1>1. /\ m \in Message /\ s[w] \in Message
      /\ Len(s) \in Nat
  <2>1. Len(s) \in Nat
    BY LenProperties
  <2>2. n + 1 \in 1..Len(s) /\ w \in 1..Len(s)
    BY <2>1
  <2>. QED  BY <2>1, <2>2, LenProperties
<1>2. /\ size \in Nat /\ size >= 2 /\ Len(Frame(m)) = size + 2 /\ Frame(m) \in Seq(Byte)
      /\ Len(s[w]) \in Nat /\ f = Len(s[w]) + 2 /\ Frame(s[w]) \in Seq(Byte)
  BY <1>1, FrameType
<1>3. r.len \in Nat /\ r.len <= MaxLen /\ r.buf \in Seq(Byte) /\ b \in Nat
  <2>1. r.len \in 0..MaxLen /\ r.buf \in Seq(Byte)
    BY DEF Reader
  <2>. QED  BY <2>1, LengthType, LenProperties
<1>4. /\ l \in Nat /\ k \in Nat /\ c \in Nat
      /\ c + k = (size + 2) + l
  <2>1. Consumed(r) \in Seq(Byte)
    BY ConsumedType
  <2>2. Len(Consumed(r) \o z) = c + k
    BY <2>1, ConcatProperties
  <2>3. Len(Frame(m) \o rest) = (size + 2) + l
    <3>1. Len(Frame(m) \o rest) = Len(Frame(m)) + l
      BY <1>2, BytesLength, Zenon
    <3>. QED  BY <1>2, <3>1, Zenon
  <2>. QED  BY <2>1, <2>2, <2>3, LenProperties
<1>5. k = 0 \/ k = f - 2 \/ k = f
  <2>1. CASE z = <<>>
    BY <2>1, EmptySeq
  <2>2. CASE z = s[w]
    <3>1. k = Len(s[w])
      BY <2>2, Zenon
    <3>. HIDE DEF k, f
    <3>. QED  BY <1>2, <3>1
  <2>3. CASE z = Frame(s[w])
    BY <2>3, Zenon
  <2>. QED  BY <2>1, <2>2, <2>3, Zenon DEF Clean
<1>6. (r.len = 0 /\ c = b /\ b < 2) \/ (r.len # 0 /\ c = b + 2 /\ b < size)
  <2>1. CASE r.len = 0
    <3>1. Consumed(r) = r.buf /\ Len(r.buf) < 2
      BY <2>1 DEF Consumed, ShortOfNeed
    <3>. QED  BY <2>1, <3>1, Zenon
  <2>2. CASE r.len # 0
    <3>1. /\ Header(r.len) \in Seq(Byte)
          /\ 2 <= Len(Header(r.len)) /\ Len(Header(r.len)) <= 2
      BY <1>3, HeaderType
    <3>2. Consumed(r) = Header(r.len) \o r.buf
      BY <2>2 DEF Consumed
    <3>3. Len(Header(r.len) \o r.buf) = Len(Header(r.len)) + b
      BY <1>3, <3>1, ConcatProperties
    <3>4. Len(Header(r.len)) \in Nat
      BY <3>1, LenProperties
    <3>5. c = b + 2
      <4>1. c = Len(Header(r.len)) + b
        BY <3>2, <3>3, Zenon
      <4>. HIDE DEF b, c
      <4>. QED  BY <1>3, <3>1, <3>4, <4>1
    <3>6. b < size
      <4>1. Len(r.buf) < r.len /\ r.len = Len(m)
        BY <2>2, Zenon DEF ShortOfNeed
      <4>. QED  BY <4>1, Zenon
    <3>. QED  BY <2>2, <3>5, <3>6, Zenon
  <2>. QED  BY <2>1, <2>2
<1>7. n + 1 = w => l = 0 /\ size + 2 = f
  BY <1>2, EmptySeq
<1>8. n + 1 < w => f <= l
  OBVIOUS
<1>9. n + 1 = w \/ n + 1 < w
  OBVIOUS
<1>. HIDE DEF m, c, b, l, f, k, size
<1>10. b = 0
  <2>1. (n + 1 = w /\ l = 0 /\ size + 2 = f) \/ f <= l
    BY <1>7, <1>8, <1>9, Zenon
  <2>2. f \in Nat
    BY <1>2
  <2>3. (c = b /\ b < 2) \/ (c = b + 2 /\ b < size)
    BY <1>6, Zenon
  <2>. QED  BY <1>2, <1>3, <1>4, <1>5, <2>1, <2>2, <2>3, NoPartLengths
<1>. QED  BY <1>3, <1>10, EmptySeq DEF b

(* A poll hands over the next message, whole, or waits for it in step.       *)
LEMMA InStepPoll ==
    ASSUME NEW s \in Seq(Message), NEW n \in Nat, NEW w \in Nat, NEW z \in Seq(Byte),
           NEW r \in Reader, ShortOfNeed(r), NEW bytes \in Seq(Byte), bytes # <<>>,
           InStep(r, bytes, s, n, w, z)
    PROVE  LET poll == Poll(r, bytes)
           IN  /\ n < Len(s)
               /\ \/ /\ poll.res = "pending"
                     /\ InStep(poll.reader, poll.rest, s, n, w, z)
                  \/ /\ poll.res = "message" /\ poll.msg = s[n + 1]
                     /\ InStep(poll.reader, poll.rest, s, n + 1, w, z)
<1>. DEFINE poll == Poll(r, bytes)
            all == (Consumed(r) \o bytes) \o z
<1>1. /\ Holds(all, s, n, w) /\ w <= Len(s)
      /\ Short(s) => r.buf = <<>> /\ Clean(z, s, w)
  BY DEF InStep
<1>2. all # <<>>
  <2>1. Consumed(r) \in Seq(Byte)
    BY ConsumedType
  <2>2. Consumed(r) \o bytes \in Seq(Byte) /\ Consumed(r) \o bytes # <<>>
    BY <2>1, ConcatProperties, ConcatEqualIffEmpty
  <2>. QED  BY <2>2, ConcatEqualIffEmpty
<1>3. /\ Len(s) \in Nat
      /\ \A t \in (n + 1)..w : s[t] \in Message /\ Frame(s[t]) \in Seq(Byte)
  BY <1>1, FramesOf
<1>. HIDE DEF all
<1>4. n < w
  BY <1>1, <1>2, <1>3, HoldsFirst
<1>5. PICK rest \in Seq(Byte) :
         /\ all = Frame(s[n + 1]) \o rest
         /\ Holds(rest, s, n + 1, w)
         /\ n + 1 = w => rest = <<>>
         /\ n + 1 < w => Len(Frame(s[w])) <= Len(rest)
  BY <1>1, <1>2, <1>3, HoldsFirst
<1>6. s[n + 1] \in Message /\ n < Len(s)
  <2>1. n + 1 \in (n + 1)..w
    BY <1>4
  <2>. QED  BY <1>1, <1>3, <1>4, <2>1
<1>7. /\ poll.rest \in Seq(Byte) /\ poll.reader \in Reader /\ ShortOfNeed(poll.reader)
      /\ poll.res = "pending" => poll.rest = <<>>
  BY PollType
<1>8. \/ /\ poll.res = "pending"
         /\ (Consumed(poll.reader) \o poll.rest) \o z = Frame(s[n + 1]) \o rest
         /\ poll.reader.len = 0 \/ poll.reader.len = Len(s[n + 1])
      \/ /\ poll.res = "message" /\ poll.msg = s[n + 1] /\ poll.reader = NewReader
         /\ poll.rest \o z = rest
  <2>. DEFINE m == s[n + 1]
  <2>1. (Consumed(r) \o bytes) \o z = Frame(m) \o rest /\ m \in Message
    BY <1>5, <1>6, Zenon DEF all
  <2>. HIDE DEF m
  <2>2. m \in Message
    BY <2>1
  <2>3. (Consumed(r) \o bytes) \o z = Frame(m) \o rest => Polled(Poll(r, bytes), z, m, rest)
    BY <2>2, PollFrame
  <2>4. Polled(poll, z, m, rest)
    BY <2>1, <2>3, Zenon DEF poll
  <2>. QED  BY <2>4, Zenon DEF m, Polled
<1>. HIDE DEF poll
<1>9. CASE /\ poll.res = "pending"
           /\ (Consumed(poll.reader) \o poll.rest) \o z = Frame(s[n + 1]) \o rest
           /\ poll.reader.len = 0 \/ poll.reader.len = Len(s[n + 1])
  <2>1. Holds((Consumed(poll.reader) \o poll.rest) \o z, s, n, w)
    BY <1>1, <1>5, <1>9
  <2>2. Consumed(poll.reader) \o z = Frame(s[n + 1]) \o rest
    <3>1. Consumed(poll.reader) \o <<>> = Consumed(poll.reader)
      BY <1>7, ConsumedType, ConcatEmptySeq
    <3>. QED  BY <1>7, <1>9, <3>1
  <2>3. Short(s) => poll.reader.buf = <<>>
    <3>. DEFINE got == poll.reader
    <3>1. /\ got \in Reader /\ ShortOfNeed(got) /\ (got.len = 0 \/ got.len = Len(s[n + 1]))
          /\ Consumed(got) \o z = Frame(s[n + 1]) \o rest
      BY <1>7, <1>9, <2>2, Zenon
    <3>. HIDE DEF got
    <3>2. Clean(z, s, w) => got.buf = <<>>
      BY <1>1, <1>4, <1>5, <3>1, NoPart
    <3>. QED  BY <1>1, <3>2, Zenon DEF got
  <2>4. InStep(poll.reader, poll.rest, s, n, w, z)
    BY <1>1, <2>1, <2>3 DEF InStep
  <2>. QED  BY <1>6, <1>9, <2>4 DEF poll
<1>10. CASE /\ poll.res = "message" /\ poll.msg = s[n + 1] /\ poll.reader = NewReader
            /\ poll.rest \o z = rest
  <2>1. Consumed(poll.reader) \o poll.rest = poll.rest /\ poll.reader.buf = <<>>
    <3>1. Consumed(poll.reader) = <<>> /\ poll.reader.buf = <<>>
      BY <1>10 DEF NewReader, Consumed
    <3>. QED  BY <1>7, <3>1, ConcatEmptySeq
  <2>2. Holds((Consumed(poll.reader) \o poll.rest) \o z, s, n + 1, w)
    BY <1>5, <1>10, <2>1
  <2>3. InStep(poll.reader, poll.rest, s, n + 1, w, z)
    BY <1>1, <2>1, <2>2 DEF InStep
  <2>. QED  BY <1>6, <1>10, <2>3 DEF poll
<1>. QED  BY <1>8, <1>9, <1>10


(* The bridge of the peer queues another message. *)
LEMMA InStepQueue ==
    ASSUME NEW s \in Seq(Message), NEW m \in Message, NEW n \in Nat, NEW w \in Nat,
           NEW z, NEW r, NEW bytes, InStep(r, bytes, s, n, w, z)
    PROVE  InStep(r, bytes, Append(s, m), n, w, z)
<1>. DEFINE more == Append(s, m)
<1>1. /\ Len(s) \in Nat /\ Len(more) = Len(s) + 1
      /\ \A t \in 1..Len(s) : more[t] = s[t]
  BY AppendProperties, LenProperties
<1>2. /\ Holds((Consumed(r) \o bytes) \o z, s, n, w) /\ w <= Len(s)
      /\ Short(s) => r.buf = <<>> /\ Clean(z, s, w)
  BY DEF InStep
<1>. HIDE DEF more
<1>3. \A t \in (n + 1)..w : more[t] = s[t]
  <2>1. \A t \in (n + 1)..w : t \in 1..Len(s)
    BY <1>1, <1>2
  <2>. QED  BY <1>1, <2>1
<1>4. Holds((Consumed(r) \o bytes) \o z, more, n, w)
  BY <1>2, <1>3, HoldsOther
<1>5. w <= Len(more)
  BY <1>1, <1>2
<1>6. Short(more) => Short(s)
  BY <1>1 DEF Short
<1>7. Clean(z, s, w) => Clean(z, more, w)
  <2>1. w \in 1..Len(s) => w \in 1..Len(more) /\ more[w] = s[w]
    BY <1>1
  <2>. QED  BY <2>1, Zenon DEF Clean
<1>. QED  BY <1>2, <1>4, <1>5, <1>6, <1>7, Zenon DEF InStep, more

(* The peer writes a, and z is left. *)
LEMMA InStepWrite ==
    ASSUME NEW s \in Seq(Message), NEW n \in Nat, NEW w \in Nat, NEW r \in Reader,
           NEW bytes \in Seq(Byte), NEW a \in Seq(Byte), NEW z \in Seq(Byte),
           InStep(r, bytes, s, n, w, a \o z), Short(s) => Clean(z, s, w)
    PROVE  InStep(r, bytes \o a, s, n, w, z)
<1>. DEFINE c == Consumed(r)
<1>1. c \in Seq(Byte)
  BY ConsumedType
<1>2. /\ Holds((c \o bytes) \o (a \o z), s, n, w) /\ w <= Len(s)
      /\ Short(s) => r.buf = <<>>
  BY DEF InStep
<1>. HIDE DEF c
<1>3. c \o bytes \in Seq(Byte)
  BY <1>1, BytesJoin, Zenon
<1>4. ((c \o bytes) \o a) \o z = (c \o bytes) \o (a \o z)
  BY <1>3, BytesAssociative, Zenon
<1>5. (c \o bytes) \o a = c \o (bytes \o a)
  BY <1>1, BytesAssociative, Zenon
<1>6. Holds((c \o (bytes \o a)) \o z, s, n, w)
  BY <1>2, <1>4, <1>5, Zenon
<1>. QED  BY <1>2, <1>6, Zenon DEF InStep, c

(* The peer takes its next message to write. *)
LEMMA InStepTake ==
    ASSUME NEW s \in Seq(Message), NEW n \in Nat, NEW w \in Nat, w < Len(s),
           NEW r \in Reader, NEW bytes \in Seq(Byte), InStep(r, bytes, s, n, w, <<>>)
    PROVE  InStep(r, bytes, s, n, w + 1, Frame(s[w + 1]))
<1>. DEFINE all == Consumed(r) \o bytes
<1>1. all \in Seq(Byte)
  BY ConsumedType, BytesJoin
<1>2. Holds(all \o <<>>, s, n, w) /\ (Short(s) => r.buf = <<>>)
  BY DEF InStep
<1>3. Holds(all, s, n, w)
  BY <1>1, <1>2, ConcatEmptySeq
<1>4. w + 1 \in Nat /\ w + 1 <= Len(s) /\ w + 1 \in 1..Len(s)
  BY LenProperties
<1>5. \A t \in (n + 1)..(w + 1) : Frame(s[t]) \in Seq(Byte)
  BY <1>4, FramesOf
<1>. HIDE DEF all
<1>6. Holds(all \o Frame(s[w + 1]), s, n, w + 1)
  BY <1>3, <1>5, HoldsMore
<1>7. Clean(Frame(s[w + 1]), s, w + 1)
  BY <1>4, Zenon DEF Clean
<1>. QED  BY <1>2, <1>4, <1>6, <1>7, Zenon DEF InStep, all

-----------------------------------------------------------------------------
(* What a handler still has to write.                                      *)

(* z is what the writes o of message m come to: of a message that is half    *)
(* written one knows that it was longer than Whole.                          *)
Left(o, m, z) ==
    \/ o = <<>> /\ z = <<>>
    \/ o = Writes(m) /\ z = Frame(m)
    \/ o = <<z>> /\ z # <<>> /\ (z = m \/ Len(m) > Whole)

LEMMA LeftNone ==
    ASSUME NEW m \in Message, NEW z, Left(<<>>, m, z)
    PROVE  z = <<>>
<1>1. Writes(m) # <<>>
  <2>1. Writes(m) = << Header(Len(m)), m >>
    BY FrameType
  <2>. HIDE DEF Writes
  <2>. QED  BY <2>1
<1>2. <<>> # <<z>>
  OBVIOUS
<1>. QED  BY <1>1, <1>2, Zenon DEF Left

(* The socket takes k bytes of the write that stands. *)
LEMMA LeftWrite ==
    ASSUME NEW m \in Message, NEW z \in Seq(Byte), NEW o, o # <<>>, Left(o, m, z),
           NEW k \in 1..Len(Head(o)), k < Len(Head(o)) => Len(Head(o)) > Whole
    PROVE  /\ SubSeq(Head(o), 1, k) \in Seq(Byte)
           /\ \E rest \in Seq(Byte) : /\ z = SubSeq(Head(o), 1, k) \o rest
                                      /\ Left(After(o, k), m, rest)
<1>1. /\ m \in Seq(Byte) /\ Len(m) \in Nat /\ Len(m) >= 2
      /\ Writes(m) = << Header(Len(m)), m >> /\ Header(Len(m)) \in Seq(Byte)
      /\ 2 <= Len(Header(Len(m))) /\ Len(Header(Len(m))) <= 2
      /\ Frame(m) = Header(Len(m)) \o m
  BY FrameType
<1>2. CASE o = Writes(m) /\ z = Frame(m)
  <2>. DEFINE h == Header(Len(m))
  <2>0. /\ h \in Seq(Byte) /\ Len(h) \in Nat /\ 2 <= Len(h) /\ Len(h) <= 2
        /\ o = << h, m >> /\ Frame(m) = h \o m
    BY <1>1, <1>2, LenProperties
  <2>. HIDE DEF h
  <2>1. Head(o) = h /\ Tail(o) = << m >>
    BY <2>0
  <2>2. k = Len(h)
    <3>1. k \in 1..Len(h) /\ (k < Len(h) => Len(h) > Whole)
      BY <2>1
    <3>. QED  BY <2>0, <3>1, WholeAssumption
  <2>3. SubSeq(Head(o), 1, k) = h
    BY <2>0, <2>1, <2>2, SubSeqFull
  <2>4. After(o, k) = << m >>
    BY <2>1, <2>2 DEF After
  <2>5. m # <<>>
    BY <1>1, EmptySeq
  <2>6. Left(After(o, k), m, m)
    BY <2>4, <2>5 DEF Left
  <2>. QED  BY <1>1, <1>2, <2>0, <2>3, <2>6
<1>3. CASE o = <<z>> /\ z # <<>> /\ (z = m \/ Len(m) > Whole)
  <2>1. Head(o) = z /\ Tail(o) = <<>>
    BY <1>3
  <2>2. /\ Len(z) \in Nat /\ k \in 1..Len(z) /\ (k < Len(z) => Len(z) > Whole)
    BY <2>1, LenProperties
  <2>. DEFINE a == SubSeq(z, 1, k)
              b == SubSeq(z, k + 1, Len(z))
  <2>3. /\ a \in Seq(Byte)
        /\ b \in Seq(Byte) /\ Len(b) = Len(z) - k
    <3>1. \A i \in 1..Len(z) : z[i] \in Byte
      BY LenProperties
    <3>. QED  BY <2>2, <3>1, SubSeqProperties
  <2>4. a \o b = z
    <3>1. 1 \in 1..(Len(z) + 1) /\ k \in (1 - 1)..Len(z) /\ Len(z) \in k..Len(z)
      BY <2>2
    <3>2. a \o b = SubSeq(z, 1, Len(z))
      BY <3>1, ConcatAdjacentSubSeq
    <3>. QED  BY <3>2, SubSeqFull
  <2>. HIDE DEF a, b
  <2>5. CASE k = Len(z)
    <3>1. After(o, k) = <<>>
      BY <2>1, <2>5 DEF After
    <3>2. b = <<>>
      BY <2>2, <2>3, <2>5, EmptySeq
    <3>3. Left(After(o, k), m, b)
      BY <3>1, <3>2 DEF Left
    <3>. QED  BY <2>1, <2>3, <2>4, <3>3 DEF a
  <2>6. CASE k # Len(z)
    <3>1. k < Len(z) /\ Len(z) > Whole
      BY <2>2, <2>6
    <3>2. After(o, k) = <<b>> \o <<>>
      BY <2>1, <2>6 DEF After, b
    <3>3. After(o, k) = <<b>>
      <4>1. <<b>> \in Seq(Seq(Byte))
        BY <2>3
      <4>. QED  BY <3>2, <4>1, ConcatEmptySeq
    <3>4. b # <<>>
      BY <2>2, <2>3, <3>1, EmptySeq
    <3>5. Len(m) > Whole
      BY <1>3, <3>1
    <3>6. Left(After(o, k), m, b)
      BY <3>3, <3>4, <3>5 DEF Left
    <3>. QED  BY <2>1, <2>3, <2>4, <3>6 DEF a
  <2>. QED  BY <2>5, <2>6
<1>. QED  BY <1>2, <1>3 DEF Left

LEMMA LeftClean ==
    ASSUME NEW s \in Seq(Message), NEW w \in 1..Len(s), NEW o, NEW z, Left(o, s[w], z),
           Short(s)
    PROVE  Clean(z, s, w)
<1>1. s[w] \in Message /\ Len(s[w]) <= Whole
  BY LenProperties DEF Short
<1>2. ~(Len(s[w]) > Whole)
  <2>1. Len(s[w]) \in Nat
    BY <1>1, FrameType
  <2>. QED  BY <1>1, <2>1, WholeAssumption
<1>. QED  BY <1>2, Zenon DEF Left, Clean
-----------------------------------------------------------------------------
(* The invariant.                                                          *)

(* Messages of the bridge that the handler has taken. *)
Taken(p) == Len(sent[p]) - Len(inbox[p])

QueueInv(p) ==
    /\ Len(inbox[p]) <= Len(sent[p])
    /\ \A k \in DOMAIN inbox[p] : inbox[p][k] = sent[p][Taken(p) + k]

(* z is what the handler of p still has to write, of its latest message. *)
Pending(p, z) ==
    IF out[p] = <<>> THEN z = <<>>
    ELSE Taken(p) >= 1 /\ Left(out[p], sent[p][Taken(p)], z)

(* The reader of p is in step with what its peer wrote, as far as the peer   *)
(* got; and what it read it handed to its bridge, as long as there is one.   *)
ReadInv(p) ==
    Running(p) /\ ~lost[p] =>
        \E n \in Nat, w \in Nat, z \in Seq(Byte) :
            /\ InStep(reader[p], sock[p], sent[Peer(p)], n, w, z)
            /\ Running(Peer(p)) => w = Taken(Peer(p)) /\ Pending(Peer(p), z)
            /\ stop[p] # "bridge" => n = Len(delivered[p])

PrefixInv(p) ==
    IF lost[p] THEN ~Short(sent[Peer(p)])
    ELSE /\ state[p] # "failed"
         /\ Len(delivered[p]) <= Len(sent[Peer(p)])
         /\ \A i \in DOMAIN delivered[p] : delivered[p][i] = sent[Peer(p)][i]

IInv ==
    /\ TypeOK
    /\ \A p \in End : ShortOfNeed(reader[p]) /\ QueueInv(p) /\ ReadInv(p) /\ PrefixInv(p)

LEMMA Ends ==
    /\ \A p \in End : Peer(p) \in End /\ Peer(p) # p /\ Peer(Peer(p)) = p
    /\ \A p \in End, q \in End : q = p \/ q = Peer(p)
  BY DEF End, Peer

LEMMA Difference ==
    ASSUME NEW a \in Nat, NEW b \in Nat, b <= a
    PROVE  a - b \in Nat /\ a - b <= a
  OBVIOUS

LEMMA NewReaderType ==
    NewReader \in Reader /\ ShortOfNeed(NewReader)
  BY LengthType, EmptySeq DEF NewReader, Reader, ShortOfNeed

(* What the types of the invariant say of one end. *)
LEMMA EndTypes ==
    ASSUME IInv, NEW p \in End
    PROVE  /\ sent[p] \in Seq(Message) /\ Len(sent[p]) \in Nat
           /\ inbox[p] \in Seq(Message) /\ Len(inbox[p]) \in Nat
           /\ DOMAIN inbox[p] = 1..Len(inbox[p])
           /\ out[p] \in Seq(Seq(Byte))
           /\ sock[p] \in Seq(Byte) /\ Len(sock[p]) \in Nat
           /\ delivered[p] \in Seq(Seq(Byte)) /\ Len(delivered[p]) \in Nat
           /\ DOMAIN delivered[p] = 1..Len(delivered[p])
           /\ reader[p] \in Reader /\ ShortOfNeed(reader[p])
           /\ Taken(p) \in Nat /\ Taken(p) <= Len(sent[p])
<1>1. /\ sent[p] \in Seq(Message) /\ inbox[p] \in Seq(Message) /\ out[p] \in Seq(Seq(Byte))
      /\ sock[p] \in Seq(Byte) /\ delivered[p] \in Seq(Seq(Byte)) /\ reader[p] \in Reader
  BY DEF IInv, TypeOK
<1>2. /\ Len(sent[p]) \in Nat /\ Len(inbox[p]) \in Nat
      /\ Len(sock[p]) \in Nat /\ Len(delivered[p]) \in Nat
      /\ DOMAIN inbox[p] = 1..Len(inbox[p])
      /\ DOMAIN delivered[p] = 1..Len(delivered[p])
  BY <1>1, LenProperties
<1>3. Len(inbox[p]) <= Len(sent[p]) /\ ShortOfNeed(reader[p])
  BY DEF IInv, QueueInv
<1>4. Taken(p) \in Nat /\ Taken(p) <= Len(sent[p])
  <2>1. Taken(p) = Len(sent[p]) - Len(inbox[p])
    BY DEF Taken
  <2>. QED  BY <1>2, <1>3, <2>1, Difference
<1>. QED  BY <1>1, <1>2, <1>3, <1>4

LEMMA InvInit == Init => IInv
<1>. SUFFICES ASSUME Init PROVE IInv
  OBVIOUS
<1>1. NewReader \in Reader /\ ShortOfNeed(NewReader)
  BY NewReaderType
<1>2. TypeOK
  <2>1. /\ <<>> \in Seq(Message) /\ <<>> \in Seq(Seq(Byte)) /\ <<>> \in Seq(Byte)
        /\ Len(<<>>) = 0
    BY EmptySeq
  <2>. QED  BY <1>1, <2>1, CapacityAssumption DEF Init, TypeOK
<1>3. ASSUME NEW p \in End
      PROVE  ShortOfNeed(reader[p]) /\ QueueInv(p) /\ ReadInv(p) /\ PrefixInv(p)
  <2>1. /\ inbox[p] = <<>> /\ sock[p] = <<>> /\ reader[p] = NewReader
        /\ sent[p] = <<>> /\ sent[Peer(p)] = <<>> /\ delivered[p] = <<>>
        /\ inbox[Peer(p)] = <<>> /\ out[Peer(p)] = <<>> /\ state[p] = "select"
        /\ lost[p] = FALSE
    BY Ends DEF Init
  <2>2. Len(<<>>) = 0 /\ DOMAIN <<>> = {} /\ 0 - 0 = 0 /\ <<>> \in Seq(Byte)
        /\ <<>> \in Seq(Message)
    BY EmptySeq
  <2>3. Taken(p) = 0 /\ Taken(Peer(p)) = 0
    BY <2>1, <2>2 DEF Taken
  <2>4. QueueInv(p) /\ PrefixInv(p)
    BY <2>1, <2>2 DEF QueueInv, PrefixInv
  <2>5. InStep(NewReader, <<>>, <<>>, 0, 0, <<>>)
    <3>1. Consumed(NewReader) = <<>> /\ NewReader.buf = <<>>
      BY DEF Consumed, NewReader
    <3>2. (<<>> \o <<>>) \o <<>> = <<>>
      BY <2>2, ConcatEmptySeq
    <3>3. Holds((Consumed(NewReader) \o <<>>) \o <<>>, <<>>, 0, 0)
      BY <3>1, <3>2, HoldsNone
    <3>. QED  BY <2>2, <3>1, <3>3 DEF InStep, Clean
  <2>6. Pending(Peer(p), <<>>)
    BY <2>1 DEF Pending
  <2>7. ReadInv(p)
    BY <2>1, <2>2, <2>3, <2>5, <2>6 DEF ReadInv
  <2>. QED  BY <1>1, <2>1, <2>4, <2>7
<1>. QED  BY <1>2, <1>3 DEF IInv

-----------------------------------------------------------------------------
(* What a step leaves alone.                                               *)

LEMMA QueueKept ==
    ASSUME IInv, NEW p \in End, inbox'[p] = inbox[p], sent'[p] = sent[p]
    PROVE  QueueInv(p)' /\ Taken(p)' = Taken(p)
  BY DEF IInv, QueueInv, Taken

LEMMA PendingKept ==
    ASSUME NEW p \in End, inbox'[p] = inbox[p], sent'[p] = sent[p], out'[p] = out[p],
           NEW z
    PROVE  Pending(p, z)' <=> Pending(p, z)
  BY DEF Pending, Taken

LEMMA PrefixKept ==
    ASSUME IInv, NEW p \in End, state'[p] # "failed" \/ state'[p] = state[p],
           delivered'[p] = delivered[p], sent'[Peer(p)] = sent[Peer(p)],
           lost'[p] = lost[p]
    PROVE  PrefixInv(p)'
  BY DEF IInv, PrefixInv

LEMMA ReadKept ==
    ASSUME IInv, NEW p \in End,
           reader'[p] = reader[p], sock'[p] = sock[p], sent'[Peer(p)] = sent[Peer(p)],
           delivered'[p] = delivered[p], Running(p)' => Running(p), lost'[p] = lost[p],
           stop'[p] # "bridge" => stop[p] # "bridge",
           Running(Peer(p))' =>
               /\ Running(Peer(p)) /\ inbox'[Peer(p)] = inbox[Peer(p)]
               /\ out'[Peer(p)] = out[Peer(p)]
    PROVE  ReadInv(p)'
<1>. SUFFICES ASSUME Running(p)', ~lost'[p] PROVE ReadInv(p)'
  BY DEF ReadInv
<1>1. PICK n \in Nat, w \in Nat, z \in Seq(Byte) :
         /\ InStep(reader[p], sock[p], sent[Peer(p)], n, w, z)
         /\ Running(Peer(p)) => w = Taken(Peer(p)) /\ Pending(Peer(p), z)
         /\ stop[p] # "bridge" => n = Len(delivered[p])
  BY DEF IInv, ReadInv
<1>2. Running(Peer(p))' => w = Taken(Peer(p))' /\ Pending(Peer(p), z)'
  <2>. SUFFICES ASSUME Running(Peer(p))'
                PROVE  w = Taken(Peer(p))' /\ Pending(Peer(p), z)'
    OBVIOUS
  <2>1. Peer(p) \in End
    BY Ends
  <2>2. Taken(Peer(p))' = Taken(Peer(p))
    BY DEF Taken
  <2>3. Pending(Peer(p), z)'
    BY <1>1, <2>1, PendingKept
  <2>. QED  BY <1>1, <2>2, <2>3
<1>3. /\ InStep(reader'[p], sock'[p], sent'[Peer(p)], n, w, z)
      /\ stop'[p] # "bridge" => n = Len(delivered'[p])
  BY <1>1
<1>. QED  BY <1>2, <1>3 DEF ReadInv

-----------------------------------------------------------------------------
LEMMA QueueStep ==
    ASSUME IInv, NEW p \in End, NEW m \in Message, Queue(p, m)
    PROVE  IInv'
<1>1. /\ inbox' = [inbox EXCEPT ![p] = Append(inbox[p], m)]
      /\ sent' = [sent EXCEPT ![p] = Append(sent[p], m)]
      /\ UNCHANGED <<state, out, sock, reader, stop, delivered, lost>>
  BY DEF Queue
<1>2. /\ inbox'[p] = Append(inbox[p], m) /\ sent'[p] = Append(sent[p], m)
      /\ \A q \in End : q # p => inbox'[q] = inbox[q] /\ sent'[q] = sent[q]
  BY <1>1 DEF IInv, TypeOK
<1>3. /\ inbox'[p] \in Seq(Message) /\ Len(inbox'[p]) = Len(inbox[p]) + 1
      /\ DOMAIN inbox'[p] = 1..(Len(inbox[p]) + 1)
      /\ \A k \in 1..Len(inbox[p]) : inbox'[p][k] = inbox[p][k]
      /\ inbox'[p][Len(inbox[p]) + 1] = m
  BY <1>2, EndTypes, AppendProperties, LenProperties
<1>4. /\ sent'[p] \in Seq(Message) /\ Len(sent'[p]) = Len(sent[p]) + 1
      /\ \A k \in 1..Len(sent[p]) : sent'[p][k] = sent[p][k]
      /\ sent'[p][Len(sent[p]) + 1] = m
  BY <1>2, EndTypes, AppendProperties
<1>5. TypeOK'
  BY <1>1, <1>3, <1>4 DEF IInv, TypeOK
<1>6. Taken(p)' = Taken(p)
  <2>1. Len(sent[p]) \in Nat /\ Len(inbox[p]) \in Nat
    BY EndTypes
  <2>2. (Len(sent[p]) + 1) - (Len(inbox[p]) + 1) = Len(sent[p]) - Len(inbox[p])
    BY <2>1
  <2>. QED  BY <1>3, <1>4, <2>2 DEF Taken
<1>7. QueueInv(p)'
  <2>1. /\ Len(sent[p]) \in Nat /\ Len(inbox[p]) \in Nat
        /\ Len(inbox[p]) <= Len(sent[p]) /\ DOMAIN inbox[p] = 1..Len(inbox[p])
        /\ Taken(p) + Len(inbox[p]) = Len(sent[p]) /\ Taken(p) \in Nat
    BY EndTypes DEF IInv, QueueInv, Taken
  <2>2. ASSUME NEW k \in DOMAIN inbox'[p]
        PROVE  inbox'[p][k] = sent'[p][Taken(p) + k]
    <3>1. CASE k = Len(inbox[p]) + 1
      <4>1. Taken(p) + k = Len(sent[p]) + 1
        BY <2>1, <3>1
      <4>. QED  BY <1>3, <1>4, <3>1, <4>1
    <3>2. CASE k # Len(inbox[p]) + 1
      <4>1. k \in 1..Len(inbox[p]) /\ Taken(p) + k \in 1..Len(sent[p])
        BY <1>3, <2>1, <3>2
      <4>2. inbox[p][k] = sent[p][Taken(p) + k]
        BY <2>1, <4>1 DEF IInv, QueueInv
      <4>. QED  BY <1>3, <1>4, <4>1, <4>2
    <3>. QED  BY <3>1, <3>2
  <2>3. Len(inbox'[p]) <= Len(sent'[p])
    BY <1>3, <1>4, <2>1
  <2>. QED  BY <1>6, <2>2, <2>3 DEF QueueInv
<1>8. ASSUME NEW z, Pending(p, z)
      PROVE  Pending(p, z)'
  <2>1. CASE out[p] = <<>>
    BY <1>1, <1>8, <2>1 DEF Pending
  <2>2. CASE out[p] # <<>>
    <3>1. Taken(p) \in 1..Len(sent[p])
      BY <1>8, <2>2, EndTypes DEF Pending
    <3>2. sent'[p][Taken(p)'] = sent[p][Taken(p)]
      BY <1>4, <1>6, <3>1
    <3>. QED  BY <1>1, <1>6, <1>8, <2>2, <3>2 DEF Pending
  <2>. QED  BY <2>1, <2>2
<1>9. ReadInv(Peer(p))'
  <2>. DEFINE q == Peer(p)
  <2>1. q \in End /\ Peer(q) = p
    BY Ends
  <2>2. SUFFICES ASSUME Running(q), ~lost[q] PROVE ReadInv(q)'
    BY <1>1, <2>1 DEF ReadInv, Running
  <2>3. PICK n \in Nat, w \in Nat, z \in Seq(Byte) :
           /\ InStep(reader[q], sock[q], sent[p], n, w, z)
           /\ Running(p) => w = Taken(p) /\ Pending(p, z)
           /\ stop[q] # "bridge" => n = Len(delivered[q])
    BY <2>1, <2>2 DEF IInv, ReadInv
  <2>4. InStep(reader[q], sock[q], sent'[p], n, w, z)
    BY <1>2, <2>3, EndTypes, InStepQueue
  <2>5. /\ InStep(reader'[q], sock'[q], sent'[p], n, w, z)
        /\ Running(p)' => w = Taken(p)' /\ Pending(p, z)'
        /\ stop'[q] # "bridge" => n = Len(delivered'[q])
    BY <1>1, <1>6, <1>8, <2>3, <2>4 DEF Running
  <2>. QED  BY <2>1, <2>5 DEF ReadInv
<1>10. PrefixInv(Peer(p))'
  <2>. DEFINE q == Peer(p)
  <2>1. q \in End /\ Peer(q) = p
    BY Ends
  <2>. HIDE DEF q
  <2>2. CASE lost[q]
    <3>1. ~Short(sent[p])
      BY <2>1, <2>2 DEF IInv, PrefixInv
    <3>2. Short(sent'[p]) => Short(sent[p])
      <4>1. \A k \in 1..Len(sent[p]) : k \in 1..Len(sent'[p])
        BY <1>4, EndTypes
      <4>. QED  BY <1>4, <4>1 DEF Short
    <3>. QED  BY <1>1, <2>1, <2>2, <3>1, <3>2 DEF PrefixInv, q
  <2>3. CASE ~lost[q]
    <3>1. /\ Len(delivered[q]) <= Len(sent[p]) /\ DOMAIN delivered[q] = 1..Len(delivered[q])
          /\ Len(delivered[q]) \in Nat /\ Len(sent[p]) \in Nat /\ state[q] # "failed"
          /\ \A i \in DOMAIN delivered[q] : delivered[q][i] = sent[p][i]
      BY <2>1, <2>3, EndTypes DEF IInv, PrefixInv
    <3>2. \A i \in DOMAIN delivered[q] : i \in 1..Len(sent[p])
      BY <3>1
    <3>3. Len(delivered[q]) <= Len(sent[p]) + 1
      BY <3>1
    <3>. QED  BY <1>1, <1>4, <2>1, <2>3, <3>1, <3>2, <3>3 DEF PrefixInv, q
  <2>. QED  BY <2>2, <2>3 DEF q
<1>11. ASSUME NEW q \in End, q # p
       PROVE  QueueInv(q)' /\ ReadInv(p)' /\ PrefixInv(p)'
  <2>1. q = Peer(p) /\ Peer(q) = p
    BY <1>11, Ends
  <2>2. QueueInv(q)'
    BY <1>2, <1>11, QueueKept
  <2>3. ReadInv(p)'
    BY <1>1, <1>2, <1>11, <2>1, ReadKept DEF Running
  <2>4. PrefixInv(p)'
    BY <1>1, <1>2, <1>11, <2>1, PrefixKept
  <2>. QED  BY <2>2, <2>3, <2>4
<1>12. \A q \in End : ShortOfNeed(reader'[q])
  BY <1>1 DEF IInv
<1>. QED  BY <1>5, <1>7, <1>9, <1>10, <1>11, <1>12, Ends DEF IInv

LEMMA StopStep ==
    ASSUME IInv, NEW p \in End, NEW how \in {"shutdown", "bridge"}, Stop(p, how)
    PROVE  IInv'
<1>1. /\ stop[p] = "no" /\ stop' = [stop EXCEPT ![p] = how]
      /\ UNCHANGED <<state, inbox, out, sock, reader, sent, delivered, lost>>
  BY DEF Stop
<1>2. TypeOK'
  BY <1>1 DEF IInv, TypeOK
<1>3. ASSUME NEW q \in End
      PROVE  ShortOfNeed(reader'[q]) /\ QueueInv(q)' /\ ReadInv(q)' /\ PrefixInv(q)'
  <2>1. ShortOfNeed(reader'[q]) /\ QueueInv(q)' /\ PrefixInv(q)'
    BY <1>1, QueueKept, PrefixKept DEF IInv
  <2>2. stop'[q] # "bridge" => stop[q] # "bridge"
    BY <1>1 DEF IInv, TypeOK
  <2>3. ReadInv(q)'
    BY <1>1, <2>2, ReadKept DEF Running
  <2>. QED  BY <2>1, <2>3
<1>. QED  BY <1>2, <1>3 DEF IInv

(* The loop of p ends, other than with an error. *)
LEMMA FinishStep ==
    ASSUME IInv, NEW p \in End, Finish(p, "ended"),
           UNCHANGED <<inbox, sock, stop, sent, delivered, lost>>
    PROVE  IInv'
<1>1. /\ state' = [state EXCEPT ![p] = "ended"] /\ out' = [out EXCEPT ![p] = <<>>]
      /\ reader' = [reader EXCEPT ![p] = NewReader]
  BY DEF Finish
<1>2. /\ state'[p] = "ended" /\ out'[p] = <<>> /\ reader'[p] = NewReader /\ ~Running(p)'
      /\ \A q \in End : q # p => /\ state'[q] = state[q] /\ out'[q] = out[q]
                                 /\ reader'[q] = reader[q]
  BY <1>1 DEF IInv, TypeOK, Running
<1>3. TypeOK'
  <2>1. NewReader \in Reader /\ <<>> \in Seq(Seq(Byte))
    BY NewReaderType, EmptySeq
  <2>. QED  BY <1>1, <1>2, <2>1 DEF IInv, TypeOK
<1>4. ASSUME NEW q \in End
      PROVE  ShortOfNeed(reader'[q]) /\ QueueInv(q)' /\ ReadInv(q)' /\ PrefixInv(q)'
  <2>1. QueueInv(q)' /\ ShortOfNeed(reader'[q])
    BY <1>2, QueueKept, NewReaderType DEF IInv
  <2>2. PrefixInv(q)'
    BY <1>2, PrefixKept
  <2>3. CASE q = p
    BY <1>2, <2>1, <2>2, <2>3 DEF ReadInv
  <2>4. CASE q # p
    <3>1. Peer(q) = p
      BY <2>4, Ends
    <3>2. ReadInv(q)'
      BY <1>2, <2>4, <3>1, ReadKept DEF Running
    <3>. QED  BY <2>1, <2>2, <3>2
  <2>. QED  BY <2>3, <2>4
<1>. QED  BY <1>3, <1>4 DEF IInv


(* A message is taken off the queue: it is what is written next.  A read     *)
(* that had taken bytes is dropped only if a message was longer than Whole.  *)
LEMMA TakeStep ==
    ASSUME IInv, NEW p \in End, DNSFromBridge(p)
    PROVE  IInv'
<1>. DEFINE taken == Taken(p)
            queued == Len(inbox[p])
            count == Len(sent[p])
<1>0. PICK m \in Message : m = Head(inbox[p])
  <2>1. inbox[p] # <<>>
    BY DEF DNSFromBridge
  <2>2. Head(inbox[p]) \in Message
    BY <2>1, EndTypes, HeadTailProperties
  <2>. QED  BY <2>2
<1>1. /\ state[p] = "select" /\ inbox[p] # <<>>
      /\ reader' = [reader EXCEPT ![p] = DropRead(reader[p])]
      /\ out' = [out EXCEPT ![p] = Writes(m)]
      /\ state' = [state EXCEPT ![p] = "writing"]
      /\ inbox' = [inbox EXCEPT ![p] = Tail(inbox[p])]
      /\ lost' = [lost EXCEPT ![p] = lost[p] \/ reader[p].buf # <<>>]
      /\ UNCHANGED <<sock, stop, sent, delivered>>
  BY <1>0 DEF DNSFromBridge
<1>2. /\ state'[p] = "writing" /\ out'[p] = Writes(m) /\ inbox'[p] = Tail(inbox[p])
      /\ reader'[p] = DropRead(reader[p])
      /\ (lost'[p] <=> lost[p] \/ reader[p].buf # <<>>)
      /\ \A q \in End : q # p => /\ state'[q] = state[q] /\ out'[q] = out[q]
                                 /\ reader'[q] = reader[q] /\ inbox'[q] = inbox[q]
                                 /\ lost'[q] = lost[q]
  BY <1>1 DEF IInv, TypeOK
<1>3. /\ m \in Message /\ m = inbox[p][1] /\ Tail(inbox[p]) \in Seq(Message)
      /\ queued \in Nat \ {0} /\ Len(Tail(inbox[p])) = queued - 1
      /\ DOMAIN Tail(inbox[p]) = 1..(queued - 1)
      /\ \A k \in 1..(queued - 1) : Tail(inbox[p])[k] = inbox[p][k + 1]
  BY <1>0, <1>1, EndTypes, EmptySeq, HeadTailProperties, LenProperties
<1>4. /\ count \in Nat /\ queued <= count
      /\ taken \in Nat /\ taken = count - queued
      /\ DOMAIN inbox[p] = 1..queued
      /\ \A k \in DOMAIN inbox[p] : inbox[p][k] = sent[p][taken + k]
  BY EndTypes DEF IInv, QueueInv, Taken
<1>5. out[p] = <<>>
  BY <1>1 DEF IInv, TypeOK
<1>6. Taken(p)' = count - (queued - 1)
  BY <1>1, <1>2, <1>3 DEF Taken
<1>7. sent[p] \in Seq(Message) /\ count = Len(sent[p])
  BY EndTypes
<1>. HIDE DEF taken, queued, count
<1>8. /\ m = sent[p][taken + 1] /\ taken + 1 \in 1..count /\ Taken(p)' = taken + 1
      /\ taken < count
  <2>1. 1 \in 1..queued /\ queued \in Nat
    BY <1>3
  <2>2. taken + 1 \in 1..count /\ count - (queued - 1) = taken + 1 /\ taken < count
    BY <1>4, <2>1
  <2>. QED  BY <1>3, <1>4, <1>6, <2>1, <2>2
<1>9. /\ Writes(m) \in Seq(Seq(Byte)) /\ Writes(m) # <<>>
      /\ Frame(m) \in Seq(Byte)
  <2>1. /\ Writes(m) = << Header(Len(m)), m >> /\ m \in Seq(Byte)
        /\ Header(Len(m)) \in Seq(Byte) /\ Frame(m) \in Seq(Byte)
    BY <1>3, FrameType
  <2>. HIDE DEF Writes
  <2>. QED  BY <2>1
<1>10. /\ DropRead(reader[p]) \in Reader /\ ShortOfNeed(DropRead(reader[p]))
       /\ reader[p].buf = <<>> => DropRead(reader[p]) = reader[p]
  <2>1. reader[p] \in Reader
    BY EndTypes
  <2>2. DropRead(reader[p]).buf = <<>> /\ DropRead(reader[p]).len = reader[p].len
    BY <2>1 DEF DropRead, Reader
  <2>3. DropRead(reader[p]) \in Reader
    BY <2>1, EmptySeq DEF DropRead, Reader
  <2>4. ShortOfNeed(DropRead(reader[p]))
    <3>1. reader[p].len \in Nat /\ Len(<<>>) = 0
      <4>1. reader[p].len \in 0..MaxLen
        BY <2>1 DEF Reader
      <4>. QED  BY <4>1, LengthType, EmptySeq
    <3>. QED  BY <2>2, <3>1 DEF ShortOfNeed
  <2>5. reader[p].buf = <<>> => DropRead(reader[p]) = reader[p]
    BY <2>1 DEF DropRead, Reader
  <2>. QED  BY <2>3, <2>4, <2>5
<1>11. TypeOK'
  BY <1>1, <1>2, <1>3, <1>9, <1>10 DEF IInv, TypeOK
<1>12. QueueInv(p)'
  <2>1. ASSUME NEW k \in DOMAIN inbox'[p]
        PROVE  inbox'[p][k] = sent[p][(taken + 1) + k]
    <3>1. k \in 1..(queued - 1) /\ k + 1 \in DOMAIN inbox[p]
          /\ taken + (k + 1) = (taken + 1) + k
      BY <1>2, <1>3, <1>4
    <3>2. inbox[p][k + 1] = sent[p][taken + (k + 1)]
      BY <1>4, <3>1
    <3>. QED  BY <1>2, <1>3, <3>1, <3>2
  <2>2. Len(inbox'[p]) <= Len(sent[p])
    BY <1>2, <1>3, <1>4, <1>7
  <2>. QED  BY <1>1, <1>8, <2>1, <2>2 DEF QueueInv
<1>13. Pending(p, Frame(m))'
  <2>1. taken + 1 >= 1
    BY <1>4
  <2>2. Left(out'[p], m, Frame(m))
    BY <1>2, Zenon DEF Left
  <2>3. sent'[p][Taken(p)'] = m
    BY <1>1, <1>8
  <2>. QED  BY <1>2, <1>8, <1>9, <2>1, <2>2, <2>3 DEF Pending
<1>14. ReadInv(p)' /\ PrefixInv(p)'
  <2>1. Peer(p) \in End /\ Peer(p) # p
    BY Ends
  <2>2. CASE lost[p]
    <3>1. lost'[p]
      BY <1>2, <2>2
    <3>2. PrefixInv(p)'
      BY <1>1, <2>2, <3>1 DEF IInv, PrefixInv
    <3>. QED  BY <3>1, <3>2 DEF ReadInv
  <2>3. CASE ~lost[p]
    <3>1. PICK n \in Nat, w \in Nat, z \in Seq(Byte) :
             /\ InStep(reader[p], sock[p], sent[Peer(p)], n, w, z)
             /\ Running(Peer(p)) => w = Taken(Peer(p)) /\ Pending(Peer(p), z)
             /\ stop[p] # "bridge" => n = Len(delivered[p])
      BY <1>1, <2>3 DEF IInv, ReadInv, Running
    <3>2. CASE reader[p].buf # <<>>
      <4>1. ~Short(sent[Peer(p)])
        BY <3>1, <3>2 DEF InStep
      <4>2. lost'[p]
        BY <1>2, <3>2
      <4>. QED  BY <1>1, <4>1, <4>2 DEF PrefixInv, ReadInv
    <3>3. CASE reader[p].buf = <<>>
      <4>1. lost'[p] = lost[p] /\ reader'[p] = reader[p]
        BY <1>1, <1>2, <1>10, <2>3, <3>3 DEF IInv, TypeOK
      <4>2. PrefixInv(p)'
        BY <1>1, <1>2, <4>1, PrefixKept
      <4>3. ReadInv(p)'
        BY <1>1, <1>2, <2>1, <4>1, ReadKept DEF Running
      <4>. QED  BY <4>2, <4>3
    <3>. QED  BY <3>2, <3>3
  <2>. QED  BY <2>2, <2>3
<1>15. ASSUME NEW q \in End, q # p
       PROVE  QueueInv(q)' /\ ReadInv(q)' /\ PrefixInv(q)'
  <2>1. Peer(q) = p
    BY <1>15, Ends
  <2>2. QueueInv(q)' /\ PrefixInv(q)'
    BY <1>1, <1>2, <1>15, QueueKept, PrefixKept
  <2>3. ReadInv(q)'
    <3>. SUFFICES ASSUME Running(q), ~lost[q] PROVE ReadInv(q)'
      BY <1>2, <1>15 DEF ReadInv, Running
    <3>1. Running(p)
      BY <1>1 DEF Running
    <3>2. PICK n \in Nat, w \in Nat, z \in Seq(Byte) :
             /\ InStep(reader[q], sock[q], sent[p], n, w, z)
             /\ w = Taken(p) /\ Pending(p, z)
             /\ stop[q] # "bridge" => n = Len(delivered[q])
      BY <2>1, <3>1 DEF IInv, ReadInv
    <3>3. z = <<>> /\ w = taken
      BY <1>5, <3>2 DEF Pending, taken
    <3>4. InStep(reader[q], sock[q], sent[p], n, taken + 1, Frame(m))
      <4>1. reader[q] \in Reader /\ sock[q] \in Seq(Byte)
        BY EndTypes
      <4>2. taken < Len(sent[p]) /\ InStep(reader[q], sock[q], sent[p], n, taken, <<>>)
        BY <1>7, <1>8, <3>2, <3>3
      <4>3. InStep(reader[q], sock[q], sent[p], n, taken + 1, Frame(sent[p][taken + 1]))
        BY <1>4, <1>7, <4>1, <4>2, InStepTake
      <4>. QED  BY <1>8, <4>3
    <3>5. /\ InStep(reader'[q], sock'[q], sent'[p], n, taken + 1, Frame(m))
          /\ taken + 1 = Taken(p)' /\ Pending(p, Frame(m))'
          /\ stop'[q] # "bridge" => n = Len(delivered'[q])
          /\ taken + 1 \in Nat
      BY <1>1, <1>2, <1>4, <1>8, <1>13, <1>15, <3>2, <3>4
    <3>. QED  BY <1>9, <2>1, <3>5 DEF ReadInv
  <2>. QED  BY <2>2, <2>3
<1>16. \A q \in End : ShortOfNeed(reader'[q])
  BY <1>2, <1>10 DEF IInv
<1>. QED  BY <1>11, <1>12, <1>14, <1>15, <1>16 DEF IInv

(* What the socket takes is a string of bytes, and so is what is left. *)
LEMMA AfterType ==
    ASSUME NEW o \in Seq(Seq(Byte)), o # <<>>, NEW k \in 1..Len(Head(o))
    PROVE  /\ SubSeq(Head(o), 1, k) \in Seq(Byte) /\ Len(SubSeq(Head(o), 1, k)) = k
           /\ After(o, k) \in Seq(Seq(Byte))
<1>1. Head(o) \in Seq(Byte) /\ Tail(o) \in Seq(Seq(Byte))
  BY HeadTailProperties
<1>2. /\ Len(Head(o)) \in Nat /\ \A i \in 1..Len(Head(o)) : Head(o)[i] \in Byte
  BY <1>1, LenProperties
<1>3. /\ SubSeq(Head(o), 1, k) \in Seq(Byte) /\ Len(SubSeq(Head(o), 1, k)) = k
      /\ SubSeq(Head(o), k + 1, Len(Head(o))) \in Seq(Byte)
  BY <1>1, <1>2, SubSeqProperties
<1>4. <<SubSeq(Head(o), k + 1, Len(Head(o)))>> \o Tail(o) \in Seq(Seq(Byte))
  <2>. DEFINE b == SubSeq(Head(o), k + 1, Len(Head(o)))
  <2>1. b \in Seq(Byte)
    BY <1>3
  <2>. HIDE DEF b
  <2>2. <<b>> \in Seq(Seq(Byte))
    BY <2>1
  <2>3. <<b>> \o Tail(o) \in Seq(Seq(Byte))
    BY <1>1, <2>2, ConcatProperties
  <2>. QED  BY <2>3 DEF b
<1>. QED  BY <1>1, <1>3, <1>4 DEF After

(* A write: the peer finds it behind what is in the socket.                  *)
LEMMA WriteStep ==
    ASSUME IInv, NEW p \in End, Write(p)
    PROVE  IInv'
<1>. DEFINE q == Peer(p)
            taken == Taken(p)
<1>1. PICK k \in 1..Len(Head(out[p])) :
         /\ state[p] = "writing" /\ Running(q) /\ CanTake(p, k)
         /\ sock' = [sock EXCEPT ![q] = sock[q] \o SubSeq(Head(out[p]), 1, k)]
         /\ out' = [out EXCEPT ![p] = After(out[p], k)]
         /\ state' = [state EXCEPT ![p] = IF out'[p] = <<>> THEN "select" ELSE "writing"]
         /\ UNCHANGED <<inbox, reader, stop, sent, delivered, lost>>
  BY DEF Write
<1>. DEFINE a == SubSeq(Head(out[p]), 1, k)
            left == After(out[p], k)
<1>2. q \in End /\ Peer(q) = p /\ q # p
  BY Ends
<1>3. /\ sock'[q] = sock[q] \o a /\ sock'[p] = sock[p]
      /\ out'[p] = left /\ out'[q] = out[q]
      /\ state'[p] = IF left = <<>> THEN "select" ELSE "writing"
      /\ state'[q] = state[q]
  BY <1>1, <1>2 DEF IInv, TypeOK
<1>4. out[p] # <<>> /\ out[p] \in Seq(Seq(Byte))
  BY <1>1 DEF IInv, TypeOK
<1>5. /\ a \in Seq(Byte) /\ Len(a) = k /\ left \in Seq(Seq(Byte))
      /\ k < Len(Head(out[p])) => Len(Head(out[p])) > Whole
      /\ Len(sock[q]) + k <= Capacity[q]
  BY <1>1, <1>4, AfterType DEF CanTake
<1>6. /\ taken \in Nat /\ taken <= Len(sent[p]) /\ Taken(p)' = taken
      /\ sent[p] \in Seq(Message) /\ Len(sent[p]) \in Nat
  BY <1>1, EndTypes DEF Taken
<1>7. reader[q] \in Reader /\ sock[q] \in Seq(Byte) /\ reader' = reader
  BY <1>1, <1>2, EndTypes
<1>8. /\ \A z \in Seq(Byte) : Left(out[p], sent[p][taken], z) /\ taken >= 1 =>
           \E rest \in Seq(Byte) : z = a \o rest /\ Left(left, sent[p][taken], rest)
  <2>. SUFFICES ASSUME NEW z \in Seq(Byte), Left(out[p], sent[p][taken], z), taken >= 1
                PROVE  \E rest \in Seq(Byte) :
                           z = a \o rest /\ Left(left, sent[p][taken], rest)
    OBVIOUS
  <2>. DEFINE m == sent[p][taken]
  <2>1. m \in Message
    <3>1. taken \in 1..Len(sent[p])
      BY <1>6
    <3>. QED  BY <1>6, <3>1, LenProperties
  <2>2. Left(out[p], m, z)
    OBVIOUS
  <2>. HIDE DEF m, taken
  <2>3. \E rest \in Seq(Byte) : z = a \o rest /\ Left(left, m, rest)
    BY <1>4, <1>5, <2>1, <2>2, LeftWrite
  <2>. QED  BY <2>3 DEF m
<1>. HIDE DEF a, left, taken
<1>9. TypeOK'
  <2>1. sock'[q] \in Seq(Byte) /\ Len(sock'[q]) <= Capacity[q]
    <3>1. /\ sock[q] \o a \in Seq(Byte)
          /\ Len(sock[q] \o a) = Len(sock[q]) + Len(a)
      BY <1>5, <1>7, ConcatProperties
    <3>. QED  BY <1>3, <1>5, <3>1
  <2>2. \A e \in End : out'[e] # <<>> <=> state'[e] = "writing"
    <3>1. out'[p] # <<>> <=> state'[p] = "writing"
      BY <1>3
    <3>2. out'[q] # <<>> <=> state'[q] = "writing"
      BY <1>2, <1>3 DEF IInv, TypeOK
    <3>. QED  BY <1>2, <3>1, <3>2, Ends
  <2>3. \A e \in End : Len(sock'[e]) <= Capacity[e]
    BY <1>2, <1>3, <2>1, Ends DEF IInv, TypeOK
  <2>4. /\ state' \in [End -> {"select", "writing", "ended", "failed"}]
        /\ out' \in [End -> Seq(Seq(Byte))] /\ sock' \in [End -> Seq(Byte)]
    BY <1>1, <1>2, <1>3, <1>5, <2>1 DEF IInv, TypeOK
  <2>. QED  BY <1>1, <2>2, <2>3, <2>4 DEF IInv, TypeOK
<1>10. ReadInv(q)'
  <2>. SUFFICES ASSUME ~lost[q] PROVE ReadInv(q)'
    BY <1>1 DEF ReadInv
  <2>1. PICK n \in Nat, w \in Nat, z \in Seq(Byte) :
           /\ InStep(reader[q], sock[q], sent[p], n, w, z)
           /\ w = taken /\ Pending(p, z)
           /\ stop[q] # "bridge" => n = Len(delivered[q])
    <3>1. ReadInv(q) /\ Running(q) /\ Running(p) /\ Peer(q) = p
      BY <1>1, <1>2 DEF IInv, Running
    <3>. HIDE DEF q
    <3>. QED  BY <3>1 DEF ReadInv, taken
  <2>2. Left(out[p], sent[p][taken], z) /\ taken >= 1
    BY <1>4, <2>1 DEF Pending, taken
  <2>3. PICK rest \in Seq(Byte) : z = a \o rest /\ Left(left, sent[p][taken], rest)
    BY <1>8, <2>2
  <2>4. taken \in 1..Len(sent[p]) /\ sent[p][taken] \in Message
    <3>1. taken \in 1..Len(sent[p])
      BY <1>6, <2>2
    <3>. QED  BY <1>6, <3>1, LenProperties
  <2>5. Short(sent[p]) => Clean(rest, sent[p], taken)
    BY <1>6, <2>3, <2>4, LeftClean
  <2>6. InStep(reader[q], sock[q] \o a, sent[p], n, taken, rest)
    <3>1. InStep(reader[q], sock[q], sent[p], n, taken, a \o rest)
      BY <2>1, <2>3
    <3>. QED  BY <1>5, <1>6, <1>7, <2>5, <3>1, InStepWrite
  <2>7. Pending(p, rest)'
    <3>1. CASE left = <<>>
      <4>1. rest = <<>>
        BY <2>3, <2>4, <3>1, LeftNone
      <4>. QED  BY <1>3, <3>1, <4>1 DEF Pending
    <3>2. CASE left # <<>>
      BY <1>1, <1>3, <1>6, <2>2, <2>3, <3>2 DEF Pending
    <3>. QED  BY <3>1, <3>2
  <2>8. /\ InStep(reader'[q], sock'[q], sent'[p], n, taken, rest)
        /\ taken = Taken(p)'
        /\ stop'[q] # "bridge" => n = Len(delivered'[q])
    BY <1>1, <1>3, <1>6, <2>1, <2>6
  <2>. QED  BY <1>2, <1>6, <2>7, <2>8 DEF ReadInv
<1>11. ReadInv(p)'
  BY <1>1, <1>2, <1>3, ReadKept DEF Running
<1>12. QueueInv(p)' /\ QueueInv(q)' /\ PrefixInv(p)' /\ PrefixInv(q)'
  <2>1. state'[p] # "failed" /\ state'[q] = state[q]
    BY <1>3
  <2>. QED  BY <1>1, <1>2, <2>1, QueueKept, PrefixKept
<1>. QED  BY <1>2, <1>7, <1>9, <1>10, <1>11, <1>12, Ends DEF IInv

(* A reader that lost bytes finds anything; one that did not never an error, *)
(* and its message is the next one of the peer's bridge.                     *)
LEMMA PollReadStep ==
    ASSUME IInv, NEW p \in End, PollRead(p)
    PROVE  IInv'
<1>. DEFINE poll == Poll(reader[p], sock[p])
<1>0. PICK q \in End : q = Peer(p) /\ Peer(q) = p /\ q # p
  BY Ends
<1>1. /\ state[p] = "select" /\ sock[p] # <<>>
      /\ sock' = [sock EXCEPT ![p] = poll.rest]
      /\ IF poll.res = "error" THEN Finish(p, "failed")
         ELSE /\ reader' = [reader EXCEPT ![p] = poll.reader]
              /\ UNCHANGED <<state, out>>
      /\ delivered' = IF poll.res = "message" /\ stop[p] # "bridge"
                      THEN [delivered EXCEPT ![p] = Append(delivered[p], poll.msg)]
                      ELSE delivered
      /\ UNCHANGED <<inbox, stop, sent, lost>>
  BY DEF PollRead
<1>2. /\ reader[p] \in Reader /\ ShortOfNeed(reader[p]) /\ sock[p] \in Seq(Byte)
      /\ Len(sock[p]) \in Nat /\ Len(sock[p]) <= Capacity[p]
      /\ delivered[p] \in Seq(Seq(Byte))
  BY EndTypes DEF IInv, TypeOK
<1>3. /\ poll.rest \in Seq(Byte) /\ Len(poll.rest) <= Len(sock[p])
      /\ poll.reader \in Reader /\ ShortOfNeed(poll.reader)
      /\ poll.res = "message" => poll.msg \in Seq(Byte)
  BY <1>2, PollType
<1>. HIDE DEF poll
<1>4. Len(poll.rest) <= Capacity[p]
  <2>1. Capacity[p] \in Nat /\ Len(poll.rest) \in Nat
    BY <1>3, CapacityAssumption, LenProperties
  <2>. QED  BY <1>2, <1>3, <2>1
<1>5. /\ sock'[p] = poll.rest /\ sock'[q] = sock[q]
      /\ reader'[q] = reader[q] /\ delivered'[q] = delivered[q]
      /\ state'[q] = state[q] /\ out'[q] = out[q]
  <2>1. reader'[q] = reader[q] /\ state'[q] = state[q] /\ out'[q] = out[q]
    BY <1>0, <1>1 DEF IInv, TypeOK, Finish
  <2>2. delivered'[q] = delivered[q]
    BY <1>0, <1>1 DEF IInv, TypeOK
  <2>. QED  BY <1>0, <1>1, <2>1, <2>2 DEF IInv, TypeOK
<1>6. /\ delivered' \in [End -> Seq(Seq(Byte))]
      /\ sock' \in [End -> Seq(Byte)] /\ \A e \in End : Len(sock'[e]) <= Capacity[e]
  <2>1. delivered' \in [End -> Seq(Seq(Byte))]
    <3>1. CASE poll.res = "message" /\ stop[p] # "bridge"
      <4>1. Append(delivered[p], poll.msg) \in Seq(Seq(Byte))
        BY <1>2, <1>3, <3>1, AppendProperties
      <4>. QED  BY <1>1, <3>1, <4>1 DEF IInv, TypeOK
    <3>2. CASE ~(poll.res = "message" /\ stop[p] # "bridge")
      BY <1>1, <3>2 DEF IInv, TypeOK
    <3>. QED  BY <3>1, <3>2
  <2>. QED  BY <1>0, <1>1, <1>3, <1>4, <1>5, <2>1, Ends DEF IInv, TypeOK
<1>7. TypeOK' /\ \A e \in End : ShortOfNeed(reader'[e])
  <2>1. CASE poll.res = "error"
    <3>1. /\ state' = [state EXCEPT ![p] = "failed"] /\ out' = [out EXCEPT ![p] = <<>>]
          /\ reader' = [reader EXCEPT ![p] = NewReader]
      BY <1>1, <2>1 DEF Finish
    <3>2. <<>> \in Seq(Seq(Byte))
      BY EmptySeq
    <3>3. TypeOK'
      BY <1>1, <1>6, <3>1, <3>2, NewReaderType DEF IInv, TypeOK
    <3>. QED  BY <3>1, <3>3, NewReaderType DEF IInv, TypeOK
  <2>2. CASE poll.res # "error"
    BY <1>1, <1>3, <1>6, <2>2 DEF IInv, TypeOK
  <2>. QED  BY <2>1, <2>2
<1>8. (Running(p)' => Running(p)) /\ \A e \in End : QueueInv(e)' /\ Taken(e)' = Taken(e)
  BY <1>1, QueueKept DEF Running
<1>9. PrefixInv(q)'
  BY <1>0, <1>1, <1>5, PrefixKept
<1>10. ReadInv(q)'
  <2>1. Running(q)' => Running(q)
    BY <1>5 DEF Running
  <2>2. Running(p)' => out'[p] = out[p]
    <3>1. CASE poll.res = "error"
      <4>1. state'[p] = "failed"
        BY <1>1, <3>1 DEF Finish, IInv, TypeOK
      <4>. QED  BY <4>1 DEF Running
    <3>2. CASE poll.res # "error"
      BY <1>1, <3>2
    <3>. QED  BY <3>1, <3>2
  <2>. QED  BY <1>0, <1>1, <1>5, <1>8, <2>1, <2>2, ReadKept
<1>11. CASE lost[p]
  <2>1. PrefixInv(p)'
    BY <1>1, <1>11 DEF IInv, PrefixInv
  <2>2. ReadInv(p)'
    BY <1>1, <1>11 DEF ReadInv
  <2>. QED  BY <1>0, <1>7, <1>8, <1>9, <1>10, <2>1, <2>2, Ends DEF IInv
<1>12. CASE ~lost[p]
  <2>. DEFINE given == Len(delivered[p])
              all == sent[q]
  <2>1. PICK n \in Nat, w \in Nat, z \in Seq(Byte) :
           /\ InStep(reader[p], sock[p], all, n, w, z)
           /\ Running(q) => w = Taken(q) /\ Pending(q, z)
           /\ stop[p] # "bridge" => n = given
    <3>1. ReadInv(p) /\ Running(p)
      BY <1>1 DEF IInv, Running
    <3>. QED  BY <1>0, <1>12, <3>1 DEF ReadInv
  <2>2. /\ all \in Seq(Message) /\ Len(all) \in Nat /\ given \in Nat
        /\ DOMAIN delivered[p] = 1..given
    BY EndTypes
  <2>3. /\ n < Len(all)
        /\ \/ poll.res = "pending" /\ InStep(poll.reader, poll.rest, all, n, w, z)
           \/ /\ poll.res = "message" /\ poll.msg = all[n + 1]
              /\ InStep(poll.reader, poll.rest, all, n + 1, w, z)
    BY <1>1, <1>2, <2>1, <2>2, InStepPoll DEF poll
  <2>4. /\ given <= Len(all) /\ state[p] # "failed"
        /\ \A i \in DOMAIN delivered[p] : delivered[p][i] = all[i]
    BY <1>0, <1>12 DEF IInv, PrefixInv
  <2>5. /\ reader'[p] = poll.reader /\ state'[p] # "failed" /\ lost'[p] = lost[p]
    BY <1>1, <2>3, <2>4 DEF IInv, TypeOK
  <2>6. Running(q)' => w = Taken(q)' /\ Pending(q, z)'
    <3>1. Pending(q, z)' <=> Pending(q, z)
      BY <1>1, <1>5, PendingKept
    <3>. QED  BY <1>5, <1>8, <2>1, <3>1 DEF Running
  <2>7. all = sent'[q] /\ stop'[p] = stop[p]
    BY <1>1
  <2>. HIDE DEF given, all
  <2>8. CASE poll.res = "message" /\ stop[p] # "bridge"
    <3>1. n = given /\ poll.msg = all[given + 1] /\ given < Len(all)
          /\ InStep(poll.reader, poll.rest, all, given + 1, w, z)
      BY <2>1, <2>3, <2>8
    <3>2. delivered'[p] = Append(delivered[p], poll.msg)
      BY <1>1, <2>8 DEF IInv, TypeOK
    <3>3. /\ Len(delivered'[p]) = given + 1 /\ DOMAIN delivered'[p] = 1..(given + 1)
          /\ \A i \in 1..given : delivered'[p][i] = delivered[p][i]
          /\ delivered'[p][given + 1] = poll.msg
      BY <1>2, <1>3, <2>8, <3>2, AppendProperties, LenProperties DEF given
    <3>4. \A i \in DOMAIN delivered'[p] : delivered'[p][i] = all[i]
      <4>. SUFFICES ASSUME NEW i \in DOMAIN delivered'[p] PROVE delivered'[p][i] = all[i]
        OBVIOUS
      <4>1. i \in 1..given \/ i = given + 1
        BY <2>2, <3>3
      <4>. QED  BY <2>2, <2>4, <3>1, <3>3, <4>1
    <3>5. Len(delivered'[p]) <= Len(all)
      BY <2>2, <3>1, <3>3
    <3>6. PrefixInv(p)'
      BY <1>0, <1>12, <2>5, <2>7, <3>4, <3>5 DEF PrefixInv
    <3>7. ReadInv(p)'
      <4>1. InStep(reader'[p], sock'[p], sent'[q], given + 1, w, z)
        BY <1>5, <2>5, <2>7, <3>1
      <4>2. given + 1 = Len(delivered'[p]) /\ given + 1 \in Nat
        BY <2>2, <3>3
      <4>. QED  BY <1>0, <2>6, <4>1, <4>2 DEF ReadInv
    <3>. QED  BY <1>0, <1>7, <1>8, <1>9, <1>10, <3>6, <3>7, Ends DEF IInv
  <2>9. CASE ~(poll.res = "message" /\ stop[p] # "bridge")
    <3>1. delivered' = delivered
      BY <1>1, <2>9
    <3>2. PrefixInv(p)'
      BY <1>0, <1>12, <2>4, <2>5, <2>7, <3>1 DEF PrefixInv, given
    <3>3. ReadInv(p)'
      <4>1. CASE poll.res = "pending"
        <5>1. InStep(reader'[p], sock'[p], sent'[q], n, w, z)
          BY <1>5, <2>3, <2>5, <2>7, <4>1
        <5>2. stop'[p] # "bridge" => n = Len(delivered'[p])
          BY <2>1, <2>7, <3>1 DEF given
        <5>. QED  BY <1>0, <2>6, <5>1, <5>2 DEF ReadInv
      <4>2. CASE poll.res = "message"
        <5>1. InStep(reader'[p], sock'[p], sent'[q], n + 1, w, z) /\ n + 1 \in Nat
          BY <1>5, <2>3, <2>5, <2>7, <4>2
        <5>2. stop'[p] = "bridge"
          BY <2>7, <2>9, <4>2
        <5>. QED  BY <1>0, <2>6, <5>1, <5>2 DEF ReadInv
      <4>. QED  BY <2>3, <4>1, <4>2
    <3>. QED  BY <1>0, <1>7, <1>8, <1>9, <1>10, <3>2, <3>3, Ends DEF IInv
  <2>. QED  BY <2>8, <2>9
<1>. QED  BY <1>11, <1>12

-----------------------------------------------------------------------------
LEMMA InvStep == IInv /\ [Next]_vars => IInv'
<1>. SUFFICES ASSUME IInv, [Next]_vars PROVE IInv'
  OBVIOUS
<1>1. CASE UNCHANGED vars
  BY <1>1 DEF IInv, TypeOK, QueueInv, ReadInv, PrefixInv, Pending, Taken, Running, vars
<1>2. CASE Next
  <2>1. PICK p \in End : \/ Loop(p)
                         \/ \E m \in Message : Queue(p, m)
                         \/ \E how \in {"shutdown", "bridge"} : Stop(p, how)
    BY <1>2 DEF Next
  <2>2. CASE \E m \in Message : Queue(p, m)
    BY <2>2, QueueStep
  <2>3. CASE \E how \in {"shutdown", "bridge"} : Stop(p, how)
    BY <2>3, StopStep
  <2>4. CASE PollRead(p)
    BY <2>4, PollReadStep
  <2>5. CASE ReadEof(p)
    BY <2>5, FinishStep DEF ReadEof
  <2>6. CASE DNSFromBridge(p)
    BY <2>6, TakeStep
  <2>7. CASE Write(p)
    BY <2>7, WriteStep
  <2>8. CASE WriteFails(p)
    BY <2>8, FinishStep DEF WriteFails
  <2>9. CASE ShutdownEvent(p)
    BY <2>9, FinishStep DEF ShutdownEvent
  <2>. QED  BY <2>1, <2>2, <2>3, <2>4, <2>5, <2>6, <2>7, <2>8, <2>9 DEF Loop
<1>. QED  BY <1>1, <1>2

LEMMA Invariance == Spec => []IInv
  BY InvInit, InvStep, PTL DEF Spec

(* The types of src/dns/client.rs and src/dns/server.rs; an end has writes    *)
(* left exactly while its handler is writing, and no direction of the socket *)
(* holds more than it has room for.                                          *)
THEOREM TypeCorrect == Spec => []TypeOK
<1>1. IInv => TypeOK
  BY DEF IInv
<1>. QED  BY <1>1, Invariance, PTL

(* Client::run and Session::run hand on what the other end's bridge queued,  *)
(* in order and whole, and no read takes message bytes for a length or       *)
(* fails, however the writes are cut and whenever DNSFromBridge drops a      *)
(* read; unless a read was dropped that had taken bytes (mod.rs:36-37), and  *)
(* that happens only if a message is longer than Whole.                      *)
THEOREM DeliveredHolds == Spec => []DeliveredInOrder
<1>1. IInv => DeliveredInOrder
  <2>. SUFFICES ASSUME IInv, NEW p \in End
                PROVE  IF lost[p]
                       THEN \E k \in DOMAIN sent[Peer(p)] : Len(sent[Peer(p)][k]) > Whole
                       ELSE IsPrefix(delivered[p], sent[Peer(p)]) /\ state[p] # "failed"
    BY DEF DeliveredInOrder
  <2>. DEFINE s == delivered[p]
              t == sent[Peer(p)]
  <2>1. /\ s \in Seq(Seq(Byte)) /\ t \in Seq(Message)
        /\ IF lost[p] THEN ~Short(t)
           ELSE /\ state[p] # "failed" /\ Len(s) <= Len(t)
                /\ \A i \in DOMAIN s : s[i] = t[i]
    BY Ends DEF IInv, TypeOK, PrefixInv
  <2>. HIDE DEF s, t
  <2>2. /\ Len(s) \in Nat /\ Len(t) \in Nat /\ DOMAIN s = 1..Len(s) /\ DOMAIN t = 1..Len(t)
        /\ \A k \in 1..Len(t) : t[k] \in Message
    BY <2>1, LenProperties
  <2>3. CASE lost[p]
    <3>1. PICK k \in 1..Len(t) : ~(Len(t[k]) <= Whole)
      BY <2>1, <2>3 DEF Short
    <3>2. Len(t[k]) \in Nat
      BY <2>2, FrameType
    <3>3. Len(t[k]) > Whole
      BY <3>1, <3>2, WholeAssumption
    <3>. QED  BY <2>2, <2>3, <3>3 DEF t
  <2>4. CASE ~lost[p]
    <3>1. SubSeq(s, 1, Len(s)) = SubSeq(t, 1, Len(s))
      <4>1. \A i \in 1..Len(s) : s[i] = t[i]
        BY <2>1, <2>2, <2>4
      <4>. QED  BY <2>1, <2>2, <2>4, <4>1
    <3>2. IsPrefix(s, t)
      BY <2>1, <2>2, <2>4, <3>1 DEF IsPrefix
    <3>. QED  BY <2>1, <2>4, <3>2 DEF s, t
  <2>. QED  BY <2>3, <2>4
<1>. QED  BY <1>1, Invariance, PTL
=============================================================================
