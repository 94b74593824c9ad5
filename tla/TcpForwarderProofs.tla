------------------------- MODULE TcpForwarderProofs -------------------------
(***************************************************************************)
(* The requests and the replies of the DNS-over-TCP forwarder, for any     *)
(* replies, any cut of the stream, and any number of requests and broken   *)
(* connections.                                                            *)
(***************************************************************************)
EXTENDS TcpForwarder, SequenceTheorems, TLAPS

-----------------------------------------------------------------------------
(* Strings of bytes.                                                       *)

LEMMA BytesAssociative ==
    \A f, g, h \in Seq(Byte) : (f \o g) \o h = f \o (g \o h)
<1>. SUFFICES ASSUME NEW f \in Seq(Byte), NEW g \in Seq(Byte), NEW h \in Seq(Byte)
              PROVE  (f \o g) \o h = f \o (g \o h)
  OBVIOUS
<1>. QED  BY ConcatAssociative

LEMMA BytesJoin ==
    \A f, g \in Seq(Byte) : f \o g \in Seq(Byte)
<1>. SUFFICES ASSUME NEW f \in Seq(Byte), NEW g \in Seq(Byte)
              PROVE  f \o g \in Seq(Byte)
  OBVIOUS
<1>. QED  BY ConcatProperties

LEMMA BytesLength ==
    \A f, g \in Seq(Byte) : Len(f \o g) = Len(f) + Len(g)
<1>. SUFFICES ASSUME NEW f \in Seq(Byte), NEW g \in Seq(Byte)
              PROVE  Len(f \o g) = Len(f) + Len(g)
  OBVIOUS
<1>. QED  BY ConcatProperties

(* A string is cut in one place into two of given lengths in one way only. *)
LEMMA SameCut ==
    \A a, b, c, d \in Seq(Byte) :
        a \o b = c \o d /\ Len(a) = Len(c) => a = c /\ b = d
<1>. SUFFICES ASSUME NEW a \in Seq(Byte), NEW b \in Seq(Byte), NEW c \in Seq(Byte),
                     NEW d \in Seq(Byte), a \o b = c \o d, Len(a) = Len(c)
              PROVE  a = c /\ b = d
  OBVIOUS
<1>1. Len(a) \in Nat /\ Len(b) \in Nat /\ Len(d) \in Nat
  BY LenProperties
<1>2. ASSUME NEW i \in 1..Len(a)
      PROVE  a[i] = c[i]
  <2>1. i <= Len(a) /\ i \in 1..(Len(a) + Len(b)) /\ i \in 1..(Len(c) + Len(d)) /\ i <= Len(c)
    BY <1>1
  <2>2. (a \o b)[i] = a[i]
    BY <2>1, ConcatProperties
  <2>3. (c \o d)[i] = c[i]
    BY <2>1, ConcatProperties
  <2>. QED  BY <2>2, <2>3
<1>3. a = c
  BY <1>2, SeqEqual
<1>4. Len(b) = Len(d)
  <2>1. Len(a \o b) = Len(a) + Len(b) /\ Len(c \o d) = Len(c) + Len(d)
    BY ConcatProperties
  <2>. QED  BY <1>1, <2>1
<1>5. ASSUME NEW i \in 1..Len(b)
      PROVE  b[i] = d[i]
  <2>. DEFINE j == Len(a) + i
  <2>1. /\ j \in 1..(Len(a) + Len(b)) /\ ~(j <= Len(a)) /\ j - Len(a) = i
        /\ j \in 1..(Len(c) + Len(d)) /\ ~(j <= Len(c)) /\ j - Len(c) = i
    BY <1>1, <1>4
  <2>. HIDE DEF j
  <2>2. (a \o b)[j] = IF j <= Len(a) THEN a[j] ELSE b[j - Len(a)]
    BY <2>1, ConcatProperties
  <2>3. (c \o d)[j] = IF j <= Len(c) THEN c[j] ELSE d[j - Len(c)]
    BY <2>1, ConcatProperties
  <2>. QED  BY <2>1, <2>2, <2>3
<1>6. b = d
  BY <1>4, <1>5, SeqEqual
<1>. QED  BY <1>3, <1>6

-----------------------------------------------------------------------------
(* Frames: what is written, and what a reader makes of it.                 *)

(* Two bytes always make a length. *)
LEMMA LengthType ==
    /\ MaxLen \in Nat
    /\ \A b, c \in Byte : b * 256 + c \in 0..MaxLen
<1>1. MaxLen \in Nat
  BY DEF MaxLen
<1>2. \A b, c \in Byte : b * 256 + c \in Nat /\ b * 256 + c <= MaxLen
  BY DEF Byte, MaxLen
<1>. QED  BY <1>1, <1>2

(* A length of two bytes, taken apart and put together. *)
LEMMA LengthBytes ==
    ASSUME NEW n \in Nat, n <= MaxLen
    PROVE  /\ n % 65536 = n
           /\ n \div 256 \in Byte /\ n % 256 \in Byte
           /\ (n \div 256) * 256 + (n % 256) = n
<1>1. n < 65536
  BY DEF MaxLen
<1>2. n % 65536 = n
  BY <1>1
<1>3. n \div 256 \in Byte /\ n % 256 \in Byte
  BY <1>1 DEF Byte
<1>4. (n \div 256) * 256 + (n % 256) = n
  BY <1>1
<1>. QED  BY <1>2, <1>3, <1>4

(* The bytes of a length, of a message, and those a reader took of a frame. *)
Header(n) == <<n \div 256, n % 256>>
Frame(m) == Writes(m)[1] \o Writes(m)[2]
Consumed(r) == IF r.len = 0 THEN r.buf ELSE Header(r.len) \o r.buf

(* What a reader holds is short of what it reads. *)
ShortOfNeed(r) == Len(r.buf) < IF r.len = 0 THEN 2 ELSE r.len

LEMMA HeaderType ==
    ASSUME NEW n \in Nat, n <= MaxLen
    PROVE  /\ Header(n) \in Seq(Byte) /\ 2 <= Len(Header(n)) /\ Len(Header(n)) <= 2
           /\ Header(n)[1] * 256 + Header(n)[2] = n
<1>1. /\ n \div 256 \in Byte /\ n % 256 \in Byte
      /\ (n \div 256) * 256 + (n % 256) = n
  BY LengthBytes
<1>2. Header(n) \in Seq(Byte) /\ 2 <= Len(Header(n)) /\ Len(Header(n)) <= 2
  BY <1>1 DEF Header
<1>3. Header(n)[1] = n \div 256 /\ Header(n)[2] = n % 256
  BY DEF Header
<1>. QED  BY <1>1, <1>2, <1>3

(* The length that goes first is the length the reader makes of it. *)
LEMMA FrameType ==
    ASSUME NEW m \in Message
    PROVE  /\ m \in Seq(Byte) /\ Len(m) \in Nat /\ Len(m) >= 2 /\ Len(m) <= MaxLen
           /\ Writes(m) = << Header(Len(m)), m >>
           /\ Header(Len(m)) \in Seq(Byte)
           /\ 2 <= Len(Header(Len(m))) /\ Len(Header(Len(m))) <= 2
           /\ Frame(m) = Header(Len(m)) \o m
           /\ Frame(m) \in Seq(Byte) /\ Len(Frame(m)) = Len(m) + 2
<1>. DEFINE n == Len(m)
<1>1. m \in Seq(Byte) /\ n \in Nat /\ n >= 2 /\ n <= MaxLen
  <2>1. m \in Seq(Byte) /\ n \in 2..MaxLen
    BY MessageAssumption
  <2>. QED  BY <2>1, LengthType
<1>2. Writes(m) = << Header(n), m >>
  <2>1. n % 65536 = n
    <3>. HIDE DEF n
    <3>. QED  BY <1>1, LengthBytes
  <2>. QED  BY <2>1 DEF Writes, Header
<1>. HIDE DEF n
<1>3. Header(n) \in Seq(Byte) /\ 2 <= Len(Header(n)) /\ Len(Header(n)) <= 2
  BY <1>1, HeaderType
<1>4. Frame(m) = Header(n) \o m
  BY <1>2 DEF Frame
<1>5. Frame(m) \in Seq(Byte) /\ Len(Frame(m)) = Len(m) + 2
  <2>1. Frame(m) \in Seq(Byte) /\ Len(Frame(m)) = Len(Header(n)) + Len(m)
    BY <1>1, <1>3, <1>4, ConcatProperties
  <2>. QED  BY <1>1, <1>3, <2>1 DEF n
<1>. QED  BY <1>1, <1>2, <1>3, <1>4, <1>5 DEF n

(* A poll of read_exact takes its bytes off the front of the stream: all it  *)
(* needs, or all there are.                                                  *)
LEMMA FillSplit ==
    ASSUME NEW buf \in Seq(Byte), NEW need \in Nat, NEW bytes \in Seq(Byte),
           Len(buf) <= need
    PROVE  /\ Fill(buf, need, bytes).buf \in Seq(Byte)
           /\ Fill(buf, need, bytes).rest \in Seq(Byte)
           /\ Fill(buf, need, bytes).buf \o Fill(buf, need, bytes).rest = buf \o bytes
           /\ Len(Fill(buf, need, bytes).rest) <= Len(bytes)
           /\ Len(Fill(buf, need, bytes).buf) <= need
           /\ Len(Fill(buf, need, bytes).buf) < need => Fill(buf, need, bytes).rest = <<>>
<1>. DEFINE k == Min({need - Len(buf), Len(bytes)})
            a == SubSeq(bytes, 1, k)
            b == SubSeq(bytes, k + 1, Len(bytes))
<1>1. /\ need - Len(buf) \in Nat /\ Len(bytes) \in Nat /\ Len(buf) \in Nat
      /\ \A i \in 1..Len(bytes) : bytes[i] \in Byte
  BY LenProperties
<1>2. k \in 0..Len(bytes) /\ (k = need - Len(buf) \/ (k < need - Len(buf) /\ k = Len(bytes)))
  <2>1. PICK m \in {need - Len(buf), Len(bytes)} :
           \A y \in {need - Len(buf), Len(bytes)} : m =< y
    BY <1>1
  <2>2. /\ k \in {need - Len(buf), Len(bytes)}
        /\ \A y \in {need - Len(buf), Len(bytes)} : k =< y
    BY <2>1 DEF Min
  <2>. HIDE DEF k
  <2>. QED  BY <1>1, <2>2
<1>3. Fill(buf, need, bytes) = [buf |-> buf \o a, rest |-> b]
  BY DEF Fill
<1>. HIDE DEF k
<1>4. /\ a \in Seq(Byte) /\ Len(a) = k
      /\ b \in Seq(Byte) /\ Len(b) = Len(bytes) - k
  BY <1>1, <1>2, SubSeqProperties
<1>5. a \o b = bytes
  <2>1. 1 \in 1..(Len(bytes) + 1) /\ k \in (1 - 1)..Len(bytes) /\ Len(bytes) \in k..Len(bytes)
    BY <1>1, <1>2
  <2>2. a \o b = SubSeq(bytes, 1, Len(bytes))
    BY <2>1, ConcatAdjacentSubSeq
  <2>. QED  BY <2>2, SubSeqFull
<1>. HIDE DEF a, b
<1>6. /\ buf \o a \in Seq(Byte) /\ Len(buf \o a) = Len(buf) + k
      /\ (buf \o a) \o b = buf \o bytes
  <2>1. (buf \o a) \o b = buf \o (a \o b)
    BY <1>4, BytesAssociative, Zenon
  <2>2. buf \o a \in Seq(Byte) /\ Len(buf \o a) = Len(buf) + Len(a)
    BY <1>4, ConcatProperties
  <2>. QED  BY <1>4, <1>5, <2>1, <2>2
<1>7. Fill(buf, need, bytes).buf = buf \o a /\ Fill(buf, need, bytes).rest = b
  BY <1>3
<1>8. Len(b) <= Len(bytes)
  BY <1>1, <1>2, <1>4
<1>9. /\ Len(buf \o a) <= need
      /\ Len(buf \o a) < need => b = <<>>
  <2>1. CASE k = need - Len(buf)
    BY <1>1, <1>6, <2>1
  <2>2. CASE k < need - Len(buf) /\ k = Len(bytes)
    <3>1. Len(b) = 0
      BY <1>1, <1>4, <2>2
    <3>2. b = <<>>
      BY <1>4, <3>1, EmptySeq
    <3>3. Len(buf \o a) < need
      BY <1>1, <1>6, <2>2
    <3>. QED  BY <3>2, <3>3
  <2>. QED  BY <1>2, <2>1, <2>2
<1>. QED  BY <1>4, <1>6, <1>7, <1>8, <1>9

(* A poll never takes more than the stream has, so what it takes and what it *)
(* leaves are bytes; and it is pending only if it leaves none.               *)
LEMMA PollType ==
    ASSUME NEW r \in Reader, ShortOfNeed(r), NEW bytes \in Seq(Byte)
    PROVE  LET poll == Poll(r, bytes)
           IN  /\ poll.res \in {"pending", "message", "error"}
               /\ poll.rest \in Seq(Byte) /\ Len(poll.rest) <= Len(bytes)
               /\ poll.reader \in Reader /\ ShortOfNeed(poll.reader)
               /\ poll.res = "message" => poll.msg \in Seq(Byte)
               /\ poll.res = "pending" => poll.rest = <<>>
<1>. DEFINE head == IF r.len = 0 THEN Fill(r.buf, 2, bytes)
                    ELSE [buf |-> <<>>, rest |-> bytes]
            len  == IF r.len = 0 THEN head.buf[1] * 256 + head.buf[2] ELSE r.len
            buf  == IF r.len = 0 THEN <<>> ELSE r.buf
            body == Fill(buf, len, head.rest)
<1>1. /\ r.len \in 0..MaxLen /\ r.len \in Nat
      /\ r.buf \in Seq(Byte) /\ Len(r.buf) \in Nat
  <2>1. r.len \in 0..MaxLen /\ r.buf \in Seq(Byte)
    BY DEF Reader
  <2>. QED  BY <2>1, LengthType, LenProperties
<1>2. /\ head.buf \in Seq(Byte) /\ head.rest \in Seq(Byte)
      /\ Len(head.rest) <= Len(bytes) /\ Len(head.rest) \in Nat /\ Len(bytes) \in Nat
      /\ (r.len = 0 /\ Len(head.buf) < 2) => head.rest = <<>>
  <2>1. CASE r.len = 0
    <3>1. Len(r.buf) <= 2 /\ 2 \in Nat
      BY <1>1, <2>1 DEF ShortOfNeed
    <3>2. head = Fill(r.buf, 2, bytes)
      BY <2>1
    <3>. HIDE DEF head
    <3>. QED  BY <1>1, <3>1, <3>2, FillSplit, LenProperties
  <2>2. CASE r.len # 0
    BY <2>2, EmptySeq, LenProperties
  <2>. QED  BY <2>1, <2>2
<1>3. NewReader \in Reader /\ ShortOfNeed(NewReader)
  BY LengthType, EmptySeq DEF NewReader, Reader, ShortOfNeed
<1>4. Poll(r, bytes) =
        IF r.len = 0 /\ Len(head.buf) < 2
        THEN [res |-> "pending", reader |-> [len |-> 0, buf |-> head.buf],
              rest |-> head.rest]
        ELSE IF Len(body.buf) < len
        THEN [res |-> "pending", reader |-> [len |-> len, buf |-> body.buf],
              rest |-> body.rest]
        ELSE [res |-> IF len >= 2 THEN "message" ELSE "error", msg |-> body.buf,
              reader |-> NewReader, rest |-> body.rest]
  BY DEF Poll
<1>. HIDE DEF head
<1>5. CASE r.len = 0 /\ Len(head.buf) < 2
  <2>1. [len |-> 0, buf |-> head.buf] \in Reader /\ ShortOfNeed([len |-> 0, buf |-> head.buf])
    BY LengthType, <1>2, <1>5 DEF Reader, ShortOfNeed
  <2>2. head.rest = <<>>
    BY <1>2, <1>5, Zenon
  <2>3. Poll(r, bytes) = [res |-> "pending", reader |-> [len |-> 0, buf |-> head.buf],
                          rest |-> head.rest]
    BY <1>4, <1>5
  <2>. QED  BY <1>2, <2>1, <2>2, <2>3
<1>6. CASE ~(r.len = 0 /\ Len(head.buf) < 2)
  <2>1. Len(head.buf) \in Nat /\ \A i \in 1..Len(head.buf) : head.buf[i] \in Byte
    BY <1>2, LenProperties
  <2>2. len \in 0..MaxLen /\ len \in Nat
    <3>1. CASE r.len = 0
      <4>1. Len(head.buf) >= 2
        BY <1>6, <2>1, <3>1
      <4>2. head.buf[1] \in Byte /\ head.buf[2] \in Byte
        BY <2>1, <4>1
      <4>. QED  BY <3>1, <4>2, LengthType
    <3>2. CASE r.len # 0
      BY <1>1, <3>2
    <3>. QED  BY <3>1, <3>2
  <2>3. buf \in Seq(Byte) /\ Len(buf) <= len
    BY <1>1, <2>2, EmptySeq DEF ShortOfNeed
  <2>. HIDE DEF len, buf
  <2>4. /\ body.buf \in Seq(Byte) /\ body.rest \in Seq(Byte)
        /\ Len(body.rest) <= Len(head.rest)
        /\ Len(body.buf) < len => body.rest = <<>>
    BY <1>2, <2>2, <2>3, FillSplit
  <2>. HIDE DEF body
  <2>5. Len(body.rest) <= Len(bytes)
    BY <1>2, <2>4, LenProperties
  <2>6. CASE Len(body.buf) < len
    <3>1. [len |-> len, buf |-> body.buf] \in Reader
      BY <2>2, <2>4 DEF Reader
    <3>2. ShortOfNeed([len |-> len, buf |-> body.buf])
      BY <2>2, <2>4, <2>6, LenProperties DEF ShortOfNeed
    <3>3. body.rest = <<>>
      BY <2>2, <2>4, <2>6
    <3>4. Poll(r, bytes) = [res |-> "pending", reader |-> [len |-> len, buf |-> body.buf],
                            rest |-> body.rest]
      BY <1>4, <1>6, <2>6
    <3>. QED  BY <2>4, <2>5, <3>1, <3>2, <3>3, <3>4
  <2>7. CASE ~(Len(body.buf) < len)
    <3>1. Poll(r, bytes) = [res |-> IF len >= 2 THEN "message" ELSE "error",
                            msg |-> body.buf, reader |-> NewReader, rest |-> body.rest]
      BY <1>4, <1>6, <2>7
    <3>. QED  BY <1>3, <2>4, <2>5, <3>1
  <2>. QED  BY <2>6, <2>7
<1>. QED  BY <1>5, <1>6


-----------------------------------------------------------------------------
(* The inductive invariant.                                                *)

(* The requests taken off the queue: all those made but the ones in it. *)
Taken == made - Len(fromBridge)

(* The queue holds the youngest requests, in order. *)
QueueInv ==
    /\ Len(fromBridge) <= made
    /\ \A k \in DOMAIN fromBridge : fromBridge[k] = Taken + k

(* The request being written is the last one taken, and upstream has others, *)
(* older than it; answers are due for requests that upstream received.       *)
OrderInv ==
    /\ cur # NoOne => cur = Taken
    /\ \A j \in DOMAIN asked : j <= asked[j] /\ asked[j] <= Taken /\ asked[j] # cur
    /\ RequestsInOrder
    /\ due <= Len(asked)

LinkInv ==
    /\ TypeOK
    /\ ShortOfNeed(reader)

IInv == LinkInv /\ QueueInv /\ OrderInv /\ NoneForgotten

LEMMA InvInit == Init => IInv
<1>. SUFFICES ASSUME Init PROVE IInv
  OBVIOUS
<1>1. NewReader \in Reader /\ ShortOfNeed(NewReader)
  BY LengthType, EmptySeq DEF NewReader, Reader, ShortOfNeed
<1>2. TypeOK
  <2>1. /\ <<>> \in Seq(Request) /\ <<>> \in Seq(Byte) /\ <<>> \in Seq(Seq(Byte))
        /\ <<>> \in Seq(Message)
    BY EmptySeq
  <2>2. 0 \in 0..MaxRequests /\ 0 \in 0..MaxBreaks
    BY BoundsAssumption
  <2>. QED  BY <1>1, <2>1, <2>2 DEF Init, TypeOK, NoOne
<1>3. QueueInv /\ OrderInv
  BY EmptySeq DEF Init, QueueInv, OrderInv, Taken, RequestsInOrder, NoOne
<1>4. NoneForgotten
  BY DEF Init, NoneForgotten, Range, NoOne
<1>. QED  BY <1>1, <1>2, <1>3, <1>4 DEF IInv, LinkInv, Init

requestVars == <<fromBridge, cur, made, asked, lost>>

(* A step that moves no request. *)
LEMMA KeepsRequests ==
    ASSUME IInv, UNCHANGED requestVars, due' <= due, due' \in Nat
    PROVE  QueueInv' /\ OrderInv' /\ NoneForgotten'
<1>1. QueueInv' /\ NoneForgotten'
  BY DEF IInv, requestVars, QueueInv, Taken, NoneForgotten
<1>2. due \in Nat /\ Len(asked) \in Nat
  BY LenProperties, BoundsAssumption DEF IInv, LinkInv, TypeOK
<1>3. OrderInv'
  BY <1>2 DEF IInv, requestVars, OrderInv, Taken, RequestsInOrder
<1>. QED  BY <1>1, <1>3

(* The steps of the forwarder, and of its environment, that move none.       *)
LEMMA LoopLinkStep ==
    ASSUME IInv, ConnectNow \/ Connect \/ DnsFromNet \/ Disconnected \/ Shutdown
    PROVE  LinkInv' /\ UNCHANGED requestVars /\ due' <= due /\ due' \in Nat
<1>. USE DEF IInv, LinkInv
<1>1. due \in 0..MaxRequests /\ due \in Nat /\ 0 \in 0..MaxRequests
  BY BoundsAssumption DEF TypeOK
<1>2. NewReader \in Reader /\ ShortOfNeed(NewReader)
  BY LengthType, EmptySeq DEF NewReader, Reader, ShortOfNeed
<1>3. <<>> \in Seq(Byte) /\ <<>> \in Seq(Seq(Byte)) /\ <<>> \in Seq(Message)
  BY EmptySeq
<1>4. CASE ConnectNow
  BY <1>1, <1>4 DEF ConnectNow, TypeOK, requestVars, linkVars, history
<1>5. CASE Connect
  <2>1. cut' \in BOOLEAN
    BY <1>5 DEF Connect
  <2>. QED  BY <1>1, <1>3, <1>5, <2>1 DEF Connect, TypeOK, requestVars
<1>6. CASE DnsFromNet
  <2>. DEFINE poll == Poll(reader, stream)
  <2>1. /\ poll.rest \in Seq(Byte)
        /\ poll.reader \in Reader /\ ShortOfNeed(poll.reader)
        /\ poll.res = "message" => poll.msg \in Seq(Byte)
    BY PollType DEF TypeOK
  <2>2. /\ state = "Connected"
        /\ UNCHANGED <<fromBridge, cur, bridgeUp, stop, made, asked, lost, replies, cut>>
    BY <1>6 DEF DnsFromNet
  <2>3. CASE /\ poll.res = "pending" /\ reader' = poll.reader /\ stream' = poll.rest
             /\ UNCHANGED <<state, delivered, conn, net, due, breaks>>
    <3>. HIDE DEF poll
    <3>. QED  BY <1>1, <2>1, <2>2, <2>3 DEF TypeOK, requestVars
  <2>4. CASE /\ poll.res = "message" /\ reader' = NewReader /\ stream' = poll.rest
             /\ delivered' = Append(delivered, poll.msg)
             /\ UNCHANGED <<state, conn, net, due, breaks>>
    <3>. HIDE DEF poll
    <3>1. delivered' \in Seq(Seq(Byte))
      BY <2>1, <2>4, AppendProperties DEF TypeOK
    <3>. QED  BY <1>1, <1>2, <2>1, <2>2, <2>4, <3>1 DEF TypeOK, requestVars
  <2>5. CASE state' \in {"ended", "Waiting"} /\ DropConnection /\ UNCHANGED delivered
    BY <1>1, <1>2, <1>3, <2>2, <2>5 DEF DropConnection, TypeOK, requestVars
  <2>. QED  BY <1>6, <2>3, <2>4, <2>5 DEF DnsFromNet
<1>7. CASE Disconnected \/ Shutdown
  <2>1. /\ state \in {"Waiting", "Connecting", "Connected"}
        /\ state' \in {"Waiting", "ended"} /\ DropConnection
        /\ UNCHANGED <<fromBridge, cur, bridgeUp, stop, made, history>>
    BY <1>7 DEF Disconnected, Shutdown, TypeOK
  <2>. QED  BY <1>1, <1>2, <1>3, <2>1 DEF DropConnection, TypeOK, requestVars, history
<1>. QED  BY <1>4, <1>5, <1>6, <1>7

LEMMA EnvironmentLinkStep ==
    ASSUME IInv,
           BridgeEnds \/ CallShutdown \/ (\E m \in Message : Answer(m)) \/ Arrive \/ Close
    PROVE  LinkInv' /\ UNCHANGED requestVars /\ due' <= due /\ due' \in Nat
<1>. USE DEF IInv, LinkInv
<1>1. due \in 0..MaxRequests /\ due \in Nat /\ MaxRequests \in Nat
  BY BoundsAssumption DEF TypeOK
<1>2. CASE BridgeEnds \/ CallShutdown
  <2>1. /\ bridgeUp' \in BOOLEAN /\ stop' \in BOOLEAN
        /\ UNCHANGED <<fwdVars, made, linkVars, history>>
    BY <1>2 DEF BridgeEnds, CallShutdown, TypeOK
  <2>. QED  BY <1>1, <2>1 DEF TypeOK, requestVars, fwdVars, linkVars, history
<1>3. ASSUME NEW m \in Message, Answer(m)
      PROVE  LinkInv' /\ UNCHANGED requestVars /\ due' <= due /\ due' \in Nat
  <2>1. due' = due - 1 /\ due' \in 0..MaxRequests /\ due' \in Nat
    BY <1>1, <1>3 DEF Answer
  <2>2. net' \in Seq(Seq(Byte)) /\ replies' \in Seq(Message)
    BY <1>3, FrameType, AppendProperties DEF Answer, TypeOK, Frame
  <2>. QED  BY <1>1, <1>3, <2>1, <2>2 DEF Answer, TypeOK, requestVars, fwdVars
<1>4. CASE Arrive
  <2>. DEFINE first == Head(net)
  <2>1. first \in Seq(Byte) /\ Tail(net) \in Seq(Seq(Byte)) /\ Len(first) \in Nat
    BY <1>4, HeadTailProperties, LenProperties DEF Arrive, TypeOK
  <2>2. PICK k \in IF WholeFrames THEN {Len(first)} ELSE 1..Len(first) :
           /\ stream' = stream \o SubSeq(first, 1, k)
           /\ net' = IF k = Len(first) THEN Tail(net)
                     ELSE <<SubSeq(first, k + 1, Len(first))>> \o Tail(net)
    BY <1>4 DEF Arrive
  <2>3. /\ conn # "none"
        /\ UNCHANGED <<fwdVars, bridgeUp, stop, made, conn, due, breaks, history>>
    BY <1>4 DEF Arrive, TypeOK
  <2>. HIDE DEF first
  <2>4. k \in 0..Len(first)
    BY <2>1, <2>2
  <2>5. \A i \in 1..Len(first) : first[i] \in Byte
    BY <2>1, LenProperties
  <2>6. /\ SubSeq(first, 1, k) \in Seq(Byte)
        /\ SubSeq(first, k + 1, Len(first)) \in Seq(Byte)
    BY <2>1, <2>4, <2>5, SubSeqProperties
  <2>7. stream' \in Seq(Byte)
    BY <2>2, <2>6, ConcatProperties DEF TypeOK
  <2>8. net' \in Seq(Seq(Byte))
    <3>1. <<SubSeq(first, k + 1, Len(first))>> \in Seq(Seq(Byte))
      BY <2>6
    <3>. QED  BY <2>1, <2>2, <3>1, ConcatProperties
  <2>. QED  BY <1>1, <2>3, <2>7, <2>8 DEF TypeOK, requestVars, fwdVars, history
<1>5. CASE Close
  BY <1>1, <1>5, EmptySeq, BoundsAssumption
  DEF Close, TypeOK, requestVars, fwdVars, history
<1>. QED  BY <1>2, <1>3, <1>4, <1>5

-----------------------------------------------------------------------------
(* The steps that move a request.                                          *)

LEMMA RangeTail ==
    ASSUME NEW S, NEW s \in Seq(S), s # <<>>
    PROVE  Range(s) = {Head(s)} \cup Range(Tail(s))
<1>1. /\ Len(s) \in Nat \ {0} /\ DOMAIN s = 1..Len(s)
      /\ Tail(s) \in Seq(S) /\ Len(Tail(s)) = Len(s) - 1
      /\ DOMAIN Tail(s) = 1..(Len(s) - 1)
      /\ \A i \in 1..(Len(s) - 1) : Tail(s)[i] = s[i + 1]
      /\ Head(s) = s[1]
  BY EmptySeq, LenProperties, HeadTailProperties
<1>2. \A k \in DOMAIN s : k = 1 \/ (k - 1 \in DOMAIN Tail(s) /\ s[k] = Tail(s)[k - 1])
  BY <1>1
<1>3. \A i \in DOMAIN Tail(s) : i + 1 \in DOMAIN s /\ Tail(s)[i] = s[i + 1]
  BY <1>1
<1>4. 1 \in DOMAIN s
  BY <1>1
<1>5. Range(s) \subseteq {Head(s)} \cup Range(Tail(s))
  <2>. SUFFICES ASSUME NEW k \in DOMAIN s PROVE s[k] \in {Head(s)} \cup Range(Tail(s))
    BY DEF Range
  <2>. QED  BY <1>1, <1>2 DEF Range
<1>6. {Head(s)} \cup Range(Tail(s)) \subseteq Range(s)
  <2>1. Head(s) \in Range(s)
    BY <1>1, <1>4 DEF Range
  <2>2. ASSUME NEW i \in DOMAIN Tail(s) PROVE Tail(s)[i] \in Range(s)
    BY <1>3 DEF Range
  <2>. QED  BY <2>1, <2>2 DEF Range
<1>. QED  BY <1>5, <1>6

LEMMA RangeAppend ==
    ASSUME NEW S, NEW s \in Seq(S), NEW x \in S
    PROVE  Range(Append(s, x)) = Range(s) \cup {x}
<1>1. /\ Len(s) \in Nat /\ DOMAIN s = 1..Len(s)
      /\ DOMAIN Append(s, x) = 1..(Len(s) + 1)
      /\ \A i \in 1..Len(s) : Append(s, x)[i] = s[i]
      /\ Append(s, x)[Len(s) + 1] = x
  BY LenProperties, AppendProperties
<1>. QED  BY <1>1 DEF Range

LEMMA QueueStep ==
    ASSUME IInv, Queue
    PROVE  IInv'
<1>. USE DEF IInv, LinkInv
<1>1. /\ made \in Nat /\ made < MaxRequests /\ MaxRequests \in Nat
      /\ made' = made + 1 /\ fromBridge' = Append(fromBridge, made + 1)
      /\ UNCHANGED <<state, cur, reader, bridgeUp, stop, linkVars, history>>
  BY BoundsAssumption DEF Queue, TypeOK
<1>2. /\ fromBridge' \in Seq(Request) /\ Len(fromBridge') = Len(fromBridge) + 1
      /\ Len(fromBridge) \in Nat
      /\ DOMAIN fromBridge = 1..Len(fromBridge) /\ DOMAIN fromBridge' = 1..(Len(fromBridge) + 1)
      /\ \A k \in 1..Len(fromBridge) : fromBridge'[k] = fromBridge[k]
      /\ fromBridge'[Len(fromBridge) + 1] = made + 1
  BY <1>1, LenProperties, AppendProperties DEF TypeOK, Request
<1>3. TypeOK' /\ ShortOfNeed(reader)'
  BY <1>1, <1>2 DEF TypeOK, linkVars, history
<1>4. Taken' = Taken
  BY <1>1, <1>2 DEF Taken
<1>5. QueueInv'
  BY <1>1, <1>2, <1>4 DEF QueueInv, Taken
<1>6. OrderInv'
  BY <1>1, <1>4 DEF OrderInv, RequestsInOrder, linkVars, history
<1>7. NoneForgotten'
  <2>1. Range(fromBridge') = Range(fromBridge) \cup {made + 1}
    <3>1. made + 1 \in Request /\ fromBridge \in Seq(Request)
      BY <1>1 DEF TypeOK, Request
    <3>. QED  BY <1>1, <3>1, RangeAppend
  <2>2. 1..made' = 1..made \cup {made + 1}
    BY <1>1
  <2>. QED  BY <1>1, <2>1, <2>2 DEF NoneForgotten, history
<1>. QED  BY <1>3, <1>5, <1>6, <1>7

LEMMA TakeStep ==
    ASSUME IInv, DnsFromBridge
    PROVE  IInv'
<1>. USE DEF IInv, LinkInv
<1>1. /\ state = "Connected" /\ state' = "Sending" /\ cur = NoOne
      /\ cur' = Head(fromBridge) /\ fromBridge' = Tail(fromBridge)
      /\ reader' = NewReader
      /\ UNCHANGED <<bridgeUp, stop, made, linkVars, asked, lost, replies, delivered>>
  BY DEF DnsFromBridge, TypeOK
<1>0. cut' \in BOOLEAN
  BY DEF DnsFromBridge, TypeOK
<1>2. /\ fromBridge # <<>> /\ fromBridge \in Seq(Request) /\ made \in Nat
      /\ fromBridge' \in Seq(Request) /\ Len(fromBridge') = Len(fromBridge) - 1
      /\ Len(fromBridge) \in Nat \ {0}
      /\ DOMAIN fromBridge = 1..Len(fromBridge) /\ DOMAIN fromBridge' = 1..(Len(fromBridge) - 1)
      /\ \A k \in 1..(Len(fromBridge) - 1) : fromBridge'[k] = fromBridge[k + 1]
      /\ cur' = fromBridge[1] /\ cur' \in Request
  BY <1>1, EmptySeq, LenProperties, HeadTailProperties, BoundsAssumption
  DEF DnsFromBridge, TypeOK
<1>3. NewReader \in Reader /\ ShortOfNeed(NewReader)
  BY LengthType, EmptySeq DEF NewReader, Reader, ShortOfNeed
<1>4. cur' # NoOne
  BY <1>2, BoundsAssumption DEF Request, NoOne
<1>5. TypeOK' /\ ShortOfNeed(reader)'
  BY <1>0, <1>1, <1>2, <1>3, <1>4 DEF TypeOK, linkVars
<1>6. Taken' = Taken + 1 /\ Taken \in Int /\ cur' = Taken + 1
  BY <1>1, <1>2 DEF Taken, QueueInv
<1>7. QueueInv'
  <2>1. Len(fromBridge') <= made'
    BY <1>1, <1>2 DEF QueueInv
  <2>2. ASSUME NEW k \in DOMAIN fromBridge'
        PROVE  fromBridge'[k] = Taken' + k
    <3>1. k \in Nat /\ k + 1 \in DOMAIN fromBridge /\ fromBridge'[k] = fromBridge[k + 1]
      BY <1>2, <2>2
    <3>2. fromBridge[k + 1] = Taken + (k + 1)
      BY <3>1 DEF QueueInv
    <3>. QED  BY <1>6, <3>1, <3>2
  <2>. QED  BY <2>1, <2>2 DEF QueueInv
<1>8. OrderInv'
  <2>1. ASSUME NEW j \in DOMAIN asked
        PROVE  j <= asked[j] /\ asked[j] <= Taken + 1 /\ asked[j] # cur'
    <3>1. asked[j] \in Nat
      BY LenProperties, BoundsAssumption DEF TypeOK, Request
    <3>. QED  BY <1>6, <3>1 DEF OrderInv
  <2>. QED  BY <1>1, <1>6, <2>1 DEF OrderInv, RequestsInOrder, linkVars, history
<1>9. NoneForgotten'
  <2>1. Range(fromBridge) = {cur'} \cup Range(fromBridge')
    BY <1>1, <1>2, RangeTail
  <2>. QED  BY <1>1, <1>4, <2>1 DEF NoneForgotten, history
<1>. QED  BY <1>5, <1>7, <1>8, <1>9

LEMMA SendOkStep ==
    ASSUME IInv, SendOk
    PROVE  IInv'
<1>. USE DEF IInv, LinkInv
<1>1. /\ state = "Sending" /\ state' = "Connected" /\ cur' = NoOne
      /\ UNCHANGED <<fromBridge, reader, bridgeUp, stop, made, conn, net, stream, breaks,
                     replies, delivered, cut>>
      /\ cur # NoOne /\ cur \in Request /\ cur \in Nat /\ MaxRequests \in Nat
      /\ due \in Nat
  BY BoundsAssumption DEF SendOk, TypeOK, Request
<1>2. Taken' = Taken
  BY <1>1 DEF Taken
<1>3. QueueInv'
  BY <1>1, <1>2 DEF QueueInv
<1>4. /\ Len(asked) \in Nat /\ DOMAIN asked = 1..Len(asked) /\ asked \in Seq(Request)
      /\ \A j \in DOMAIN asked : asked[j] \in Nat /\ asked[j] # NoOne
  BY LenProperties, BoundsAssumption DEF TypeOK, Request, NoOne
<1>5. CASE conn = "open"
  <2>1. due' = due + 1 /\ asked' = Append(asked, cur) /\ lost' = lost
    BY <1>5 DEF SendOk
  <2>2. /\ asked' \in Seq(Request) /\ Len(asked') = Len(asked) + 1
        /\ DOMAIN asked' = 1..(Len(asked) + 1)
        /\ \A j \in 1..Len(asked) : asked'[j] = asked[j]
        /\ asked'[Len(asked) + 1] = cur
    BY <1>1, <1>4, <2>1, AppendProperties, LenProperties
  <2>3. cur = Taken /\ \A j \in DOMAIN asked : asked[j] < cur
    BY <1>1, <1>4 DEF OrderInv
  <2>4. Len(asked) + 1 <= cur
    <3>1. CASE Len(asked) = 0
      BY <1>1, <3>1 DEF Request
    <3>2. CASE Len(asked) # 0
      <4>1. Len(asked) \in DOMAIN asked
        BY <1>4, <3>2
      <4>. QED  BY <1>1, <1>4, <2>3, <4>1 DEF OrderInv
    <3>. QED  BY <3>1, <3>2
  <2>5. due + 1 <= Len(asked')
    BY <1>1, <1>4, <2>2 DEF OrderInv
  <2>6. due' \in 0..MaxRequests
    BY <1>1, <1>4, <2>1, <2>2, <2>4, <2>5 DEF Request
  <2>7. TypeOK' /\ ShortOfNeed(reader)'
    BY <1>1, <2>1, <2>2, <2>6 DEF TypeOK
  <2>8. OrderInv'
    <3>1. ASSUME NEW j \in DOMAIN asked'
          PROVE  j <= asked'[j] /\ asked'[j] <= Taken' /\ asked'[j] # cur'
      <4>1. CASE j = Len(asked) + 1
        BY <1>1, <1>2, <2>2, <2>3, <2>4, <4>1
      <4>2. CASE j # Len(asked) + 1
        <5>1. j \in DOMAIN asked /\ asked'[j] = asked[j]
          BY <1>4, <2>2, <4>2
        <5>. QED  BY <1>1, <1>2, <1>4, <5>1 DEF OrderInv
      <4>. QED  BY <4>1, <4>2
    <3>2. RequestsInOrder'
      BY <1>4, <2>2, <2>3 DEF OrderInv, RequestsInOrder
    <3>. QED  BY <1>1, <2>1, <2>5, <3>1, <3>2 DEF OrderInv
  <2>9. NoneForgotten'
    <3>1. Range(asked') = Range(asked) \cup {cur}
      BY <1>1, <1>4, <2>1, RangeAppend
    <3>. QED  BY <1>1, <2>1, <3>1 DEF NoneForgotten
  <2>. QED  BY <1>3, <2>7, <2>8, <2>9
<1>6. CASE conn # "open"
  <2>1. lost' = lost \cup {cur} /\ UNCHANGED <<due, asked>>
    BY <1>6 DEF SendOk
  <2>2. TypeOK' /\ ShortOfNeed(reader)'
    BY <1>1, <2>1 DEF TypeOK
  <2>3. OrderInv'
    BY <1>1, <1>2, <1>4, <2>1 DEF OrderInv, RequestsInOrder
  <2>4. NoneForgotten'
    BY <1>1, <2>1 DEF NoneForgotten
  <2>. QED  BY <1>3, <2>2, <2>3, <2>4
<1>. QED  BY <1>5, <1>6

LEMMA SendFailsStep ==
    ASSUME IInv, SendFails
    PROVE  IInv'
<1>. USE DEF IInv, LinkInv
<1>1. /\ state = "Sending" /\ state' = "Waiting" /\ cur' = NoOne /\ DropConnection
      /\ lost' = lost \cup {cur} /\ cur # NoOne /\ cur \in Request
      /\ UNCHANGED <<fromBridge, bridgeUp, stop, made, asked, replies, delivered, cut>>
  BY DEF SendFails, TypeOK
<1>2. NewReader \in Reader /\ ShortOfNeed(NewReader)
  BY LengthType, EmptySeq DEF NewReader, Reader, ShortOfNeed
<1>3. 0 \in 0..MaxRequests /\ <<>> \in Seq(Byte) /\ <<>> \in Seq(Seq(Byte))
  BY EmptySeq, BoundsAssumption
<1>4. TypeOK' /\ ShortOfNeed(reader)'
  BY <1>1, <1>2, <1>3 DEF TypeOK, DropConnection
<1>5. Taken' = Taken
  BY <1>1 DEF Taken
<1>6. QueueInv'
  BY <1>1, <1>5 DEF QueueInv
<1>7. OrderInv'
  <2>1. /\ Len(asked) \in Nat
        /\ \A j \in DOMAIN asked : asked[j] # NoOne
    BY LenProperties, BoundsAssumption DEF TypeOK, Request, NoOne
  <2>. QED  BY <1>1, <1>5, <2>1 DEF OrderInv, RequestsInOrder, DropConnection
<1>8. NoneForgotten'
  BY <1>1 DEF NoneForgotten
<1>. QED  BY <1>4, <1>6, <1>7, <1>8

-----------------------------------------------------------------------------
LEMMA InvStep == IInv /\ [Next]_vars => IInv'
<1>. SUFFICES ASSUME IInv, [Next]_vars PROVE IInv'
  OBVIOUS
<1>1. CASE UNCHANGED vars
  BY <1>1 DEF vars, fwdVars, linkVars, history, IInv, LinkInv, TypeOK, QueueInv, OrderInv,
              Taken, RequestsInOrder, NoneForgotten
<1>2. CASE ConnectNow \/ Connect \/ DnsFromNet \/ Disconnected \/ Shutdown
  BY <1>2, LoopLinkStep, KeepsRequests DEF IInv
<1>3. CASE BridgeEnds \/ CallShutdown \/ (\E m \in Message : Answer(m)) \/ Arrive \/ Close
  BY <1>3, EnvironmentLinkStep, KeepsRequests DEF IInv
<1>. QED
  BY <1>1, <1>2, <1>3, QueueStep, TakeStep, SendOkStep, SendFailsStep
  DEF Next, Loop, Environment

LEMMA Invariance == Spec => []IInv
  BY InvInit, InvStep, PTL DEF Spec

(* The type invariant, for any messages and bounds; the reader's bytes stay  *)
(* short of what it reads, so that no poll takes a negative number of them.  *)
THEOREM TypeCorrect == Spec => []TypeOK
<1>1. IInv => TypeOK
  BY DEF IInv, LinkInv
<1>. QED  BY <1>1, Invariance, PTL

(* No request reaches the upstream twice or ahead of an earlier one, however *)
(* many connections break and wherever.                                      *)
THEOREM InOrderHolds == Spec => []RequestsInOrder
<1>1. IInv => RequestsInOrder
  BY DEF IInv, OrderInv
<1>. QED  BY <1>1, Invariance, PTL

(* No request is forgotten between the states of the loop: each is queued,   *)
(* being written, with the upstream, or lost with a failed write.            *)
THEOREM NoneForgottenHolds == Spec => []NoneForgotten
<1>1. IInv => NoneForgotten
  BY DEF IInv
<1>. QED  BY <1>1, Invariance, PTL

(* What comes of a poll: the reader waits for what is left of the frame of m, *)
(* or it has m, and rest follows.                                            *)
Polled(poll, z, m, rest) ==
    \/ /\ poll.res = "pending"
       /\ (Consumed(poll.reader) \o poll.rest) \o z = Frame(m) \o rest
       /\ poll.reader.len = 0 \/ poll.reader.len = Len(m)
    \/ /\ poll.res = "message" /\ poll.msg = m /\ poll.reader = NewReader
       /\ poll.rest \o z = rest

(* A reader that took the front of a frame, and finds more of it: after the  *)
(* poll it has the message, and the stream what follows; or it still waits,  *)
(* and what it took, what it finds later and all that follows are the same.  *)
LEMMA PollFrame ==
    ASSUME NEW r \in Reader, ShortOfNeed(r), NEW bytes \in Seq(Byte), NEW z \in Seq(Byte),
           NEW m \in Message, NEW rest \in Seq(Byte)
    PROVE  (Consumed(r) \o bytes) \o z = Frame(m) \o rest =>
              Polled(Poll(r, bytes), z, m, rest)
<1>. DEFINE head == IF r.len = 0 THEN Fill(r.buf, 2, bytes)
                    ELSE [buf |-> <<>>, rest |-> bytes]
            len  == IF r.len = 0 THEN head.buf[1] * 256 + head.buf[2] ELSE r.len
            buf  == IF r.len = 0 THEN <<>> ELSE r.buf
            body == Fill(buf, len, head.rest)
            h    == Header(Len(m))
<1>0. SUFFICES ASSUME (Consumed(r) \o bytes) \o z = Frame(m) \o rest
               PROVE  LET poll == Poll(r, bytes)
                      IN  \/ /\ poll.res = "pending"
                             /\ (Consumed(poll.reader) \o poll.rest) \o z = Frame(m) \o rest
                             /\ poll.reader.len = 0 \/ poll.reader.len = Len(m)
                          \/ /\ poll.res = "message" /\ poll.msg = m
                             /\ poll.reader = NewReader /\ poll.rest \o z = rest
  BY DEF Polled
<1>1. /\ r.len \in Nat /\ r.len <= MaxLen
      /\ r.buf \in Seq(Byte) /\ Len(r.buf) \in Nat
  <2>1. r.len \in 0..MaxLen /\ r.buf \in Seq(Byte)
    BY DEF Reader
  <2>. QED  BY <2>1, LengthType, LenProperties
<1>2. /\ m \in Seq(Byte) /\ Len(m) \in Nat /\ Len(m) >= 2 /\ Len(m) <= MaxLen
      /\ h \in Seq(Byte) /\ 2 <= Len(h) /\ Len(h) <= 2 /\ h[1] * 256 + h[2] = Len(m)
      /\ Frame(m) = h \o m
      /\ Frame(m) \o rest = h \o (m \o rest) /\ m \o rest \in Seq(Byte)
  <2>1. /\ m \in Seq(Byte) /\ Len(m) \in Nat /\ Len(m) >= 2 /\ Len(m) <= MaxLen
        /\ h \in Seq(Byte) /\ 2 <= Len(h) /\ Len(h) <= 2 /\ Frame(m) = h \o m
    BY FrameType
  <2>2. h[1] * 256 + h[2] = Len(m)
    BY <2>1, HeaderType
  <2>. HIDE DEF h
  <2>3. (h \o m) \o rest = h \o (m \o rest)
    BY <2>1, BytesAssociative, Zenon
  <2>4. m \o rest \in Seq(Byte)
    BY <2>1, BytesJoin, Zenon
  <2>. QED  BY <2>1, <2>2, <2>3, <2>4
<1>3. Poll(r, bytes) =
        IF r.len = 0 /\ Len(head.buf) < 2
        THEN [res |-> "pending", reader |-> [len |-> 0, buf |-> head.buf],
              rest |-> head.rest]
        ELSE IF Len(body.buf) < len
        THEN [res |-> "pending", reader |-> [len |-> len, buf |-> body.buf],
              rest |-> body.rest]
        ELSE [res |-> IF len >= 2 THEN "message" ELSE "error", msg |-> body.buf,
              reader |-> NewReader, rest |-> body.rest]
  BY DEF Poll
<1>4. r.len = 0 =>
        /\ head.buf \in Seq(Byte) /\ head.rest \in Seq(Byte)
        /\ head.buf \o head.rest = Consumed(r) \o bytes
        /\ Len(head.buf) <= 2 /\ Len(head.buf) \in Nat
  <2>. SUFFICES ASSUME r.len = 0
                PROVE  /\ head.buf \in Seq(Byte) /\ head.rest \in Seq(Byte)
                       /\ head.buf \o head.rest = Consumed(r) \o bytes
                       /\ Len(head.buf) <= 2 /\ Len(head.buf) \in Nat
    OBVIOUS
  <2>1. Len(r.buf) <= 2 /\ 2 \in Nat
    BY <1>1 DEF ShortOfNeed
  <2>2. head = Fill(r.buf, 2, bytes) /\ Consumed(r) = r.buf
    BY DEF Consumed
  <2>3. /\ Fill(r.buf, 2, bytes).buf \in Seq(Byte)
        /\ Fill(r.buf, 2, bytes).rest \in Seq(Byte)
        /\ Fill(r.buf, 2, bytes).buf \o Fill(r.buf, 2, bytes).rest = r.buf \o bytes
        /\ Len(Fill(r.buf, 2, bytes).buf) <= 2 /\ Len(Fill(r.buf, 2, bytes).buf) \in Nat
    BY <1>1, <2>1, FillSplit, LenProperties
  <2>. HIDE DEF head
  <2>. QED  BY <2>2, <2>3, Zenon
<1>. HIDE DEF head, h
<1>5. h \in Seq(Byte)
  BY <1>2
<1>6. m \in Seq(Byte) /\ m \o rest \in Seq(Byte)
  BY <1>2
<1>7. CASE r.len = 0 /\ Len(head.buf) < 2
  <2>1. Poll(r, bytes) = [res |-> "pending", reader |-> [len |-> 0, buf |-> head.buf],
                          rest |-> head.rest]
    BY <1>3, <1>7
  <2>2. Consumed([len |-> 0, buf |-> head.buf]) = head.buf
    BY DEF Consumed
  <2>3. /\ Poll(r, bytes).res = "pending"
        /\ Poll(r, bytes).reader = [len |-> 0, buf |-> head.buf]
        /\ Poll(r, bytes).rest = head.rest
    BY <2>1
  <2>4. [len |-> 0, buf |-> head.buf].len = 0
    OBVIOUS
  <2>5. (head.buf \o head.rest) \o z = Frame(m) \o rest
    BY <1>0, <1>4, <1>7, Zenon
  <2>. QED  BY <2>2, <2>3, <2>4, <2>5, Zenon
<1>8. CASE ~(r.len = 0 /\ Len(head.buf) < 2)
  (* the length is known, and rest is preceded by the message *)
  <2>1. /\ len = Len(m) /\ buf \in Seq(Byte) /\ Len(buf) <= Len(m)
        /\ head.rest \in Seq(Byte)
        /\ (buf \o head.rest) \o z = m \o rest
    <3>1. CASE r.len = 0
      <4>1. Len(head.buf) >= 2 /\ Len(head.buf) <= 2 /\ head.buf \in Seq(Byte) /\ head.rest \in Seq(Byte)
        BY <1>4, <1>8, <3>1
      <4>2. head.buf \o (head.rest \o z) = h \o (m \o rest)
        <5>1. (head.buf \o head.rest) \o z = head.buf \o (head.rest \o z)
          BY <4>1, BytesAssociative, Zenon
        <5>. QED  BY <1>0, <1>2, <1>4, <3>1, <5>1, Zenon
      <4>3. head.buf = h /\ head.rest \o z = m \o rest
        <5>1. head.rest \o z \in Seq(Byte)
          BY <4>1, BytesJoin, Zenon
        <5>2. Len(head.buf) = Len(h)
          BY <1>2, <4>1
        <5>. QED  BY <1>5, <1>6, <4>1, <4>2, <5>1, <5>2, SameCut
      <4>4. len = Len(m)
        BY <1>2, <3>1, <4>3
      <4>5. buf = <<>> /\ buf \in Seq(Byte) /\ buf \o head.rest = head.rest /\ Len(buf) = 0
        BY <3>1, <4>1, EmptySeq, ConcatEmptySeq
      <4>6. Len(buf) <= Len(m)
        BY <1>2, <4>5
      <4>. QED  BY <4>1, <4>3, <4>4, <4>5, <4>6, Zenon
    <3>2. CASE r.len # 0
      <4>1. head.rest = bytes /\ buf = r.buf /\ len = r.len
        BY <3>2 DEF head
      <4>2. Header(r.len) \in Seq(Byte) /\ 2 <= Len(Header(r.len)) /\ Len(Header(r.len)) <= 2
            /\ Header(r.len)[1] * 256 + Header(r.len)[2] = r.len
        BY <1>1, HeaderType
      <4>3. Header(r.len) \o ((r.buf \o bytes) \o z) = h \o (m \o rest)
        <5>1. Consumed(r) = Header(r.len) \o r.buf
          BY <3>2 DEF Consumed
        <5>2. (Header(r.len) \o r.buf) \o bytes = Header(r.len) \o (r.buf \o bytes)
          BY <1>1, <4>2, BytesAssociative, Zenon
        <5>3. r.buf \o bytes \in Seq(Byte)
          BY <1>1, BytesJoin, Zenon
        <5>4. (Header(r.len) \o (r.buf \o bytes)) \o z
                = Header(r.len) \o ((r.buf \o bytes) \o z)
          BY <4>2, <5>3, BytesAssociative, Zenon
        <5>. QED  BY <1>0, <1>2, <5>1, <5>2, <5>4, Zenon
      <4>4. Header(r.len) = h /\ (r.buf \o bytes) \o z = m \o rest
        <5>. DEFINE g == Header(r.len)
                    x == (r.buf \o bytes) \o z
                    y == m \o rest
        <5>1. x \in Seq(Byte)
          BY <1>1, BytesJoin, Zenon
        <5>2. g \in Seq(Byte) /\ y \in Seq(Byte) /\ g \o x = h \o y /\ Len(g) = Len(h)
          BY <1>2, <4>2, <4>3
        <5>. HIDE DEF g, x, y
        <5>3. g = h /\ x = y
          BY <1>5, <5>1, <5>2, SameCut
        <5>. QED  BY <5>3 DEF g, x, y
      <4>5. len = Len(m)
        BY <1>2, <4>1, <4>2, <4>4
      <4>6. Len(r.buf) < r.len
        BY <3>2 DEF ShortOfNeed
      <4>7. Len(buf) <= Len(m)
        <5>1. r.len = Len(m)
          BY <4>1, <4>5
        <5>. QED  BY <1>1, <1>2, <4>1, <4>6, <5>1
      <4>. QED  BY <1>1, <4>1, <4>4, <4>5, <4>7
    <3>. QED  BY <3>1, <3>2
  <2>. HIDE DEF len, buf
  <2>2. /\ body.buf \in Seq(Byte) /\ body.rest \in Seq(Byte)
        /\ (body.buf \o body.rest) \o z = m \o rest
        /\ Len(body.buf) <= Len(m) /\ Len(body.buf) \in Nat
    <3>1. body = Fill(buf, Len(m), head.rest)
      BY <2>1
    <3>2. /\ body.buf \in Seq(Byte) /\ body.rest \in Seq(Byte)
          /\ body.buf \o body.rest = buf \o head.rest
          /\ Len(body.buf) <= Len(m)
      <4>1. LET f == Fill(buf, Len(m), head.rest)
            IN  /\ f.buf \in Seq(Byte) /\ f.rest \in Seq(Byte)
                /\ f.buf \o f.rest = buf \o head.rest
                /\ Len(f.buf) <= Len(m) /\ (Len(f.buf) < Len(m) => f.rest = <<>>)
        BY <1>2, <2>1, FillSplit
      <4>. HIDE DEF body
      <4>. QED  BY <3>1, <4>1, Zenon
    <3>. HIDE DEF body
    <3>. QED  BY <2>1, <3>2, LenProperties
  <2>. HIDE DEF body
  <2>3. CASE Len(body.buf) < Len(m)
    <3>1. Poll(r, bytes) = [res |-> "pending", reader |-> [len |-> Len(m), buf |-> body.buf],
                            rest |-> body.rest]
      BY <1>3, <1>8, <2>1, <2>3
    <3>2. Consumed([len |-> Len(m), buf |-> body.buf]) = h \o body.buf
      <4>1. Len(m) # 0
        BY <1>2
      <4>. QED  BY <4>1 DEF Consumed, h
    <3>3. body.buf \in Seq(Byte) /\ body.rest \in Seq(Byte)
      BY <2>2
    <3>4. ((h \o body.buf) \o body.rest) \o z = Frame(m) \o rest
      <4>1. (h \o body.buf) \o body.rest = h \o (body.buf \o body.rest)
        BY <1>5, <3>3, BytesAssociative, Zenon
      <4>2. body.buf \o body.rest \in Seq(Byte)
        BY <2>2, BytesJoin, Zenon
      <4>3. (h \o (body.buf \o body.rest)) \o z = h \o ((body.buf \o body.rest) \o z)
        BY <1>5, <4>2, BytesAssociative, Zenon
      <4>. QED  BY <1>2, <2>2, <4>1, <4>3, Zenon
    <3>5. /\ Poll(r, bytes).res = "pending"
          /\ Poll(r, bytes).reader = [len |-> Len(m), buf |-> body.buf]
          /\ Poll(r, bytes).rest = body.rest
      BY <3>1
    <3>6. [len |-> Len(m), buf |-> body.buf].len = Len(m)
      OBVIOUS
    <3>. QED  BY <3>2, <3>4, <3>5, <3>6, Zenon
  <2>4. CASE ~(Len(body.buf) < Len(m))
    <3>1. Len(body.buf) = Len(m) /\ ~(Len(body.buf) < Len(m)) /\ Len(m) >= 2
      BY <1>2, <2>2, <2>4
    <3>2. Poll(r, bytes) = [res |-> "message", msg |-> body.buf, reader |-> NewReader,
                            rest |-> body.rest]
      BY <1>3, <1>8, <2>1, <3>1
    <3>3. body.buf = m /\ body.rest \o z = rest
      <4>1. (body.buf \o body.rest) \o z = body.buf \o (body.rest \o z)
        BY <2>2, BytesAssociative, Zenon
      <4>2. body.rest \o z \in Seq(Byte)
        BY <2>2, BytesJoin, Zenon
      <4>3. body.buf \o (body.rest \o z) = m \o rest
        BY <2>2, <4>1, Zenon
      <4>. DEFINE b == body.buf
                  x == body.rest \o z
      <4>4. /\ b \in Seq(Byte) /\ x \in Seq(Byte) /\ m \in Seq(Byte)
            /\ b \o x = m \o rest /\ Len(b) = Len(m)
        BY <1>6, <2>2, <3>1, <4>2, <4>3
      <4>. HIDE DEF b, x
      <4>5. b = m /\ x = rest
        BY <4>4, SameCut
      <4>. QED  BY <4>5 DEF b, x
    <3>4. /\ Poll(r, bytes).res = "message" /\ Poll(r, bytes).msg = body.buf
          /\ Poll(r, bytes).reader = NewReader /\ Poll(r, bytes).rest = body.rest
      BY <3>2
    <3>. QED  BY <3>3, <3>4, Zenon
  <2>. QED  BY <2>2, <2>3, <2>4
<1>. QED  BY <1>7, <1>8


-----------------------------------------------------------------------------
(* The frames of a string of bytes.                                        *)

(* all is the frames of the messages from d + 1 to w: rests[t] is what is    *)
(* left of it once the frame of message t is read.                           *)
Split(all, said, d, w, rests) ==
    /\ rests[d] = all /\ rests[w] = <<>>
    /\ \A t \in (d + 1)..w : rests[t - 1] = Frame(said[t]) \o rests[t]
    /\ \A t \in d..w, u \in d..w : t <= u => Len(rests[u]) <= Len(rests[t])

Holds(all, said, d, w) ==
    d <= w /\ \E rests \in [d..w -> Seq(Byte)] : Split(all, said, d, w, rests)

LEMMA HoldsNone ==
    ASSUME NEW said, NEW d \in Nat
    PROVE  Holds(<<>>, said, d, d)
<1>. DEFINE rests == [t \in d..d |-> <<>>]
<1>1. rests \in [d..d -> Seq(Byte)]
  BY EmptySeq
<1>2. /\ \A t \in d..d : rests[t] = <<>>
      /\ ~ \E t \in (d + 1)..d : TRUE
      /\ d \in d..d
  OBVIOUS
<1>. HIDE DEF rests
<1>3. Split(<<>>, said, d, d, rests)
  <2>1. rests[d] = <<>>
    BY <1>2, Zenon
  <2>2. \A t \in (d + 1)..d : rests[t - 1] = Frame(said[t]) \o rests[t]
    BY <1>2, Zenon
  <2>3. Len(<<>>) <= Len(<<>>)
    BY EmptySeq
  <2>4. \A t \in d..d, u \in d..d : t <= u => Len(rests[u]) <= Len(rests[t])
    BY <1>2, <2>3, Zenon
  <2>. QED  BY <2>1, <2>2, <2>4, Zenon DEF Split
<1>. QED  BY <1>1, <1>3 DEF Holds

(* Messages after w are no matter. *)
LEMMA HoldsOther ==
    ASSUME NEW all, NEW said, NEW other, NEW d \in Nat, NEW w \in Nat,
           Holds(all, said, d, w), \A t \in (d + 1)..w : other[t] = said[t]
    PROVE  Holds(all, other, d, w)
<1>1. d <= w
  BY DEF Holds
<1>2. PICK rests \in [d..w -> Seq(Byte)] : Split(all, said, d, w, rests)
  BY DEF Holds
<1>3. \A t \in (d + 1)..w : rests[t - 1] = Frame(other[t]) \o rests[t]
  <2>. SUFFICES ASSUME NEW t \in (d + 1)..w
                PROVE  rests[t - 1] = Frame(other[t]) \o rests[t]
    OBVIOUS
  <2>1. rests[t - 1] = Frame(said[t]) \o rests[t]
    BY <1>2 DEF Split
  <2>2. other[t] = said[t]
    OBVIOUS
  <2>. QED  BY <2>1, <2>2, Zenon
<1>4. Split(all, other, d, w, rests)
  <2>1. rests[d] = all /\ rests[w] = <<>>
    BY <1>2, Zenon DEF Split
  <2>2. \A t \in d..w, u \in d..w : t <= u => Len(rests[u]) <= Len(rests[t])
    BY <1>2, Zenon DEF Split
  <2>. QED  BY <1>3, <2>1, <2>2, Zenon DEF Split
<1>. QED  BY <1>1, <1>4, Zenon DEF Holds

(* A frame joins the others at the end. *)
LEMMA HoldsMore ==
    ASSUME NEW all, NEW said, NEW d \in Nat, NEW w \in Nat, Holds(all, said, d, w),
           \A t \in (d + 1)..(w + 1) : Frame(said[t]) \in Seq(Byte)
    PROVE  Holds(all \o Frame(said[w + 1]), said, d, w + 1)
<1>. DEFINE frame == Frame(said[w + 1])
<1>1. d <= w
  BY DEF Holds
<1>2. PICK rests \in [d..w -> Seq(Byte)] : Split(all, said, d, w, rests)
  BY DEF Holds
<1>3. frame \in Seq(Byte) /\ Len(frame) \in Nat
  <2>1. w + 1 \in (d + 1)..(w + 1)
    BY <1>1
  <2>. QED  BY <2>1, LenProperties
<1>. HIDE DEF frame
<1>. DEFINE more == [t \in d..(w + 1) |-> IF t = w + 1 THEN <<>> ELSE rests[t] \o frame]
<1>4. \A t \in d..w : /\ rests[t] \in Seq(Byte) /\ rests[t] \o frame \in Seq(Byte)
                      /\ Len(rests[t] \o frame) = Len(rests[t]) + Len(frame)
                      /\ Len(rests[t]) \in Nat
  BY <1>3, ConcatProperties, LenProperties
<1>5. more[w + 1] = <<>> /\ \A t \in d..w : more[t] = rests[t] \o frame
  <2>1. w + 1 \in d..(w + 1) /\ \A t \in d..w : t \in d..(w + 1) /\ t # w + 1
    BY <1>1
  <2>. QED  BY <2>1
<1>6. more \in [d..(w + 1) -> Seq(Byte)]
  <2>1. ASSUME NEW t \in d..(w + 1)
        PROVE  (IF t = w + 1 THEN <<>> ELSE rests[t] \o frame) \in Seq(Byte)
    <3>1. t # w + 1 => t \in d..w
      OBVIOUS
    <3>. QED  BY <1>4, <3>1, EmptySeq
  <2>. QED  BY <2>1
<1>. HIDE DEF more
<1>7. more[d] = all \o frame
  <2>1. d \in d..w
    BY <1>1
  <2>. QED  BY <1>2, <1>5, <2>1 DEF Split
<1>8. ASSUME NEW t \in (d + 1)..(w + 1)
      PROVE  more[t - 1] = Frame(said[t]) \o more[t]
  <2>1. CASE t = w + 1
    <3>1. t - 1 = w /\ w \in d..w
      BY <1>1, <2>1
    <3>2. more[w] = <<>> \o frame
      BY <1>2, <1>5, <3>1 DEF Split
    <3>3. <<>> \o frame = frame /\ frame \o <<>> = frame
      BY <1>3, ConcatEmptySeq
    <3>. QED  BY <1>5, <2>1, <3>1, <3>2, <3>3 DEF frame
  <2>2. CASE t # w + 1
    <3>1. t \in (d + 1)..w /\ t \in d..w /\ t - 1 \in d..w
      BY <2>2
    <3>2. more[t - 1] = rests[t - 1] \o frame /\ more[t] = rests[t] \o frame
      BY <1>5, <3>1
    <3>3. rests[t - 1] = Frame(said[t]) \o rests[t]
      BY <1>2, <3>1 DEF Split
    <3>4. (Frame(said[t]) \o rests[t]) \o frame = Frame(said[t]) \o (rests[t] \o frame)
      <4>1. Frame(said[t]) \in Seq(Byte) /\ rests[t] \in Seq(Byte)
        BY <1>4, <3>1
      <4>. QED  BY <1>3, <4>1, BytesAssociative, Zenon
    <3>. QED  BY <3>2, <3>3, <3>4
  <2>. QED  BY <2>1, <2>2
<1>9. ASSUME NEW t \in d..(w + 1), NEW u \in d..(w + 1), t <= u
      PROVE  Len(more[u]) <= Len(more[t])
  <2>1. CASE u = w + 1
    <3>1. Len(more[u]) = 0
      BY <1>5, <2>1, EmptySeq
    <3>2. Len(more[t]) \in Nat
      BY <1>6, LenProperties
    <3>. QED  BY <3>1, <3>2
  <2>2. CASE u # w + 1
    <3>1. t \in d..w /\ u \in d..w
      BY <1>9, <2>2
    <3>2. Len(rests[u]) <= Len(rests[t])
      BY <1>2, <1>9, <3>1 DEF Split
    <3>3. /\ Len(more[t]) = Len(rests[t]) + Len(frame)
          /\ Len(more[u]) = Len(rests[u]) + Len(frame)
      BY <1>4, <1>5, <3>1, Zenon
    <3>4. Len(rests[t]) \in Nat /\ Len(rests[u]) \in Nat
      BY <1>4, <3>1, Zenon
    <3>. QED  BY <1>3, <3>2, <3>3, <3>4
  <2>. QED  BY <2>1, <2>2
<1>10. Split(all \o frame, said, d, w + 1, more)
  BY <1>5, <1>7, <1>8, <1>9 DEF Split
<1>11. d <= w + 1
  BY <1>1
<1>. QED  BY <1>6, <1>10, <1>11 DEF Holds, frame

(* Bytes that are there begin with the frame of the next message; what       *)
(* follows is as long as the last frame, or this one is the last.            *)
LEMMA HoldsFirst ==
    ASSUME NEW all, NEW said, NEW d \in Nat, NEW w \in Nat, Holds(all, said, d, w),
           all # <<>>, \A t \in (d + 1)..w : Frame(said[t]) \in Seq(Byte)
    PROVE  /\ d < w
           /\ \E rest \in Seq(Byte) :
                 /\ all = Frame(said[d + 1]) \o rest
                 /\ Holds(rest, said, d + 1, w)
                 /\ d + 1 = w => rest = <<>>
                 /\ d + 1 < w => Len(Frame(said[w])) <= Len(rest)
<1>1. d <= w
  BY DEF Holds
<1>2. PICK rests \in [d..w -> Seq(Byte)] : Split(all, said, d, w, rests)
  BY DEF Holds
<1>3. d < w
  <2>1. d # w
    BY <1>2 DEF Split
  <2>. QED  BY <1>1, <2>1
<1>4. /\ d + 1 \in (d + 1)..w /\ d + 1 \in d..w /\ w \in (d + 1)..w /\ (d + 1) - 1 = d
      /\ \A t \in (d + 1)..w : t \in d..w
      /\ \A t \in ((d + 1) + 1)..w : t \in (d + 1)..w /\ t - 1 \in (d + 1)..w
  BY <1>3
<1>. DEFINE rest == rests[d + 1]
            left == [t \in (d + 1)..w |-> rests[t]]
<1>5. rest \in Seq(Byte) /\ all = Frame(said[d + 1]) \o rest
  <2>1. rests[(d + 1) - 1] = Frame(said[d + 1]) \o rests[d + 1]
    BY <1>2, <1>4 DEF Split
  <2>. QED  BY <1>2, <1>4, <2>1 DEF Split
<1>6. /\ left \in [(d + 1)..w -> Seq(Byte)]
      /\ \A t \in (d + 1)..w : left[t] = rests[t]
  BY <1>4
<1>. HIDE DEF left
<1>7. Split(rest, said, d + 1, w, left)
  <2>1. left[d + 1] = rest /\ left[w] = <<>>
    BY <1>2, <1>4, <1>6 DEF Split
  <2>2. \A t \in ((d + 1) + 1)..w : left[t - 1] = Frame(said[t]) \o left[t]
    <3>. SUFFICES ASSUME NEW t \in ((d + 1) + 1)..w
                  PROVE  left[t - 1] = Frame(said[t]) \o left[t]
      OBVIOUS
    <3>1. t \in (d + 1)..w /\ t - 1 \in (d + 1)..w
      BY <1>4
    <3>2. rests[t - 1] = Frame(said[t]) \o rests[t]
      BY <1>2, <3>1 DEF Split
    <3>. QED  BY <1>6, <3>1, <3>2
  <2>3. \A t \in (d + 1)..w, u \in (d + 1)..w : t <= u => Len(left[u]) <= Len(left[t])
    BY <1>2, <1>4, <1>6 DEF Split
  <2>. QED  BY <2>1, <2>2, <2>3 DEF Split
<1>8. Holds(rest, said, d + 1, w)
  <2>1. d + 1 <= w
    BY <1>3
  <2>. QED  BY <1>6, <1>7, <2>1 DEF Holds
<1>9. d + 1 = w => rest = <<>>
  BY <1>2 DEF Split
<1>10. d + 1 < w => Len(Frame(said[w])) <= Len(rest)
  <2>. SUFFICES ASSUME d + 1 < w PROVE Len(Frame(said[w])) <= Len(rest)
    OBVIOUS
  <2>1. d + 1 \in d..w /\ w - 1 \in d..w /\ d + 1 <= w - 1
    OBVIOUS
  <2>2. rests[w - 1] = Frame(said[w]) \o rests[w] /\ rests[w] = <<>>
    BY <1>2, <1>4 DEF Split
  <2>3. rests[w - 1] = Frame(said[w])
    <3>1. Frame(said[w]) \in Seq(Byte)
      BY <1>4
    <3>. QED  BY <2>2, <3>1, ConcatEmptySeq
  <2>. QED  BY <1>2, <2>1, <2>3 DEF Split
<1>. QED  BY <1>3, <1>5, <1>8, <1>9, <1>10


-----------------------------------------------------------------------------
(* A reader in step with the upstream.                                     *)

(* What the network still brings of the frame of reply w is all of it, or    *)
(* nothing.                                                                  *)
Clean(z, s, w) == z = <<>> \/ (w \in 1..Len(s) /\ z = Frame(s[w]))

(* What reader r took, the bytes that arrived and the bytes z on their way   *)
(* are the frames of replies n + 1 .. w of s; and the reader has no part of  *)
(* one if frames arrive whole.                                               *)
InStep(r, bytes, s, n, w, z) ==
    /\ Holds((Consumed(r) \o bytes) \o z, s, n, w)
    /\ w <= Len(s)
    /\ WholeFrames => r = NewReader /\ Clean(z, s, w)

LEMMA FramesOf ==
    ASSUME NEW s \in Seq(Message), NEW n \in Nat, NEW w \in Nat, w <= Len(s)
    PROVE  /\ Len(s) \in Nat
           /\ \A t \in (n + 1)..w : s[t] \in Message /\ Frame(s[t]) \in Seq(Byte)
<1>1. Len(s) \in Nat /\ \A t \in 1..Len(s) : s[t] \in Message
  BY LenProperties
<1>2. \A t \in (n + 1)..w : t \in 1..Len(s)
  BY <1>1
<1>. QED  BY <1>1, <1>2, FrameType

LEMMA ConsumedType ==
    ASSUME NEW r \in Reader
    PROVE  Consumed(r) \in Seq(Byte)
<1>1. r.len \in Nat /\ r.len <= MaxLen /\ r.buf \in Seq(Byte)
  <2>1. r.len \in 0..MaxLen /\ r.buf \in Seq(Byte)
    BY DEF Reader
  <2>. QED  BY <2>1, LengthType
<1>2. Header(r.len) \in Seq(Byte)
  BY <1>1, HeaderType
<1>. QED  BY <1>1, <1>2, ConcatProperties DEF Consumed

LEMMA NoPartLengths ==
    ASSUME NEW c \in Nat, NEW l \in Nat, NEW f \in Nat, NEW k \in Nat,
           NEW size \in Nat, NEW n \in Nat, NEW w \in Nat,
           c + k = (size + 2) + l, k = 0 \/ k = f, c < size + 2,
           (n + 1 = w /\ l = 0 /\ size + 2 = f) \/ f <= l
    PROVE  c = 0
  OBVIOUS

(* A reader that found no more took no part of a frame, if what is on its    *)
(* way is none.                                                              *)
LEMMA NoPart ==
    ASSUME NEW s \in Seq(Message), NEW n \in Nat, NEW w \in Nat, w <= Len(s), n < w,
           NEW r \in Reader, ShortOfNeed(r), r.len = 0 \/ r.len = Len(s[n + 1]),
           NEW z \in Seq(Byte), Clean(z, s, w), NEW rest \in Seq(Byte),
           Consumed(r) \o z = Frame(s[n + 1]) \o rest,
           n + 1 = w => rest = <<>>,
           n + 1 < w => Len(Frame(s[w])) <= Len(rest)
    PROVE  r = NewReader
<1>. DEFINE m == s[n + 1]
            c == Len(Consumed(r))
            b == Len(r.buf)
            l == Len(rest)
            f == Len(Frame(s[w]))
            k == Len(z)
            size == Len(m)
<1>1. /\ m \in Message /\ s[w] \in Message
      /\ Len(s) \in Nat
  <2>1. Len(s) \in Nat
    BY LenProperties
  <2>2. n + 1 \in 1..Len(s) /\ w \in 1..Len(s)
    BY <2>1
  <2>. QED  BY <2>1, <2>2, LenProperties
<1>2. /\ size \in Nat /\ size >= 2 /\ Len(Frame(m)) = size + 2 /\ Frame(m) \in Seq(Byte)
      /\ Len(s[w]) \in Nat /\ f = Len(s[w]) + 2 /\ Frame(s[w]) \in Seq(Byte)
  BY <1>1, FrameType
<1>3. r.len \in Nat /\ r.len <= MaxLen /\ r.buf \in Seq(Byte) /\ b \in Nat
  <2>1. r.len \in 0..MaxLen /\ r.buf \in Seq(Byte)
    BY DEF Reader
  <2>. QED  BY <2>1, LengthType, LenProperties
<1>4. /\ l \in Nat /\ k \in Nat /\ c \in Nat
      /\ c + k = (size + 2) + l
  <2>1. Consumed(r) \in Seq(Byte)
    BY ConsumedType
  <2>2. Len(Consumed(r) \o z) = c + k
    BY <2>1, ConcatProperties
  <2>3. Len(Frame(m) \o rest) = (size + 2) + l
    <3>1. Len(Frame(m) \o rest) = Len(Frame(m)) + l
      BY <1>2, BytesLength, Zenon
    <3>. QED  BY <1>2, <3>1, Zenon
  <2>. QED  BY <2>1, <2>2, <2>3, LenProperties
<1>5. k = 0 \/ k = f
  <2>1. CASE z = <<>>
    BY <2>1, EmptySeq
  <2>2. CASE z = Frame(s[w])
    BY <2>2, Zenon
  <2>. QED  BY <2>1, <2>2, Zenon DEF Clean
<1>6. (r.len = 0 /\ c = b /\ b < 2) \/ (r.len # 0 /\ c = b + 2 /\ b < size)
  <2>1. CASE r.len = 0
    <3>1. Consumed(r) = r.buf /\ Len(r.buf) < 2
      BY <2>1 DEF Consumed, ShortOfNeed
    <3>. QED  BY <2>1, <3>1, Zenon
  <2>2. CASE r.len # 0
    <3>1. /\ Header(r.len) \in Seq(Byte)
          /\ 2 <= Len(Header(r.len)) /\ Len(Header(r.len)) <= 2
      BY <1>3, HeaderType
    <3>2. Consumed(r) = Header(r.len) \o r.buf
      BY <2>2 DEF Consumed
    <3>3. Len(Header(r.len) \o r.buf) = Len(Header(r.len)) + b
      BY <1>3, <3>1, ConcatProperties
    <3>4. Len(Header(r.len)) \in Nat
      BY <3>1, LenProperties
    <3>5. c = b + 2
      <4>1. c = Len(Header(r.len)) + b
        BY <3>2, <3>3, Zenon
      <4>. HIDE DEF b, c
      <4>. QED  BY <1>3, <3>1, <3>4, <4>1
    <3>6. b < size
      <4>1. Len(r.buf) < r.len /\ r.len = Len(m)
        BY <2>2, Zenon DEF ShortOfNeed
      <4>. QED  BY <4>1, Zenon
    <3>. QED  BY <2>2, <3>5, <3>6, Zenon
  <2>. QED  BY <2>1, <2>2
<1>7. n + 1 = w => l = 0 /\ size + 2 = f
  BY <1>2, EmptySeq
<1>8. n + 1 < w => f <= l
  OBVIOUS
<1>9. n + 1 = w \/ n + 1 < w
  OBVIOUS
<1>. HIDE DEF m, c, b, l, f, k, size
<1>10. c = 0
  <2>1. (n + 1 = w /\ l = 0 /\ size + 2 = f) \/ f <= l
    BY <1>7, <1>8, <1>9, Zenon
  <2>2. f \in Nat
    BY <1>2
  <2>3. c < size + 2
    BY <1>2, <1>3, <1>4, <1>6
  <2>. QED  BY <1>2, <1>3, <1>4, <1>5, <2>1, <2>2, <2>3, NoPartLengths
<1>11. r.len = 0 /\ b = 0
  BY <1>3, <1>6, <1>10
<1>12. r.buf = <<>>
  BY <1>3, <1>11, EmptySeq DEF b
<1>. QED  BY <1>11, <1>12 DEF Reader, NewReader

(* A poll hands over the next message, whole, or waits for it in step.       *)
LEMMA InStepPoll ==
    ASSUME NEW s \in Seq(Message), NEW n \in Nat, NEW w \in Nat, NEW z \in Seq(Byte),
           NEW r \in Reader, ShortOfNeed(r), NEW bytes \in Seq(Byte), bytes # <<>>,
           InStep(r, bytes, s, n, w, z)
    PROVE  LET poll == Poll(r, bytes)
           IN  /\ n < Len(s)
               /\ \/ /\ poll.res = "pending"
                     /\ InStep(poll.reader, poll.rest, s, n, w, z)
                  \/ /\ poll.res = "message" /\ poll.msg = s[n + 1]
                     /\ InStep(poll.reader, poll.rest, s, n + 1, w, z)
<1>. DEFINE poll == Poll(r, bytes)
            all == (Consumed(r) \o bytes) \o z
<1>1. /\ Holds(all, s, n, w) /\ w <= Len(s)
      /\ WholeFrames => r = NewReader /\ Clean(z, s, w)
  BY DEF InStep
<1>2. all # <<>>
  <2>1. Consumed(r) \in Seq(Byte)
    BY ConsumedType
  <2>2. Consumed(r) \o bytes \in Seq(Byte) /\ Consumed(r) \o bytes # <<>>
    BY <2>1, ConcatProperties, ConcatEqualIffEmpty
  <2>. QED  BY <2>2, ConcatEqualIffEmpty
<1>3. /\ Len(s) \in Nat
      /\ \A t \in (n + 1)..w : s[t] \in Message /\ Frame(s[t]) \in Seq(Byte)
  BY <1>1, FramesOf
<1>. HIDE DEF all
<1>4. n < w
  BY <1>1, <1>2, <1>3, HoldsFirst
<1>5. PICK rest \in Seq(Byte) :
         /\ all = Frame(s[n + 1]) \o rest
         /\ Holds(rest, s, n + 1, w)
         /\ n + 1 = w => rest = <<>>
         /\ n + 1 < w => Len(Frame(s[w])) <= Len(rest)
  BY <1>1, <1>2, <1>3, HoldsFirst
<1>6. s[n + 1] \in Message /\ n < Len(s)
  <2>1. n + 1 \in (n + 1)..w
    BY <1>4
  <2>. QED  BY <1>1, <1>3, <1>4, <2>1
<1>7. /\ poll.rest \in Seq(Byte) /\ poll.reader \in Reader /\ ShortOfNeed(poll.reader)
      /\ poll.res = "pending" => poll.rest = <<>>
  BY PollType
<1>8. \/ /\ poll.res = "pending"
         /\ (Consumed(poll.reader) \o poll.rest) \o z = Frame(s[n + 1]) \o rest
         /\ poll.reader.len = 0 \/ poll.reader.len = Len(s[n + 1])
      \/ /\ poll.res = "message" /\ poll.msg = s[n + 1] /\ poll.reader = NewReader
         /\ poll.rest \o z = rest
  <2>. DEFINE m == s[n + 1]
  <2>1. (Consumed(r) \o bytes) \o z = Frame(m) \o rest /\ m \in Message
    BY <1>5, <1>6, Zenon DEF all
  <2>. HIDE DEF m
  <2>2. m \in Message
    BY <2>1
  <2>3. (Consumed(r) \o bytes) \o z = Frame(m) \o rest => Polled(Poll(r, bytes), z, m, rest)
    BY <2>2, PollFrame
  <2>4. Polled(poll, z, m, rest)
    BY <2>1, <2>3, Zenon DEF poll
  <2>. QED  BY <2>4, Zenon DEF m, Polled
<1>. HIDE DEF poll
<1>9. CASE /\ poll.res = "pending"
           /\ (Consumed(poll.reader) \o poll.rest) \o z = Frame(s[n + 1]) \o rest
           /\ poll.reader.len = 0 \/ poll.reader.len = Len(s[n + 1])
  <2>1. Holds((Consumed(poll.reader) \o poll.rest) \o z, s, n, w)
    BY <1>1, <1>5, <1>9
  <2>2. Consumed(poll.reader) \o z = Frame(s[n + 1]) \o rest
    <3>1. Consumed(poll.reader) \o <<>> = Consumed(poll.reader)
      BY <1>7, ConsumedType, ConcatEmptySeq
    <3>. QED  BY <1>7, <1>9, <3>1
  <2>3. WholeFrames => poll.reader = NewReader
    <3>. DEFINE got == poll.reader
    <3>1. /\ got \in Reader /\ ShortOfNeed(got) /\ (got.len = 0 \/ got.len = Len(s[n + 1]))
          /\ Consumed(got) \o z = Frame(s[n + 1]) \o rest
      BY <1>7, <1>9, <2>2, Zenon
    <3>. HIDE DEF got
    <3>2. Clean(z, s, w) => got = NewReader
      BY <1>1, <1>4, <1>5, <3>1, NoPart
    <3>. QED  BY <1>1, <3>2, Zenon DEF got
  <2>4. InStep(poll.reader, poll.rest, s, n, w, z)
    BY <1>1, <2>1, <2>3 DEF InStep
  <2>. QED  BY <1>6, <1>9, <2>4 DEF poll
<1>10. CASE /\ poll.res = "message" /\ poll.msg = s[n + 1] /\ poll.reader = NewReader
            /\ poll.rest \o z = rest
  <2>1. Consumed(poll.reader) \o poll.rest = poll.rest /\ poll.reader.buf = <<>>
    <3>1. Consumed(poll.reader) = <<>> /\ poll.reader.buf = <<>>
      BY <1>10 DEF NewReader, Consumed
    <3>. QED  BY <1>7, <3>1, ConcatEmptySeq
  <2>2. Holds((Consumed(poll.reader) \o poll.rest) \o z, s, n + 1, w)
    BY <1>5, <1>10, <2>1
  <2>3. InStep(poll.reader, poll.rest, s, n + 1, w, z)
    BY <1>1, <1>10, <2>1, <2>2 DEF InStep
  <2>. QED  BY <1>6, <1>10, <2>3 DEF poll
<1>. QED  BY <1>8, <1>9, <1>10

(* The upstream gives another reply. *)
LEMMA InStepQueue ==
    ASSUME NEW s \in Seq(Message), NEW m \in Message, NEW n \in Nat, NEW w \in Nat,
           NEW z, NEW r, NEW bytes, InStep(r, bytes, s, n, w, z)
    PROVE  InStep(r, bytes, Append(s, m), n, w, z)
<1>. DEFINE more == Append(s, m)
<1>1. /\ Len(s) \in Nat /\ Len(more) = Len(s) + 1
      /\ \A t \in 1..Len(s) : more[t] = s[t]
  BY AppendProperties, LenProperties
<1>2. /\ Holds((Consumed(r) \o bytes) \o z, s, n, w) /\ w <= Len(s)
      /\ WholeFrames => r = NewReader /\ Clean(z, s, w)
  BY DEF InStep
<1>. HIDE DEF more
<1>3. \A t \in (n + 1)..w : more[t] = s[t]
  <2>1. \A t \in (n + 1)..w : t \in 1..Len(s)
    BY <1>1, <1>2
  <2>. QED  BY <1>1, <2>1
<1>4. Holds((Consumed(r) \o bytes) \o z, more, n, w)
  BY <1>2, <1>3, HoldsOther
<1>5. w <= Len(more)
  BY <1>1, <1>2
<1>6. Clean(z, s, w) => Clean(z, more, w)
  <2>1. w \in 1..Len(s) => w \in 1..Len(more) /\ more[w] = s[w]
    BY <1>1
  <2>. QED  BY <2>1, Zenon DEF Clean
<1>. QED  BY <1>2, <1>4, <1>5, <1>6, Zenon DEF InStep, more

(* Bytes a arrive, and z are left. *)
LEMMA InStepWrite ==
    ASSUME NEW s \in Seq(Message), NEW n \in Nat, NEW w \in Nat, NEW r \in Reader,
           NEW bytes \in Seq(Byte), NEW a \in Seq(Byte), NEW z \in Seq(Byte),
           InStep(r, bytes, s, n, w, a \o z), WholeFrames => Clean(z, s, w)
    PROVE  InStep(r, bytes \o a, s, n, w, z)
<1>. DEFINE c == Consumed(r)
<1>1. c \in Seq(Byte)
  BY ConsumedType
<1>2. /\ Holds((c \o bytes) \o (a \o z), s, n, w) /\ w <= Len(s)
      /\ WholeFrames => r = NewReader
  BY DEF InStep
<1>. HIDE DEF c
<1>3. c \o bytes \in Seq(Byte)
  BY <1>1, BytesJoin, Zenon
<1>4. ((c \o bytes) \o a) \o z = (c \o bytes) \o (a \o z)
  BY <1>3, BytesAssociative, Zenon
<1>5. (c \o bytes) \o a = c \o (bytes \o a)
  BY <1>1, BytesAssociative, Zenon
<1>6. Holds((c \o (bytes \o a)) \o z, s, n, w)
  BY <1>2, <1>4, <1>5, Zenon
<1>. QED  BY <1>2, <1>6, Zenon DEF InStep, c

(* The next frame is on its way. *)
LEMMA InStepTake ==
    ASSUME NEW s \in Seq(Message), NEW n \in Nat, NEW w \in Nat, w < Len(s),
           NEW r \in Reader, NEW bytes \in Seq(Byte), InStep(r, bytes, s, n, w, <<>>)
    PROVE  InStep(r, bytes, s, n, w + 1, Frame(s[w + 1]))
<1>. DEFINE all == Consumed(r) \o bytes
<1>1. all \in Seq(Byte)
  BY ConsumedType, BytesJoin
<1>2. Holds(all \o <<>>, s, n, w) /\ (WholeFrames => r = NewReader)
  BY DEF InStep
<1>3. Holds(all, s, n, w)
  BY <1>1, <1>2, ConcatEmptySeq
<1>4. w + 1 \in Nat /\ w + 1 <= Len(s) /\ w + 1 \in 1..Len(s)
  BY LenProperties
<1>5. \A t \in (n + 1)..(w + 1) : Frame(s[t]) \in Seq(Byte)
  BY <1>4, FramesOf
<1>. HIDE DEF all
<1>6. Holds(all \o Frame(s[w + 1]), s, n, w + 1)
  BY <1>3, <1>5, HoldsMore
<1>7. Clean(Frame(s[w + 1]), s, w + 1)
  BY <1>4, Zenon DEF Clean
<1>. QED  BY <1>2, <1>4, <1>6, <1>7, Zenon DEF InStep, all

-----------------------------------------------------------------------------
(* The replies of a connection.                                            *)

(* Of the frames on their way z is the first, or what is left of it; the     *)
(* others are whole.  A close drops them all.                                *)
Travels(c, frames, said, w, z) ==
    c = "open" =>
        IF frames = <<>> THEN z = <<>> /\ w = Len(said)
        ELSE /\ z = frames[1] /\ w + Len(frames) = Len(said) + 1
             /\ \A i \in 2..Len(frames) : frames[i] = Frame(said[w + i - 1])

(* As long as no read that had taken bytes was dropped, the replies of the   *)
(* connection are, in order, delivered, in the reader, in the stream and on  *)
(* their way.                                                                *)
FramesInv ==
    /\ conn = "none" => reader = NewReader
    /\ conn # "open" => net = <<>>
    /\ WholeFrames => ~cut
    /\ ~cut =>
         /\ Len(delivered) <= Len(replies)
         /\ \A i \in 1..Len(delivered) : delivered[i] = replies[i]
         /\ conn # "none" =>
              \E w \in Nat, z \in Seq(Byte) :
                 /\ InStep(reader, stream, replies, Len(delivered), w, z)
                 /\ Travels(conn, net, replies, w, z)

LEMMA FramesInit == Init => FramesInv
  BY EmptySeq DEF Init, FramesInv

frameVars == <<reader, conn, net, stream, replies, delivered, cut>>

LEMMA FramesKept ==
    ASSUME FramesInv, UNCHANGED frameVars
    PROVE  FramesInv'
  BY DEF FramesInv, frameVars

(* A connection that is dropped leaves what was delivered as it was. *)
LEMMA FramesDropped ==
    ASSUME FramesInv, DropConnection, UNCHANGED <<replies, delivered, cut>>
    PROVE  FramesInv'
  BY DEF FramesInv, DropConnection

LEMMA FramesConnect ==
    ASSUME TypeOK, FramesInv, Connect
    PROVE  FramesInv'
<1>1. /\ reader' = NewReader /\ conn' = "open" /\ cut' = FALSE
      /\ replies' = <<>> /\ delivered' = <<>> /\ net' = <<>> /\ stream' = <<>>
  BY DEF Connect, TypeOK, FramesInv
<1>2. Len(<<>>) = 0 /\ <<>> \in Seq(Byte) /\ 0 \in Nat
  BY EmptySeq
<1>3. InStep(NewReader, <<>>, <<>>, 0, 0, <<>>)
  <2>1. Consumed(NewReader) = <<>>
    BY DEF Consumed, NewReader
  <2>2. (<<>> \o <<>>) \o <<>> = <<>>
    BY <1>2, ConcatEmptySeq
  <2>3. Holds((Consumed(NewReader) \o <<>>) \o <<>>, <<>>, 0, 0)
    BY <2>1, <2>2, HoldsNone
  <2>. QED  BY <1>2, <2>3 DEF InStep, Clean
<1>4. Travels("open", <<>>, <<>>, 0, <<>>)
  BY <1>2 DEF Travels
<1>5. \E w \in Nat, z \in Seq(Byte) :
         /\ InStep(reader', stream', replies', Len(delivered'), w, z)
         /\ Travels(conn', net', replies', w, z)
  BY <1>1, <1>2, <1>3, <1>4, Zenon
<1>6. Len(delivered') <= Len(replies') /\ \A i \in 1..Len(delivered') : delivered'[i] = replies'[i]
  BY <1>1, <1>2
<1>. QED  BY <1>1, <1>5, <1>6 DEF FramesInv

(* A request wins: the read in progress is dropped. *)
LEMMA FramesTake ==
    ASSUME TypeOK, FramesInv, DnsFromBridge
    PROVE  FramesInv'
<1>1. /\ conn # "none" /\ reader' = NewReader /\ cut' = (cut \/ reader # NewReader)
      /\ UNCHANGED <<conn, net, stream, replies, delivered>>
  BY DEF DnsFromBridge, linkVars, TypeOK
<1>2. CASE reader = NewReader
  <2>1. cut' = cut
    BY <1>1, <1>2 DEF TypeOK
  <2>. QED  BY <1>1, <1>2, <2>1, FramesKept DEF frameVars
<1>3. CASE reader # NewReader
  <2>1. cut'
    BY <1>1, <1>3
  <2>2. ~WholeFrames
    BY <1>1, <1>3 DEF FramesInv, InStep
  <2>. QED  BY <1>1, <2>1, <2>2 DEF FramesInv
<1>. QED  BY <1>2, <1>3

LEMMA PollMessage ==
    ASSUME NEW r, NEW bytes, Poll(r, bytes).res = "message"
    PROVE  Poll(r, bytes).reader = NewReader
  BY DEF Poll

LEMMA FramesRead ==
    ASSUME TypeOK, ShortOfNeed(reader), FramesInv, DnsFromNet
    PROVE  FramesInv'
<1>. DEFINE poll == Poll(reader, stream)
            d == Len(delivered)
<1>1. /\ conn # "none" /\ stream # <<>> /\ UNCHANGED <<replies, cut>>
      /\ reader \in Reader /\ stream \in Seq(Byte) /\ replies \in Seq(Message)
      /\ d \in Nat /\ Len(replies) \in Nat /\ delivered \in Seq(Seq(Byte))
  BY LenProperties DEF DnsFromNet, TypeOK
<1>2. \/ /\ poll.res = "pending" /\ reader' = poll.reader /\ stream' = poll.rest
         /\ UNCHANGED <<delivered, conn, net>>
      \/ /\ poll.res = "message" /\ reader' = NewReader /\ stream' = poll.rest
         /\ delivered' = Append(delivered, poll.msg)
         /\ UNCHANGED <<conn, net>>
      \/ DropConnection /\ UNCHANGED delivered
  BY DEF DnsFromNet
<1>. HIDE DEF poll
<1>3. CASE DropConnection /\ UNCHANGED delivered
  BY <1>1, <1>3, FramesDropped
<1>4. CASE cut /\ ~(DropConnection /\ UNCHANGED delivered)
  BY <1>1, <1>2, <1>4 DEF FramesInv
<1>5. CASE ~cut /\ ~(DropConnection /\ UNCHANGED delivered)
  <2>1. PICK w \in Nat, z \in Seq(Byte) :
           /\ InStep(reader, stream, replies, d, w, z)
           /\ Travels(conn, net, replies, w, z)
    BY <1>1, <1>5 DEF FramesInv
  <2>2. /\ d < Len(replies)
        /\ \/ poll.res = "pending" /\ InStep(poll.reader, poll.rest, replies, d, w, z)
           \/ /\ poll.res = "message" /\ poll.msg = replies[d + 1]
              /\ InStep(poll.reader, poll.rest, replies, d + 1, w, z)
    BY <1>1, <2>1, InStepPoll DEF poll
  <2>3. d <= Len(replies) /\ \A i \in 1..d : delivered[i] = replies[i]
    BY <1>5 DEF FramesInv
  <2>4. (conn' = "none" => reader' = NewReader) /\ (conn' # "open" => net' = <<>>)
        /\ (WholeFrames => ~cut')
    BY <1>1, <1>2, <1>5 DEF FramesInv
  <2>5. CASE /\ poll.res = "pending" /\ reader' = poll.reader /\ stream' = poll.rest
             /\ UNCHANGED <<delivered, conn, net>>
    <3>1. InStep(reader', stream', replies', Len(delivered'), w, z)
      BY <1>1, <2>2, <2>5
    <3>2. Travels(conn', net', replies', w, z)
      BY <1>1, <2>1, <2>5
    <3>. QED  BY <1>1, <2>3, <2>4, <2>5, <3>1, <3>2 DEF FramesInv
  <2>6. CASE /\ poll.res = "message" /\ reader' = NewReader /\ stream' = poll.rest
             /\ delivered' = Append(delivered, poll.msg)
             /\ UNCHANGED <<conn, net>>
    <3>1. poll.reader = NewReader /\ poll.msg \in Seq(Byte)
      <4>1. poll.res = "message" => poll.msg \in Seq(Byte) /\ poll.reader = NewReader
        BY <1>1, PollType, PollMessage DEF poll
      <4>. QED  BY <2>6, <4>1
    <3>2. poll.msg = replies[d + 1] /\ InStep(NewReader, poll.rest, replies, d + 1, w, z)
      BY <2>2, <2>6, <3>1
    <3>3. /\ Len(delivered') = d + 1
          /\ \A i \in 1..d : delivered'[i] = delivered[i]
          /\ delivered'[d + 1] = replies[d + 1]
      BY <1>1, <2>6, <3>1, <3>2, AppendProperties
    <3>. HIDE DEF d
    <3>4. \A i \in 1..(d + 1) : delivered'[i] = replies[i]
      <4>. SUFFICES ASSUME NEW i \in 1..(d + 1) PROVE delivered'[i] = replies[i]
        OBVIOUS
      <4>1. i \in 1..d \/ i = d + 1
        BY <1>1
      <4>. QED  BY <2>3, <3>3, <4>1
    <3>5. InStep(reader', stream', replies', Len(delivered'), w, z)
      BY <1>1, <2>6, <3>2, <3>3
    <3>6. Travels(conn', net', replies', w, z)
      BY <1>1, <2>1, <2>6
    <3>7. Len(delivered') <= Len(replies')
      BY <1>1, <2>2, <3>3
    <3>8. \A i \in 1..Len(delivered') : delivered'[i] = replies'[i]
      BY <1>1, <3>3, <3>4
    <3>. QED  BY <2>4, <3>5, <3>6, <3>7, <3>8 DEF FramesInv
  <2>. QED  BY <1>2, <1>5, <2>5, <2>6
<1>. QED  BY <1>3, <1>4, <1>5

(* The upstream gives a reply: its frame is the last on its way. *)
LEMMA FramesAnswer ==
    ASSUME TypeOK, FramesInv, NEW m \in Message, Answer(m)
    PROVE  FramesInv'
<1>. DEFINE d == Len(delivered)
            n == Len(replies)
<1>1. /\ conn = "open" /\ conn' = "open"
      /\ replies' = Append(replies, m) /\ net' = Append(net, Frame(m))
      /\ UNCHANGED <<reader, stream, delivered, cut>>
      /\ reader \in Reader /\ stream \in Seq(Byte) /\ replies \in Seq(Message)
      /\ net \in Seq(Seq(Byte)) /\ Frame(m) \in Seq(Byte)
      /\ d \in Nat /\ n \in Nat /\ Len(net) \in Nat
  BY FrameType, LenProperties DEF Answer, TypeOK, fwdVars, Frame
<1>2. CASE cut
  BY <1>1, <1>2 DEF FramesInv
<1>3. CASE ~cut
  <2>1. PICK w \in Nat, z \in Seq(Byte) :
           /\ InStep(reader, stream, replies, d, w, z)
           /\ Travels(conn, net, replies, w, z)
    BY <1>1, <1>3 DEF FramesInv
  <2>2. /\ Len(replies') = n + 1 /\ replies'[n + 1] = m
        /\ \A i \in 1..n : replies'[i] = replies[i]
        /\ Len(net') = Len(net) + 1 /\ net'[Len(net) + 1] = Frame(m)
        /\ \A i \in 1..Len(net) : net'[i] = net[i]
        /\ net' # <<>>
    <3>1. /\ Len(net') = Len(net) + 1 /\ net'[Len(net) + 1] = Frame(m)
          /\ \A i \in 1..Len(net) : net'[i] = net[i]
      BY <1>1, AppendProperties
    <3>2. /\ Len(replies') = n + 1 /\ replies'[n + 1] = m
          /\ \A i \in 1..n : replies'[i] = replies[i]
      BY <1>1, AppendProperties
    <3>3. net' # <<>>
      <4>1. net' \in Seq(Seq(Byte)) /\ Len(net') # 0
        BY <1>1, <3>1, AppendProperties
      <4>. QED  BY <4>1, EmptySeq
    <3>. QED  BY <3>1, <3>2, <3>3
  <2>3. d <= n /\ \A i \in 1..d : delivered[i] = replies[i]
    BY <1>3 DEF FramesInv
  <2>4. InStep(reader, stream, replies', d, w, z)
    BY <1>1, <2>1, InStepQueue
  <2>5. CASE net = <<>>
    <3>1. z = <<>> /\ w = n /\ Len(net) = 0
      BY <1>1, <2>1, <2>5, EmptySeq DEF Travels
    <3>2. replies' \in Seq(Message)
      BY <1>1, AppendProperties
    <3>3. InStep(reader, stream, replies', d, w + 1, Frame(replies'[w + 1]))
      <4>1. w < Len(replies')
        BY <1>1, <2>2, <3>1
      <4>2. InStep(reader, stream, replies', d, w, <<>>)
        BY <2>4, <3>1
      <4>. HIDE DEF d, n
      <4>. QED  BY <1>1, <3>2, <4>1, <4>2, InStepTake
    <3>. HIDE DEF n, d
    <3>4. Frame(replies'[w + 1]) = Frame(m) /\ w + 1 \in Nat
      BY <2>2, <3>1
    <3>5. Travels(conn', net', replies', w + 1, Frame(m))
      BY <1>1, <2>2, <3>1 DEF Travels
    <3>6. InStep(reader', stream', replies', Len(delivered'), w + 1, Frame(m))
      BY <1>1, <3>3, <3>4 DEF d
    <3>7. \E u \in Nat, y \in Seq(Byte) :
             /\ InStep(reader', stream', replies', Len(delivered'), u, y)
             /\ Travels(conn', net', replies', u, y)
      BY <1>1, <3>4, <3>5, <3>6, Zenon
    <3>8. Len(delivered') <= Len(replies')
          /\ \A i \in 1..Len(delivered') : delivered'[i] = replies'[i]
      BY <1>1, <2>2, <2>3 DEF d
    <3>. QED  BY <1>1, <1>3, <3>7, <3>8 DEF FramesInv
  <2>6. CASE net # <<>>
    <3>1. /\ z = net[1] /\ w + Len(net) = n + 1
          /\ \A i \in 2..Len(net) : net[i] = Frame(replies[w + i - 1])
      BY <1>1, <2>1, <2>6 DEF Travels
    <3>2. Len(net) >= 1 /\ w >= 0
      BY <1>1, <2>6, EmptySeq
    <3>. HIDE DEF n, d
    <3>3. ASSUME NEW i \in 2..Len(net')
          PROVE  net'[i] = Frame(replies'[w + i - 1])
      <4>1. CASE i \in 2..Len(net)
        <5>1. i \in 1..Len(net) /\ w + i - 1 \in 1..n
          BY <1>1, <3>1, <3>2, <4>1
        <5>. QED  BY <2>2, <3>1, <4>1, <5>1
      <4>2. CASE i = Len(net) + 1
        <5>1. w + i - 1 = n + 1
          BY <1>1, <3>1, <4>2
        <5>2. replies'[w + i - 1] = m
          BY <2>2, <5>1
        <5>3. net'[i] = Frame(m)
          BY <2>2, <4>2
        <5>. QED  BY <5>2, <5>3, Zenon
      <4>3. i \in 2..Len(net) \/ i = Len(net) + 1
        <5>. DEFINE l == Len(net)
        <5>1. l \in Nat /\ i \in 2..(l + 1)
          BY <1>1, <2>2
        <5>. HIDE DEF l
        <5>2. i \in 2..l \/ i = l + 1
          BY <5>1
        <5>. QED  BY <5>2 DEF l
      <4>. QED  BY <4>1, <4>2, <4>3
    <3>4. net'[1] = z /\ w + Len(net') = Len(replies') + 1
      <4>1. 1 \in 1..Len(net)
        BY <1>1, <3>2
      <4>. QED  BY <1>1, <2>2, <3>1, <4>1
    <3>5. Travels(conn', net', replies', w, z)
      BY <2>2, <3>3, <3>4 DEF Travels
    <3>6. InStep(reader', stream', replies', Len(delivered'), w, z)
      BY <1>1, <2>4 DEF d
    <3>7. Len(delivered') <= Len(replies')
          /\ \A i \in 1..Len(delivered') : delivered'[i] = replies'[i]
      BY <1>1, <2>2, <2>3 DEF d
    <3>. QED  BY <1>1, <1>3, <3>5, <3>6, <3>7 DEF FramesInv
  <2>. QED  BY <2>5, <2>6
<1>. QED  BY <1>2, <1>3

(* Bytes arrive: the first frame on its way, or the front of it. *)
LEMMA FramesArrive ==
    ASSUME TypeOK, FramesInv, Arrive
    PROVE  FramesInv'
<1>. DEFINE d == Len(delivered)
            n == Len(replies)
            first == Head(net)
<1>1. /\ conn = "open" /\ net # <<>>
      /\ UNCHANGED <<conn, reader, replies, delivered, cut>>
      /\ reader \in Reader /\ stream \in Seq(Byte) /\ replies \in Seq(Message)
      /\ net \in Seq(Seq(Byte)) /\ d \in Nat /\ n \in Nat
  BY LenProperties DEF Arrive, FramesInv, TypeOK, fwdVars, history
<1>2. CASE cut
  BY <1>1, <1>2 DEF FramesInv
<1>3. CASE ~cut
  <2>1. PICK w \in Nat, z \in Seq(Byte) :
           /\ InStep(reader, stream, replies, d, w, z)
           /\ Travels(conn, net, replies, w, z)
    BY <1>1, <1>3 DEF FramesInv
  <2>2. d <= n /\ \A i \in 1..d : delivered[i] = replies[i]
    BY <1>3 DEF FramesInv
  <2>3. /\ z = net[1] /\ w + Len(net) = n + 1
        /\ \A i \in 2..Len(net) : net[i] = Frame(replies[w + i - 1])
    BY <1>1, <2>1 DEF Travels
  <2>4. /\ first = z /\ Len(net) \in Nat /\ Len(net) >= 1
        /\ Tail(net) \in Seq(Seq(Byte)) /\ Len(Tail(net)) = Len(net) - 1
        /\ \A i \in 1..(Len(net) - 1) : Tail(net)[i] = net[i + 1]
    <3>1. first = net[1] /\ Len(net) \in Nat \ {0}
      BY <1>1, HeadTailProperties, EmptySeq, LenProperties
    <3>2. /\ Tail(net) \in Seq(Seq(Byte)) /\ Len(Tail(net)) = Len(net) - 1
          /\ \A i \in 1..Len(Tail(net)) : Tail(net)[i] = net[i + 1]
      BY <1>1, HeadTailProperties
    <3>. QED  BY <2>3, <3>1, <3>2
  <2>5. PICK k \in IF WholeFrames THEN {Len(first)} ELSE 1..Len(first) :
           /\ stream' = stream \o SubSeq(first, 1, k)
           /\ net' = IF k = Len(first) THEN Tail(net)
                     ELSE <<SubSeq(first, k + 1, Len(first))>> \o Tail(net)
    BY DEF Arrive
  <2>6. Len(z) \in Nat /\ (k = Len(z) \/ (~WholeFrames /\ k \in 1..Len(z)))
    BY <2>4, <2>5, LenProperties
  <2>. HIDE DEF first, d, n
  <2>7. CASE k = Len(z)
    <3>1. stream' = stream \o z /\ net' = Tail(net) /\ z \o <<>> = z /\ <<>> \in Seq(Byte)
      <4>1. SubSeq(z, 1, Len(z)) = z /\ z \o <<>> = z /\ <<>> \in Seq(Byte)
        BY SubSeqFull, ConcatEmptySeq, EmptySeq
      <4>. QED  BY <2>4, <2>5, <2>7, <4>1
    <3>2. InStep(reader, stream', replies, d, w, <<>>)
      <4>1. Clean(<<>>, replies, w)
        BY DEF Clean
      <4>2. InStep(reader, stream, replies, d, w, z \o <<>>)
        BY <2>1, <3>1
      <4>3. InStep(reader, stream \o z, replies, d, w, <<>>)
        BY <1>1, <3>1, <4>1, <4>2, InStepWrite
      <4>. QED  BY <3>1, <4>3
    <3>3. CASE net' = <<>>
      <4>1. Len(Tail(net)) = 0
        BY <3>1, <3>3, EmptySeq
      <4>2. w = n
        <5>. DEFINE l == Len(net)
        <5>1. w + l = n + 1 /\ l - 1 = 0 /\ l \in Nat /\ n \in Nat
          BY <1>1, <2>3, <2>4, <4>1
        <5>. HIDE DEF l
        <5>. QED  BY <5>1
      <4>3. Travels(conn', net', replies', w, <<>>)
        BY <1>1, <3>3, <4>2 DEF Travels, n
      <4>4. InStep(reader', stream', replies', Len(delivered'), w, <<>>)
        BY <1>1, <3>2 DEF d
      <4>5. \E u \in Nat, y \in Seq(Byte) :
               /\ InStep(reader', stream', replies', Len(delivered'), u, y)
               /\ Travels(conn', net', replies', u, y)
        BY <3>1, <4>3, <4>4, Zenon
      <4>. QED  BY <1>1, <1>3, <2>2, <4>5 DEF FramesInv, d, n
    <3>4. CASE net' # <<>>
      <4>1. Len(net') >= 1 /\ Len(net) >= 2 /\ Len(net') = Len(net) - 1
        <5>1. Len(Tail(net)) \in Nat /\ Len(Tail(net)) # 0
          BY <2>4, <3>1, <3>4, EmptySeq, LenProperties
        <5>. QED  BY <2>4, <3>1, <5>1
      <4>2. w < n
        BY <1>1, <2>3, <4>1, <2>4
      <4>3. stream' \in Seq(Byte)
        BY <1>1, <3>1, BytesJoin
      <4>4. InStep(reader, stream', replies, d, w + 1, Frame(replies[w + 1]))
        BY <1>1, <3>2, <4>2, <4>3, InStepTake DEF n
      <4>5. net'[1] = Frame(replies[w + 1])
        <5>1. 1 \in 1..(Len(net) - 1) /\ 2 \in 2..Len(net) /\ w + 2 - 1 = w + 1
          BY <2>4, <4>1
        <5>2. net'[1] = net[2]
          BY <2>4, <3>1, <5>1
        <5>. QED  BY <2>3, <5>1, <5>2
      <4>6. ASSUME NEW i \in 2..Len(net')
            PROVE  net'[i] = Frame(replies[(w + 1) + i - 1])
        <5>1. /\ i \in 1..(Len(net) - 1) /\ i + 1 \in 2..Len(net)
              /\ w + (i + 1) - 1 = (w + 1) + i - 1
          BY <2>4, <4>1, <4>6
        <5>. QED  BY <2>3, <2>4, <3>1, <5>1
      <4>7. (w + 1) + Len(net') = n + 1 /\ w + 1 \in Nat
        <5>1. w + Len(net) = n + 1 /\ Len(net') = Len(net) - 1 /\ Len(net) \in Nat
              /\ n \in Nat
          BY <1>1, <2>3, <2>4, <4>1
        <5>. QED  BY <5>1
      <4>8. Travels(conn', net', replies', w + 1, Frame(replies[w + 1]))
        BY <1>1, <3>4, <4>5, <4>6, <4>7 DEF Travels, n
      <4>9. Frame(replies[w + 1]) \in Seq(Byte)
        <5>1. w + 1 \in 1..n /\ \A i \in 1..n : replies[i] \in Message
          BY <1>1, <4>2, LenProperties DEF n
        <5>. QED  BY <5>1, FrameType
      <4>10. InStep(reader', stream', replies', Len(delivered'), w + 1, Frame(replies[w + 1]))
        BY <1>1, <4>4 DEF d
      <4>11. \E u \in Nat, y \in Seq(Byte) :
               /\ InStep(reader', stream', replies', Len(delivered'), u, y)
               /\ Travels(conn', net', replies', u, y)
        BY <4>7, <4>8, <4>9, <4>10, Zenon
      <4>. QED  BY <1>1, <1>3, <2>2, <4>11 DEF FramesInv, d, n
    <3>. QED  BY <3>3, <3>4
  <2>8. CASE ~WholeFrames /\ k \in 1..Len(z) /\ k # Len(z)
    <3>. DEFINE a == SubSeq(z, 1, k)
                y == SubSeq(z, k + 1, Len(z))
    <3>1. stream' = stream \o a /\ net' = <<y>> \o Tail(net)
      BY <2>4, <2>5, <2>8
    <3>2. a \in Seq(Byte) /\ y \in Seq(Byte) /\ a \o y = z
      <4>1. \A i \in 1..Len(z) : z[i] \in Byte
        BY LenProperties
      <4>2. a \in Seq(Byte) /\ y \in Seq(Byte)
        BY <2>6, <2>8, <4>1, SubSeqProperties
      <4>3. 1 \in 1..(Len(z) + 1) /\ k \in (1 - 1)..Len(z) /\ Len(z) \in k..Len(z)
        BY <2>6, <2>8
      <4>4. a \o y = SubSeq(z, 1, Len(z))
        BY <4>3, ConcatAdjacentSubSeq
      <4>. QED  BY <4>2, <4>4, SubSeqFull
    <3>. HIDE DEF a, y
    <3>3. InStep(reader, stream', replies, d, w, y)
      <4>1. InStep(reader, stream, replies, d, w, a \o y)
        BY <2>1, <3>2
      <4>2. InStep(reader, stream \o a, replies, d, w, y)
        BY <1>1, <2>8, <3>2, <4>1, InStepWrite
      <4>. QED  BY <3>1, <4>2
    <3>4. /\ net' # <<>> /\ net'[1] = y /\ Len(net') = Len(net)
          /\ \A i \in 2..Len(net) : net'[i] = net[i]
      <4>1. <<y>> \in Seq(Seq(Byte)) /\ Len(<<y>>) = 1 /\ <<y>>[1] = y
        BY <3>2
      <4>2. /\ Len(net') = 1 + Len(Tail(net))
            /\ \A i \in 1..(1 + Len(Tail(net))) :
                  net'[i] = IF i <= 1 THEN <<y>>[i] ELSE Tail(net)[i - 1]
        BY <2>4, <3>1, <4>1, ConcatProperties
      <4>3. Len(net') = Len(net) /\ net'[1] = y
        BY <2>4, <4>1, <4>2
      <4>4. ASSUME NEW i \in 2..Len(net)
            PROVE  net'[i] = net[i]
        <5>1. /\ i \in 1..(1 + Len(Tail(net))) /\ ~(i <= 1)
              /\ i - 1 \in 1..(Len(net) - 1) /\ (i - 1) + 1 = i
          BY <2>4, <4>4
        <5>. QED  BY <2>4, <4>2, <5>1
      <4>5. net' # <<>>
        BY <2>4, <4>3, EmptySeq
      <4>. QED  BY <4>3, <4>4, <4>5
    <3>5. Travels(conn', net', replies', w, y)
      BY <1>1, <2>3, <3>4 DEF Travels, n
    <3>6. InStep(reader', stream', replies', Len(delivered'), w, y)
      BY <1>1, <3>3 DEF d
    <3>7. \E u \in Nat, x \in Seq(Byte) :
             /\ InStep(reader', stream', replies', Len(delivered'), u, x)
             /\ Travels(conn', net', replies', u, x)
      BY <3>2, <3>5, <3>6, Zenon
    <3>. QED  BY <1>1, <1>3, <2>2, <3>7 DEF FramesInv, d, n
  <2>. QED  BY <2>6, <2>7, <2>8
<1>. QED  BY <1>2, <1>3

(* What is left of a closed connection is what arrived of it. *)
LEMMA FramesClose ==
    ASSUME TypeOK, FramesInv, Close
    PROVE  FramesInv'
<1>1. /\ conn = "open" /\ conn' = "closed" /\ net' = <<>>
      /\ UNCHANGED <<reader, stream, replies, delivered, cut>>
  BY DEF Close, fwdVars, history
<1>2. CASE cut
  BY <1>1, <1>2 DEF FramesInv
<1>3. CASE ~cut
  <2>1. PICK w \in Nat, z \in Seq(Byte) :
           /\ InStep(reader, stream, replies, Len(delivered), w, z)
           /\ Travels(conn, net, replies, w, z)
    BY <1>1, <1>3 DEF FramesInv
  <2>2. Travels(conn', net', replies', w, z)
    BY <1>1 DEF Travels
  <2>3. InStep(reader', stream', replies', Len(delivered'), w, z)
    BY <1>1, <2>1
  <2>. QED  BY <1>1, <1>3, <2>2, <2>3 DEF FramesInv
<1>. QED  BY <1>2, <1>3

LEMMA FramesStep ==
    ASSUME TypeOK, ShortOfNeed(reader), FramesInv, [Next]_vars
    PROVE  FramesInv'
<1>1. CASE UNCHANGED vars
  BY <1>1, FramesKept DEF vars, fwdVars, linkVars, history, frameVars
<1>2. CASE ConnectNow \/ Queue \/ BridgeEnds \/ CallShutdown \/ SendOk
  BY <1>2, FramesKept
  DEF ConnectNow, Queue, BridgeEnds, CallShutdown, SendOk, fwdVars, linkVars, history,
      frameVars
<1>3. CASE Disconnected \/ SendFails \/ Shutdown
  BY <1>3, FramesDropped DEF Disconnected, SendFails, Shutdown, history
<1>. QED
  BY <1>1, <1>2, <1>3, FramesConnect, FramesTake, FramesRead, FramesAnswer, FramesArrive,
     FramesClose
  DEF Next, Loop, Environment

(* Wherever the stream is cut, the bridge is handed the replies of this      *)
(* connection, in order and whole, up to the first request that wins select! *)
(* over a read that had taken part of a frame: its reader is made anew       *)
(* (tcp.rs:120), and what the connection delivers after that is anything.    *)
(* That never happens where frames arrive whole.  The run TcpForwarderCut    *)
(* shows that it does where they do not.                                     *)
THEOREM RepliesIntactHolds ==
    Spec => [](RepliesIntact \/ (cut /\ ~WholeFrames))
<1>1. LinkInv /\ FramesInv /\ [Next]_vars => FramesInv'
  BY FramesStep DEF LinkInv
<1>2. LinkInv /\ FramesInv => RepliesIntact \/ (cut /\ ~WholeFrames)
  <2>. SUFFICES ASSUME TypeOK, FramesInv, ~cut PROVE RepliesIntact
    BY DEF FramesInv, LinkInv
  <2>. DEFINE d == Len(delivered)
              a == SubSeq(delivered, 1, d)
              b == SubSeq(replies, 1, d)
  <2>1. /\ d \in Nat /\ Len(replies) \in Nat /\ d <= Len(replies)
        /\ \A i \in 1..Len(replies) : replies[i] \in Seq(Byte)
        /\ \A i \in 1..d : delivered[i] \in Seq(Byte) /\ delivered[i] = replies[i]
    BY LenProperties, MessageAssumption DEF TypeOK, FramesInv
  <2>2. a \in Seq(Seq(Byte)) /\ Len(a) = d /\ \A i \in 1..d : a[i] = delivered[i]
    BY <2>1, SubSeqProperties DEF TypeOK
  <2>3. b \in Seq(Seq(Byte)) /\ Len(b) = d /\ \A i \in 1..d : b[i] = replies[i]
    BY <2>1, SubSeqProperties
  <2>4. a = b
    <3>. HIDE DEF a, b, d
    <3>1. Len(a) = Len(b) /\ \A i \in 1..Len(a) : a[i] = b[i]
      BY <2>1, <2>2, <2>3
    <3>. QED  BY <2>2, <2>3, <3>1, SeqEqual
  <2>. QED  BY <2>1, <2>4 DEF RepliesIntact, IsPrefix
<1>3. IInv => LinkInv
  BY DEF IInv
<1>. QED  BY <1>1, <1>2, <1>3, FramesInit, Invariance, PTL DEF Spec
=============================================================================
