-------------------------- MODULE TcpTunnelProofs --------------------------
(***************************************************************************)
(* What an end of the tunnel receives, for all capacities of the sockets   *)
(* and any number of bytes either way.                                     *)
(***************************************************************************)
EXTENDS TcpTunnel, SequenceTheorems, TLAPS

(* The node that reads hop 1 of a direction, and the one that writes hop 3.  *)
First(d) == IF d = "up" THEN "sidecar" ELSE "agent"
Second(d) == IF d = "up" THEN "agent" ELSE "sidecar"

Data(d, h) == hop[d][h].data
Buf1(d) == buf[First(d)][d]
Buf2(d) == buf[Second(d)][d]

(* The session ended before it had pumps: its connect failed, or its          *)
(* connection was never accepted.                                             *)
Refused(n) == session[n] = "ended" /\ pump[n]["up"] = "none"

-----------------------------------------------------------------------------
(* The sessions and their pumps.                                           *)

Stopping == {"stopping1", "stopping2", "ended"}

SessionInv ==
    /\ \A n \in Node :
          /\ told[n] => service[n] = "ended"
          /\ pump[n]["up"] = "none" <=> pump[n]["down"] = "none"
          /\ session[n] \in {"none", "queued", "connecting"} => pump[n]["up"] = "none"
          /\ session[n] \in {"forwarding", "stopping1", "stopping2"} => pump[n]["up"] # "none"
    /\ session["agent"] # "none" => pump["sidecar"]["up"] # "none"
    /\ sent["down"] > 0 => pump["agent"]["up"] # "none"

(* Who has closed what. *)
SocketInv ==
    \A d \in Dir :
       /\ hop[d][2].gone => pump[Second(d)][d] = "ended" \/ Refused(Second(d))
       /\ hop[d][2].eof => pump[First(d)][d] = "ended" \/ Refused(First(d))
       /\ hop[d][3].eof => \/ pump[Second(d)][d] = "ended"
                           \/ d = "down" /\ Refused("sidecar")

(* A pump that writes has something to write, and none is there before it.   *)
IdleInv ==
    \A n \in Node, d \in Dir :
       /\ pump[n][d] = "writing" => buf[n][d] # <<>>
       /\ pump[n][d] = "none" => Data(d, Out(n, d)) = <<>>

-----------------------------------------------------------------------------
(* The bytes.                                                              *)

(* The bytes of s are the ones that follow the first a. *)
Follows(s, a) == \A k \in DOMAIN s : s[k] = a + k

(* Every byte there is was sent. *)
SentInv ==
    \A d \in Dir :
       /\ \A h \in Hop : Data(d, h) \in Seq(1..sent[d])
       /\ \A n \in Node : buf[n][d] \in Seq(1..sent[d])
       /\ received[d] \in Seq(1..sent[d])

(* A line of places, the last first: each holds the bytes that follow the    *)
(* ones past it.                                                             *)
InLine3(r, h3) == Follows(h3, Len(r))
InLine2(r, h3, b2, h2) ==
    /\ Follows(b2, Len(r) + Len(h3))
    /\ Follows(h2, Len(r) + Len(h3) + Len(b2))
InLine1(r, h3, b2, h2, b1, h1) ==
    /\ Follows(b1, Len(r) + Len(h3) + Len(b2) + Len(h2))
    /\ Follows(h1, Len(r) + Len(h3) + Len(b2) + Len(h2) + Len(b1))
Total(r, h3, b2, h2, b1, h1) ==
    Len(r) + Len(h3) + Len(b2) + Len(h2) + Len(b1) + Len(h1)

(* The bytes of direction d, wherever they are. *)
Everything(d) ==
    Total(received[d], Data(d, 3), Buf2(d), Data(d, 2), Buf1(d), Data(d, 1))

(* The places are in line as far as bytes can still get through. *)
InOrderFor(d) ==
    /\ Follows(received[d], 0)
    /\ ~hop[d][3].gone =>
          /\ InLine3(received[d], Data(d, 3))
          /\ pump[Second(d)][d] # "ended" =>
                /\ InLine2(received[d], Data(d, 3), Buf2(d), Data(d, 2))
                /\ pump[First(d)][d] # "ended" =>
                      /\ InLine1(received[d], Data(d, 3), Buf2(d), Data(d, 2),
                                 Buf1(d), Data(d, 1))
                      /\ ~hop[d][1].eof => Everything(d) = sent[d]

OrderInv == \A d \in Dir : InOrderFor(d)

(* While nothing but the source of d can end the tunnel: no byte is lost, and *)
(* each pump ends in the order of the stream, once it has drained its hop.    *)
Drained(d, n) ==
    /\ session[n] \in Stopping => pump[n][d] = "ended"
    /\ pump[n][Opposite(d)] = "ended" => pump[n][d] = "ended"
    /\ pump[n][d] = "ended" => hop[d][In(n, d)].eof /\ Data(d, In(n, d)) = <<>>

Lossless(d) ==
    Drained(d, First(d)) /\ Drained(d, Second(d)) /\ Everything(d) = sent[d]

Calm(d) == Quiet(d) /\ ~Refused("sidecar") /\ ~Refused("agent")

LossInv == \A d \in Dir : Calm(d) => Lossless(d)

IInv ==
    /\ TypeOK /\ SessionInv /\ SocketInv /\ IdleInv
    /\ SentInv /\ OrderInv /\ LossInv

-----------------------------------------------------------------------------
(* Directions, nodes and hops.                                             *)

LEMMA Places ==
    ASSUME NEW d \in Dir
    PROVE  /\ First(d) \in Node /\ Second(d) \in Node /\ First(d) # Second(d)
           /\ In(First(d), d) = 1 /\ Out(First(d), d) = 2
           /\ In(Second(d), d) = 2 /\ Out(Second(d), d) = 3
           /\ \A n \in Node : n = First(d) \/ n = Second(d)
  BY DEF Dir, Node, First, Second, In, Out

LEMMA Opposites ==
    ASSUME NEW d \in Dir
    PROVE  /\ Opposite(d) \in Dir /\ Opposite(d) # d /\ Opposite(Opposite(d)) = d
           /\ First(Opposite(d)) = Second(d) /\ Second(Opposite(d)) = First(d)
           /\ \A x \in Dir : x = d \/ x = Opposite(d)
  BY DEF Dir, First, Second, Opposite

LEMMA Hops ==
    ASSUME NEW n \in Node, NEW d \in Dir
    PROVE  In(n, d) \in Hop /\ Out(n, d) \in Hop /\ In(n, d) # Out(n, d) /\ In(n, d) # 3
           /\ Out(n, d) # 1
  BY Places DEF Hop

LEMMA Pumps == \A n \in Node : Fwd1(n) \in Dir /\ Fwd2(n) \in Dir /\ Fwd1(n) # Fwd2(n)
<1>1. \A n \in Node : \E d \in Dir : In(n, d) = 1
  BY DEF Node, Dir, In
<1>2. \A n \in Node : Fwd1(n) \in Dir
  BY <1>1 DEF Fwd1
<1>. QED  BY <1>2, Opposites DEF Fwd2

-----------------------------------------------------------------------------
(* What happens to a hop.                                                  *)

Pipes == [Dir -> [Hop -> Pipe]]

(* Bytes of hop (d, h) change, and nothing else. *)
SetsData(p, q, d, h, s) ==
    /\ q \in Pipes
    /\ q[d][h].data = s
    /\ \A x \in Dir, y \in Hop : x # d \/ y # h => q[x][y].data = p[x][y].data
    /\ \A x \in Dir, y \in Hop : q[x][y].eof = p[x][y].eof /\ q[x][y].gone = p[x][y].gone

LEMMA SettingData ==
    ASSUME NEW p \in Pipes, NEW d \in Dir, NEW h \in Hop, NEW s \in Seq(Nat)
    PROVE  SetsData(p, [p EXCEPT ![d][h].data = s], d, h, s)
<1>. DEFINE q == [p EXCEPT ![d][h].data = s]
            r == [p[d][h] EXCEPT !.data = s]
<1>1. p[d] \in [Hop -> Pipe] /\ p[d][h] \in Pipe
  BY DEF Pipes
<1>2. r \in Pipe /\ r.data = s /\ r.eof = p[d][h].eof /\ r.gone = p[d][h].gone
  BY <1>1 DEF Pipe
<1>3. q[d][h] = r
  BY <1>1 DEF Pipes
<1>4. \A x \in Dir, y \in Hop : x # d \/ y # h => q[x][y] = p[x][y]
  BY DEF Pipes
<1>5. q \in Pipes
  BY <1>1, <1>2 DEF Pipes
<1>. HIDE DEF q, r
<1>6. SetsData(p, q, d, h, s)
  BY <1>2, <1>3, <1>4, <1>5 DEF SetsData
<1>. QED  BY <1>6 DEF q

LEMMA PrefixesOf ==
    ASSUME NEW S, NEW s \in Seq(S)
    PROVE  /\ s \in Prefixes(s)
           /\ \A t \in Prefixes(s) :
                 /\ t \in Seq(S) /\ Len(t) <= Len(s)
                 /\ \A k \in DOMAIN t : k \in DOMAIN s /\ t[k] = s[k]
                 /\ s = <<>> => t = <<>>
<1>1. Len(s) \in Nat /\ s = SubSeq(s, 1, Len(s))
  BY SubSeqProperties, SubSeqFull
<1>2. s \in Prefixes(s)
  <2>1. Len(s) \in 0..Len(s)
    BY <1>1
  <2>2. \E m \in 0..Len(s) : s = SubSeq(s, 1, m)
    BY <1>1, <2>1, Zenon
  <2>. QED  BY <2>2, Zenon DEF Prefixes
<1>3. ASSUME NEW t \in Prefixes(s)
      PROVE  /\ t \in Seq(S) /\ Len(t) <= Len(s)
             /\ \A k \in DOMAIN t : k \in DOMAIN s /\ t[k] = s[k]
             /\ s = <<>> => t = <<>>
  <2>1. PICK m \in 0..Len(s) : t = SubSeq(s, 1, m)
    BY DEF Prefixes
  <2>2. /\ t \in Seq(S) /\ Len(t) = m
        /\ \A k \in 1..m : t[k] = s[k]
    BY <1>1, <2>1, SubSeqProperties
  <2>. QED  BY <1>1, <2>1, <2>2
<1>. QED  BY <1>2, <1>3

LEMMA PrefixOfPrefix ==
    ASSUME NEW S, NEW s \in Seq(S), NEW t \in Prefixes(s), NEW r \in Prefixes(t)
    PROVE  r \in Prefixes(s)
<1>1. PICK m \in 0..Len(s) : t = SubSeq(s, 1, m)
  BY DEF Prefixes
<1>2. Len(s) \in Nat /\ \A k \in 1..Len(s) : s[k] \in S
  OBVIOUS
<1>3. /\ t \in Seq(S) /\ Len(t) = m
      /\ \A k \in 1..m : t[k] = s[k]
  BY <1>1, <1>2, SubSeqProperties
<1>4. PICK j \in 0..Len(t) : r = SubSeq(t, 1, j)
  BY DEF Prefixes
<1>5. j \in 0..Len(s) /\ j \in 0..m /\ m \in Nat
  BY <1>2, <1>3, <1>4
<1>6. /\ r \in Seq(S) /\ Len(r) = j
      /\ \A k \in 1..j : r[k] = t[k]
  BY <1>3, <1>4, <1>5, SubSeqProperties
<1>7. /\ SubSeq(s, 1, j) \in Seq(S) /\ Len(SubSeq(s, 1, j)) = j
      /\ \A k \in 1..j : SubSeq(s, 1, j)[k] = s[k]
  BY <1>2, <1>5, SubSeqProperties
<1>8. r = SubSeq(s, 1, j)
  <2>. DEFINE z == SubSeq(s, 1, j)
  <2>1. z \in Seq(S) /\ Len(z) = Len(r) /\ \A k \in 1..Len(r) : r[k] = z[k]
    BY <1>3, <1>5, <1>6, <1>7
  <2>. HIDE DEF z
  <2>2. r = z
    BY <1>6, <2>1, SeqEqual
  <2>. QED  BY <2>2 DEF z
<1>9. \E k \in 0..Len(s) : r = SubSeq(s, 1, k)
  BY <1>5, <1>8, Zenon
<1>. QED  BY <1>9, Zenon DEF Prefixes

(* A socket is closed: its peer is told at both ends of it, and what was     *)
(* under way may be cut short.                                               *)
Closes(p, q, d, i, o) ==
    LET e == Opposite(d)
    IN  /\ q \in Pipes
        /\ q[d][i].gone
        /\ \A x \in Dir, y \in Hop : x # d \/ y # i => q[x][y].gone = p[x][y].gone
        /\ q[e][o].eof
        /\ \A x \in Dir, y \in Hop : x # e \/ y # o => q[x][y].eof = p[x][y].eof
        /\ q[e][o].data \in Prefixes(p[e][o].data)
        /\ o = 2 \/ p[d][i].data = <<>> => q[e][o].data = p[e][o].data
        /\ \A x \in Dir, y \in Hop : x # e \/ y # o => q[x][y].data = p[x][y].data

LEMMA Closing ==
    ASSUME NEW p \in Pipes, NEW d \in Dir, NEW i \in Hop, NEW o \in Hop,
           NEW q \in ClosedSocket(p, d, i, o)
    PROVE  Closes(p, q, d, i, o)
<1>. DEFINE e == Opposite(d)
<1>0. e \in Dir /\ e # d
  BY Opposites
<1>1. PICK kept \in IF o # 2 /\ p[d][i].data # <<>>
                    THEN Prefixes(p[e][o].data) ELSE {p[e][o].data} :
         q = [p EXCEPT ![d][i].gone = TRUE, ![e][o].eof = TRUE, ![e][o].data = kept]
  BY DEF ClosedSocket
<1>2. \A x \in Dir, y \in Hop : p[x] \in [Hop -> Pipe] /\ p[x][y] \in Pipe
  BY DEF Pipes
<1>3. p[e][o].data \in Seq(Nat)
  BY <1>0, <1>2 DEF Pipe
<1>4. /\ kept \in Prefixes(p[e][o].data)
      /\ o = 2 \/ p[d][i].data = <<>> => kept = p[e][o].data
  BY <1>1, <1>3, PrefixesOf
<1>5. kept \in Seq(Nat)
  BY <1>3, <1>4, PrefixesOf
<1>. DEFINE u == [p[d][i] EXCEPT !.gone = TRUE]
            v == [p[e][o] EXCEPT !.eof = TRUE, !.data = kept]
<1>6. /\ u \in Pipe /\ u.gone /\ u.eof = p[d][i].eof /\ u.data = p[d][i].data
      /\ v \in Pipe /\ v.eof /\ v.gone = p[e][o].gone /\ v.data = kept
  BY <1>0, <1>2, <1>5 DEF Pipe
<1>7. q[d][i] = u /\ q[e][o] = v
  BY <1>0, <1>1, <1>2 DEF Pipes
<1>8. \A x \in Dir, y \in Hop : (x # d \/ y # i) /\ (x # e \/ y # o) => q[x][y] = p[x][y]
  BY <1>0, <1>1, <1>2 DEF Pipes
<1>9. q \in Pipes
  <2>1. q \in [Dir -> [Hop -> {u, v} \cup Pipe]]
    BY <1>0, <1>1, <1>2 DEF Pipes
  <2>. QED  BY <1>6, <2>1 DEF Pipes
<1>. HIDE DEF u, v
<1>. QED  BY <1>0, <1>4, <1>6, <1>7, <1>8, <1>9 DEF Closes

(* Sockets are only closed: what was ended stays so, and bytes under way are *)
(* cut short at most, on TCP, at the end of a stream, and if the closed      *)
(* socket had bytes that nobody read.                                        *)
Shuts(p, q) ==
    /\ q \in Pipes
    /\ \A x \in Dir, y \in Hop :
          /\ p[x][y].eof => q[x][y].eof
          /\ p[x][y].gone => q[x][y].gone
          /\ q[x][y].data \in Prefixes(p[x][y].data)
          /\ \/ q[x][y].data = p[x][y].data
             \/ y # 2 /\ q[x][y].eof /\ \E h \in Hop : p[Opposite(x)][h].data # <<>>

LEMMA ClosingShuts ==
    ASSUME NEW p \in Pipes, NEW d \in Dir, NEW i \in Hop, NEW o \in Hop,
           NEW q, Closes(p, q, d, i, o)
    PROVE  Shuts(p, q)
<1>. DEFINE e == Opposite(d)
<1>0. e \in Dir /\ Opposite(e) = d
  BY Opposites
<1>1. q \in Pipes
  BY DEF Closes
<1>2. ASSUME NEW x \in Dir, NEW y \in Hop
      PROVE  /\ p[x][y].eof => q[x][y].eof
             /\ p[x][y].gone => q[x][y].gone
             /\ q[x][y].data \in Prefixes(p[x][y].data)
             /\ \/ q[x][y].data = p[x][y].data
                \/ y # 2 /\ q[x][y].eof /\ \E h \in Hop : p[Opposite(x)][h].data # <<>>
  <2>1. p[x][y].data \in Seq(Nat)
    BY DEF Pipes, Pipe
  <2>2. p[x][y].data \in Prefixes(p[x][y].data)
    BY <2>1, PrefixesOf
  <2>3. (p[x][y].eof => q[x][y].eof) /\ (p[x][y].gone => q[x][y].gone)
    BY DEF Closes
  <2>4. CASE x = e /\ y = o
    BY <1>0, <2>3, <2>4 DEF Closes
  <2>5. CASE x # e \/ y # o
    BY <2>2, <2>3, <2>5 DEF Closes
  <2>. QED  BY <2>4, <2>5
<1>. QED  BY <1>1, <1>2 DEF Shuts

LEMMA ShutsAgain ==
    ASSUME NEW p \in Pipes, NEW q, NEW r, Shuts(p, q), Shuts(q, r)
    PROVE  Shuts(p, r)
<1>1. q \in Pipes /\ r \in Pipes
  BY DEF Shuts
<1>2. \A x \in Dir, y \in Hop : p[x][y].data \in Seq(Nat) /\ q[x][y].data \in Seq(Nat)
  BY <1>1 DEF Pipes, Pipe
<1>3. ASSUME NEW x \in Dir, NEW y \in Hop
      PROVE  /\ p[x][y].eof => r[x][y].eof
             /\ p[x][y].gone => r[x][y].gone
             /\ r[x][y].data \in Prefixes(p[x][y].data)
             /\ \/ r[x][y].data = p[x][y].data
                \/ y # 2 /\ r[x][y].eof /\ \E h \in Hop : p[Opposite(x)][h].data # <<>>
  <2>1. /\ p[x][y].eof => q[x][y].eof
        /\ p[x][y].gone => q[x][y].gone
        /\ q[x][y].data \in Prefixes(p[x][y].data)
        /\ \/ q[x][y].data = p[x][y].data
           \/ y # 2 /\ q[x][y].eof /\ \E h \in Hop : p[Opposite(x)][h].data # <<>>
    BY DEF Shuts
  <2>2. /\ q[x][y].eof => r[x][y].eof
        /\ q[x][y].gone => r[x][y].gone
        /\ r[x][y].data \in Prefixes(q[x][y].data)
        /\ \/ r[x][y].data = q[x][y].data
           \/ y # 2 /\ r[x][y].eof /\ \E h \in Hop : q[Opposite(x)][h].data # <<>>
    BY DEF Shuts
  <2>3. \A h \in Hop : q[Opposite(x)][h].data # <<>> => p[Opposite(x)][h].data # <<>>
    <3>. SUFFICES ASSUME NEW h \in Hop, p[Opposite(x)][h].data = <<>>
                  PROVE  q[Opposite(x)][h].data = <<>>
      OBVIOUS
    <3>1. q[Opposite(x)][h].data \in Prefixes(p[Opposite(x)][h].data)
      BY Opposites DEF Shuts
    <3>. QED  BY <1>2, <3>1, Opposites, PrefixesOf
  <2>4. r[x][y].data \in Prefixes(p[x][y].data)
    BY <1>2, <2>1, <2>2, PrefixOfPrefix
  <2>. QED  BY <2>1, <2>2, <2>3, <2>4
<1>. QED  BY <1>1, <1>3 DEF Shuts

(* One stream is ended, and nothing else. *)
EndsStream(p, q, d, o) ==
    \A x \in Dir, y \in Hop :
       /\ x = d /\ y = o => q[x][y].eof
       /\ x # d \/ y # o => q[x][y].eof = p[x][y].eof
       /\ q[x][y].gone = p[x][y].gone

LEMMA EndingShuts ==
    ASSUME NEW p \in Pipes, NEW d \in Dir, NEW o \in Hop,
           NEW q, q = [p EXCEPT ![d][o].eof = TRUE]
    PROVE  Shuts(p, q) /\ EndsStream(p, q, d, o)
<1>. DEFINE u == [p[d][o] EXCEPT !.eof = TRUE]
<1>1. \A x \in Dir, y \in Hop : p[x] \in [Hop -> Pipe] /\ p[x][y] \in Pipe
  BY DEF Pipes
<1>2. u \in Pipe /\ u.eof /\ u.gone = p[d][o].gone /\ u.data = p[d][o].data
  BY <1>1 DEF Pipe
<1>3. q[d][o] = u /\ \A x \in Dir, y \in Hop : x # d \/ y # o => q[x][y] = p[x][y]
  BY <1>1 DEF Pipes
<1>4. q \in Pipes
  BY <1>1, <1>2 DEF Pipes
<1>. HIDE DEF u
<1>5. \A x \in Dir, y \in Hop :
        /\ x = d /\ y = o => q[x][y].eof
        /\ x # d \/ y # o => q[x][y].eof = p[x][y].eof
        /\ q[x][y].gone = p[x][y].gone
        /\ q[x][y].data = p[x][y].data
  BY <1>2, <1>3
<1>6. \A x \in Dir, y \in Hop : p[x][y].data \in Prefixes(p[x][y].data)
  BY <1>1, PrefixesOf DEF Pipe
<1>7. Shuts(p, q)
  <2>1. \A x \in Dir, y \in Hop : p[x][y].eof => q[x][y].eof
    BY <1>5
  <2>. QED  BY <1>4, <1>5, <1>6, <2>1 DEF Shuts
<1>. QED  BY <1>5, <1>7 DEF EndsStream

-----------------------------------------------------------------------------
(* What the actions do to the hops.                                        *)

(* A pump that ends closes what the two pumps of its session have both left. *)
LEMMA PumpEndsShuts ==
    ASSUME TypeOK, NEW n \in Node, NEW d \in Dir, PumpEnds(n, d)
    PROVE  /\ Shuts(hop, hop')
           /\ hop'[d][Out(n, d)].eof
           /\ \A x \in Dir, y \in Hop :
                 /\ hop'[x][y].eof => \/ hop[x][y].eof
                                      \/ y = Out(n, x) /\ pump'[n][x] = "ended"
                 /\ hop'[x][y].gone => \/ hop[x][y].gone
                                       \/ y = In(n, x) /\ pump'[n][x] = "ended"
<1>. DEFINE e == Opposite(d)
            done == [hop EXCEPT ![d][Out(n, d)].eof = TRUE]
<1>0. e \in Dir /\ e # d /\ Opposite(e) = d /\ \A x \in Dir : x = d \/ x = e
  BY Opposites
<1>1. /\ In(n, d) \in Hop /\ Out(n, d) \in Hop /\ In(n, e) \in Hop /\ Out(n, e) \in Hop
  BY <1>0, Hops
<1>2. hop \in Pipes
  BY DEF TypeOK, Pipes
<1>3a. Shuts(hop, done) /\ EndsStream(hop, done, d, Out(n, d))
  BY <1>1, <1>2, EndingShuts
<1>3. /\ Shuts(hop, done)
      /\ \A x \in Dir, y \in Hop :
            /\ x = d /\ y = Out(n, d) => done[x][y].eof
            /\ x # d \/ y # Out(n, d) => done[x][y].eof = hop[x][y].eof
            /\ done[x][y].gone = hop[x][y].gone
  BY <1>3a DEF EndsStream
<1>4. pump'[n][d] = "ended" /\ pump'[n][e] = pump[n][e]
  BY <1>0 DEF PumpEnds, TypeOK
<1>5. \/ hop' = done
      \/ /\ pump[n][e] = "ended"
         /\ \E half \in ClosedSocket(done, d, In(n, d), Out(n, e)) :
               hop' \in ClosedSocket(half, e, In(n, e), Out(n, d))
  BY DEF PumpEnds
<1>. HIDE DEF done
<1>6. CASE hop' = done
  BY <1>1, <1>3, <1>4, <1>6
<1>7. CASE /\ pump[n][e] = "ended"
           /\ \E half \in ClosedSocket(done, d, In(n, d), Out(n, e)) :
                 hop' \in ClosedSocket(half, e, In(n, e), Out(n, d))
  <2>1. PICK half \in ClosedSocket(done, d, In(n, d), Out(n, e)) :
           hop' \in ClosedSocket(half, e, In(n, e), Out(n, d))
    BY <1>7
  <2>2. done \in Pipes
    BY <1>3 DEF Shuts
  <2>3. Closes(done, half, d, In(n, d), Out(n, e))
    BY <1>1, <2>1, <2>2, Closing
  <2>4. Shuts(done, half)
    BY <1>1, <2>2, <2>3, ClosingShuts
  <2>5. half \in Pipes
    BY <2>4 DEF Shuts
  <2>6. Closes(half, hop', e, In(n, e), Out(n, d))
    BY <1>0, <1>1, <2>1, <2>5, Closing
  <2>7. Shuts(half, hop')
    BY <1>0, <1>1, <2>5, <2>6, ClosingShuts
  <2>8. Shuts(hop, hop')
    <3>1. Shuts(hop, half)
      BY <1>2, <1>3, <2>4, ShutsAgain
    <3>. QED  BY <1>2, <2>7, <3>1, ShutsAgain
  <2>9. hop'[d][Out(n, d)].eof
    BY <1>0, <2>6 DEF Closes
  <2>10. ASSUME NEW x \in Dir, NEW y \in Hop, hop'[x][y].eof
         PROVE  hop[x][y].eof \/ (y = Out(n, x) /\ pump'[n][x] = "ended")
    <3>1. CASE x = d /\ y = Out(n, d)
      BY <1>4, <3>1
    <3>2. CASE x = e /\ y = Out(n, e)
      BY <1>4, <1>7, <3>2
    <3>3. CASE ~(x = d /\ y = Out(n, d)) /\ ~(x = e /\ y = Out(n, e))
      <4>1. half[x][y].eof
        BY <1>0, <2>6, <2>10, <3>3 DEF Closes
      <4>2. done[x][y].eof
        BY <1>0, <2>3, <3>3, <4>1 DEF Closes
      <4>. QED  BY <1>3, <3>3, <4>2
    <3>. QED  BY <3>1, <3>2, <3>3
  <2>11. ASSUME NEW x \in Dir, NEW y \in Hop, hop'[x][y].gone
         PROVE  hop[x][y].gone \/ (y = In(n, x) /\ pump'[n][x] = "ended")
    <3>1. CASE x = d /\ y = In(n, d)
      BY <1>4, <3>1
    <3>2. CASE x = e /\ y = In(n, e)
      BY <1>4, <1>7, <3>2
    <3>3. CASE ~(x = d /\ y = In(n, d)) /\ ~(x = e /\ y = In(n, e))
      <4>1. half[x][y].gone
        BY <1>0, <2>6, <2>11, <3>3 DEF Closes
      <4>2. done[x][y].gone
        BY <1>0, <2>3, <3>3, <4>1 DEF Closes
      <4>. QED  BY <1>3, <3>3, <4>2
    <3>. QED  BY <3>1, <3>2, <3>3
  <2>. QED  BY <2>8, <2>9, <2>10, <2>11
<1>. QED  BY <1>5, <1>6, <1>7

LEMMA CloseAcceptedShuts ==
    ASSUME TypeOK, NEW n \in Node, CloseAccepted(n)
    PROVE  /\ Shuts(hop, hop')
           /\ \A x \in Dir, y \in Hop :
                 /\ hop'[x][y].eof => hop[x][y].eof \/ (x = "down" /\ y = Out(n, "down"))
                 /\ hop'[x][y].gone => hop[x][y].gone \/ (x = "up" /\ y = In(n, "up"))
<1>0. "up" \in Dir /\ "down" \in Dir /\ Opposite("up") = "down"
  BY DEF Dir, Opposite
<1>1. In(n, "up") \in Hop /\ Out(n, "down") \in Hop
  BY <1>0, Hops
<1>2. hop \in Pipes
  BY DEF TypeOK, Pipes
<1>3. Closes(hop, hop', "up", In(n, "up"), Out(n, "down"))
  BY <1>0, <1>1, <1>2, Closing DEF CloseAccepted
<1>4. Shuts(hop, hop')
  BY <1>0, <1>1, <1>2, <1>3, ClosingShuts
<1>. QED  BY <1>0, <1>3, <1>4 DEF Closes

LEMMA CloseShuts ==
    ASSUME TypeOK, NEW d \in Dir, Close(d)
    PROVE  /\ Shuts(hop, hop')
           /\ hop'[d][1].eof
           /\ \A x \in Dir, y \in Hop :
                 /\ hop'[x][y].eof => hop[x][y].eof \/ (x = d /\ y = 1)
                 /\ hop'[x][y].gone => hop[x][y].gone \/ (x = Opposite(d) /\ y = 3)
<1>0. Opposite(d) \in Dir /\ Opposite(Opposite(d)) = d /\ 1 \in Hop /\ 3 \in Hop
  BY Opposites DEF Hop
<1>2. hop \in Pipes
  BY DEF TypeOK, Pipes
<1>3. Closes(hop, hop', Opposite(d), 3, 1)
  BY <1>0, <1>2, Closing DEF Close
<1>4. Shuts(hop, hop')
  BY <1>0, <1>2, <1>3, ClosingShuts
<1>. QED  BY <1>0, <1>3, <1>4 DEF Closes

LEMMA HalfCloseShuts ==
    ASSUME TypeOK, NEW d \in Dir, HalfClose(d)
    PROVE  /\ Shuts(hop, hop')
           /\ hop'[d][1].eof
           /\ \A x \in Dir, y \in Hop :
                 /\ hop'[x][y].eof => hop[x][y].eof \/ (x = d /\ y = 1)
                 /\ hop'[x][y].gone => hop[x][y].gone
<1>1. hop \in Pipes /\ 1 \in Hop
  BY DEF TypeOK, Pipes, Hop
<1>2. hop' = [hop EXCEPT ![d][1].eof = TRUE]
  BY DEF HalfClose
<1>3. Shuts(hop, hop') /\ EndsStream(hop, hop', d, 1)
  BY <1>1, <1>2, EndingShuts
<1>. QED  BY <1>1, <1>3 DEF EndsStream

LEMMA NothingShuts ==
    ASSUME TypeOK, UNCHANGED hop
    PROVE  Shuts(hop, hop')
<1>1. hop \in Pipes /\ \A x \in Dir, y \in Hop : hop[x][y].data \in Seq(Nat)
  BY DEF TypeOK, Pipes, Pipe
<1>2. \A x \in Dir, y \in Hop : hop[x][y].data \in Prefixes(hop[x][y].data)
  BY <1>1, PrefixesOf
<1>. QED  BY <1>1, <1>2 DEF Shuts


LEMMA ReadSets ==
    ASSUME TypeOK, NEW n \in Node, NEW d \in Dir, Read(n, d)
    PROVE  SetsData(hop, hop', d, In(n, d), <<>>)
<1>1. hop \in Pipes /\ In(n, d) \in Hop /\ <<>> \in Seq(Nat)
  BY Hops DEF TypeOK, Pipes
<1>. QED  BY <1>1, SettingData DEF Read

LEMMA ReceiveSets ==
    ASSUME TypeOK, NEW d \in Dir, Receive(d)
    PROVE  SetsData(hop, hop', d, 3, Tail(hop[d][3].data))
<1>1. hop \in Pipes /\ 3 \in Hop /\ hop[d][3].data \in Seq(Nat) /\ hop[d][3].data # <<>>
  BY DEF TypeOK, Pipes, Hop, Receive, Pipe
<1>2. Tail(hop[d][3].data) \in Seq(Nat)
  BY <1>1, HeadTailProperties
<1>3. hop' = [hop EXCEPT ![d][3].data = Tail(hop[d][3].data)]
  BY DEF Receive
<1>. QED  BY <1>1, <1>2, <1>3, SettingData

LEMMA SendSets ==
    ASSUME TypeOK, NEW d \in Dir, Send(d)
    PROVE  SetsData(hop, hop', d, 1, Append(hop[d][1].data, sent[d] + 1))
<1>1. hop \in Pipes /\ 1 \in Hop /\ hop[d][1].data \in Seq(Nat) /\ sent[d] + 1 \in Nat
  BY DEF TypeOK, Pipes, Hop, Pipe
<1>2. Append(hop[d][1].data, sent[d] + 1) \in Seq(Nat)
  BY <1>1, AppendProperties
<1>3. hop' = [hop EXCEPT ![d][1].data = Append(hop[d][1].data, sent[d] + 1)]
  BY DEF Send
<1>. QED  BY <1>1, <1>2, <1>3, SettingData

LEMMA WriteSets ==
    ASSUME TypeOK, NEW n \in Node, NEW d \in Dir, Write(n, d), buf[n][d] # <<>>
    PROVE  \/ UNCHANGED hop /\ Out(n, d) = 3 /\ hop[d][3].gone
           \/ /\ Len(hop[d][Out(n, d)].data) < Capacity[Out(n, d)]
              /\ SetsData(hop, hop', d, Out(n, d),
                          Append(hop[d][Out(n, d)].data, Head(buf[n][d])))
<1>. DEFINE o == Out(n, d)
<1>1. hop \in Pipes /\ o \in Hop /\ hop[d][o].data \in Seq(Nat) /\ buf[n][d] \in Seq(Nat)
  BY Hops DEF TypeOK, Pipes, Hop, Pipe
<1>2. Append(hop[d][o].data, Head(buf[n][d])) \in Seq(Nat)
  BY <1>1, HeadTailProperties, AppendProperties
<1>3. \/ UNCHANGED hop /\ o = 3 /\ hop[d][3].gone
      \/ /\ Len(hop[d][o].data) < Capacity[o]
         /\ hop' = [hop EXCEPT ![d][o].data = Append(hop[d][o].data, Head(buf[n][d]))]
  BY DEF Write
<1>. HIDE DEF o
<1>4. SetsData(hop, [hop EXCEPT ![d][o].data = Append(hop[d][o].data, Head(buf[n][d]))],
               d, o, Append(hop[d][o].data, Head(buf[n][d])))
  BY <1>1, <1>2, SettingData
<1>5. \/ UNCHANGED hop /\ o = 3 /\ hop[d][3].gone
      \/ /\ Len(hop[d][o].data) < Capacity[o]
         /\ SetsData(hop, hop', d, o, Append(hop[d][o].data, Head(buf[n][d])))
  BY <1>3, <1>4
<1>. QED  BY <1>5 DEF o

-----------------------------------------------------------------------------
(* The type invariant.  It needs to know that a pump that writes has bytes,  *)
(* and that the agent has no session before the sidecar's is connected.      *)

HopOK ==
    /\ hop \in [Dir -> [Hop -> Pipe]]
    /\ \A d \in Dir, h \in Hop : Len(hop[d][h].data) <= Capacity[h]

LEMMA ShutsHopOK ==
    ASSUME TypeOK, Shuts(hop, hop')
    PROVE  HopOK'
<1>1. ASSUME NEW d \in Dir, NEW h \in Hop
      PROVE  Len(hop'[d][h].data) <= Capacity[h]
  <2>1. /\ hop[d][h].data \in Seq(Nat) /\ Len(hop[d][h].data) <= Capacity[h]
        /\ Capacity[h] \in Nat
    BY CapacityAssumption DEF TypeOK, Pipe
  <2>2. hop'[d][h].data \in Prefixes(hop[d][h].data)
    BY DEF Shuts
  <2>3. Len(hop'[d][h].data) <= Len(hop[d][h].data) /\ hop'[d][h].data \in Seq(Nat)
    BY <2>1, <2>2, PrefixesOf
  <2>4. Len(hop'[d][h].data) \in Nat /\ Len(hop[d][h].data) \in Nat
    BY <2>1, <2>3
  <2>. QED  BY <2>1, <2>3, <2>4
<1>2. hop' \in [Dir -> [Hop -> Pipe]]
  BY DEF Shuts, Pipes
<1>. QED  BY <1>1, <1>2 DEF HopOK

LEMMA SetsHopOK ==
    ASSUME TypeOK, NEW d \in Dir, NEW h \in Hop, NEW s \in Seq(Nat),
           SetsData(hop, hop', d, h, s), Len(s) <= Capacity[h]
    PROVE  HopOK'
<1>1. ASSUME NEW x \in Dir, NEW y \in Hop
      PROVE  Len(hop'[x][y].data) <= Capacity[y]
  <2>1. CASE x = d /\ y = h
    BY <2>1 DEF SetsData
  <2>2. CASE x # d \/ y # h
    <3>1. hop'[x][y].data = hop[x][y].data
      BY <2>2 DEF SetsData
    <3>. QED  BY <3>1 DEF TypeOK
  <2>. QED  BY <2>1, <2>2
<1>2. hop' \in [Dir -> [Hop -> Pipe]]
  BY DEF SetsData, Pipes
<1>. QED  BY <1>1, <1>2 DEF HopOK

(* A session's own steps leave the bytes alone. *)
LEMMA TypeSession ==
    ASSUME TypeOK, SessionInv, NEW n \in Node,
           \/ Accept(n) \/ AcceptAnother(n) \/ ServiceEnds(n) \/ Session(n)
    PROVE  TypeOK'
<1>. USE DEF nodeVars
<1>1. HopOK'
  <2>1. UNCHANGED hop \/ CloseAccepted(n)
    BY DEF Accept, AcceptAnother, ServiceEnds, Session, Connected, NotConnected,
       StopFwd1, StopFwd2, SessionEnds
  <2>. QED  BY <2>1, NothingShuts, CloseAcceptedShuts, ShutsHopOK
<1>2. UNCHANGED <<buf, sent, received>>
  BY DEF Accept, AcceptAnother, ServiceEnds, Session, Connected, NotConnected,
     StopFwd1, StopFwd2, SessionEnds
<1>3. "sidecar" \in Node /\ "agent" \in Node /\ \A m \in Node : m = "sidecar" \/ m = "agent"
  BY DEF Node
<1>4. /\ pump' \in [Node -> [Dir -> {"none", "reading", "writing", "ended"}]]
      /\ \A m \in Node, d \in Dir : buf'[m][d] # <<>> => pump'[m][d] = "writing"
  <2>1. CASE Connected(n)
    <3>1. pump[n]["up"] = "none" /\ pump[n]["down"] = "none"
      BY <2>1 DEF Connected, SessionInv
    <3>2. \A d \in Dir : buf[n][d] = <<>>
      BY <3>1 DEF TypeOK, Dir
    <3>. QED  BY <1>2, <2>1, <3>2 DEF Connected, StartFwds, TypeOK
  <2>2. CASE UNCHANGED pump
    BY <1>2, <2>2 DEF TypeOK
  <2>. QED
    BY <2>1, <2>2 DEF Accept, AcceptAnother, ServiceEnds, Session, NotConnected,
       StopFwd1, StopFwd2, SessionEnds
<1>5. /\ service' \in [Node -> {"accepting", "ended"}]
      /\ session' \in [Node -> {"none", "queued", "connecting", "forwarding",
                                "stopping1", "stopping2", "ended"}]
      /\ held' \in [Node -> BOOLEAN] /\ told' \in [Node -> BOOLEAN]
      /\ \A m \in Node : held'[m] => session'[m] \notin {"none", "queued"}
  <2>1. CASE Accept(n)
    BY <2>1 DEF Accept, TypeOK
  <2>2. CASE AcceptAnother(n)
    BY <2>2 DEF AcceptAnother, TypeOK
  <2>3. CASE ServiceEnds(n)
    <3>1. /\ service' = [service EXCEPT ![n] = "ended"]
          /\ told' = [told EXCEPT ![n] = told[n] \/ held[n]]
          /\ held' = [held EXCEPT ![n] = FALSE]
          /\ session' = session \/ session' = [session EXCEPT ![n] = "ended"]
      BY <2>3 DEF ServiceEnds
    <3>2. (told[n] \/ held[n]) \in BOOLEAN
      BY DEF TypeOK
    <3>. QED  BY <3>1, <3>2 DEF TypeOK
  <2>4. CASE Connected(n)
    <3>1. UNCHANGED <<service, held, told>>
      BY <2>4 DEF Connected
    <3>2. n = "sidecar" => session["agent"] = "none"
      BY <2>4 DEF Connected, SessionInv, Node
    <3>3. n = "sidecar" => ~held["agent"]
      BY <1>3, <3>2 DEF TypeOK
    <3>4. session' = [m \in Node |-> IF m = n THEN "forwarding"
                                     ELSE IF n = "sidecar" THEN "queued" ELSE session[m]]
      BY <2>4 DEF Connected
    <3>. QED  BY <1>3, <3>1, <3>3, <3>4 DEF TypeOK
  <2>5. CASE NotConnected(n) \/ StopFwd1(n) \/ StopFwd2(n) \/ SessionEnds(n)
    BY <2>5 DEF NotConnected, StopFwd1, StopFwd2, SessionEnds, TypeOK
  <2>. QED  BY <2>1, <2>2, <2>3, <2>4, <2>5 DEF Session
<1>. QED  BY <1>1, <1>2, <1>4, <1>5 DEF TypeOK, HopOK

(* A pump that ends leaves nothing in its buffer. *)
LEMMA TypePumpEnds ==
    ASSUME TypeOK, NEW n \in Node, NEW d \in Dir, PumpEnds(n, d),
           UNCHANGED <<nodeVars, sent, received>>
    PROVE  TypeOK'
<1>1. HopOK'
  BY PumpEndsShuts, ShutsHopOK
<1>2. /\ pump' = [pump EXCEPT ![n][d] = "ended"]
      /\ buf' = [buf EXCEPT ![n][d] = <<>>]
  BY DEF PumpEnds
<1>3. \A m \in Node, x \in Dir :
         /\ m = n /\ x = d => pump'[m][x] = "ended" /\ buf'[m][x] = <<>>
         /\ m # n \/ x # d => pump'[m][x] = pump[m][x] /\ buf'[m][x] = buf[m][x]
  BY <1>2 DEF TypeOK
<1>4. pump' \in [Node -> [Dir -> {"none", "reading", "writing", "ended"}]]
  BY <1>2 DEF TypeOK
<1>5. buf' \in [Node -> [Dir -> Seq(Nat)]]
  BY <1>2, EmptySeq DEF TypeOK
<1>6. \A m \in Node, x \in Dir : buf'[m][x] # <<>> => pump'[m][x] = "writing"
  <2>1. \A m \in Node, x \in Dir : buf[m][x] # <<>> => pump[m][x] = "writing"
    BY DEF TypeOK
  <2>. QED  BY <1>3, <2>1
<1>. QED  BY <1>1, <1>4, <1>5, <1>6 DEF TypeOK, HopOK, nodeVars

LEMMA TypeRead ==
    ASSUME TypeOK, NEW n \in Node, NEW d \in Dir, Read(n, d)
    PROVE  TypeOK'
<1>. DEFINE s == hop[d][In(n, d)].data
<1>0. In(n, d) \in Hop /\ s \in Seq(Nat)
  BY Hops DEF TypeOK, Pipe
<1>1. HopOK'
  <2>1. SetsData(hop, hop', d, In(n, d), <<>>)
    BY ReadSets
  <2>2. <<>> \in Seq(Nat) /\ Len(<<>>) <= Capacity[In(n, d)]
    BY <1>0, CapacityAssumption
  <2>. QED  BY <1>0, <2>1, <2>2, SetsHopOK
<1>2. /\ pump' = [pump EXCEPT ![n][d] = "writing"]
      /\ buf' = [buf EXCEPT ![n][d] = s]
      /\ UNCHANGED <<nodeVars, sent, received>>
  BY DEF Read
<1>. HIDE DEF s
<1>3. /\ pump' \in [Node -> [Dir -> {"none", "reading", "writing", "ended"}]]
      /\ buf' \in [Node -> [Dir -> Seq(Nat)]]
  BY <1>0, <1>2 DEF TypeOK
<1>4. \A m \in Node, x \in Dir :
         /\ m = n /\ x = d => pump'[m][x] = "writing"
         /\ m # n \/ x # d => pump'[m][x] = pump[m][x] /\ buf'[m][x] = buf[m][x]
  BY <1>2 DEF TypeOK
<1>5. \A m \in Node, x \in Dir : buf'[m][x] # <<>> => pump'[m][x] = "writing"
  <2>1. \A m \in Node, x \in Dir : buf[m][x] # <<>> => pump[m][x] = "writing"
    BY DEF TypeOK
  <2>. QED  BY <1>4, <2>1
<1>. QED  BY <1>1, <1>2, <1>3, <1>5 DEF TypeOK, HopOK, nodeVars

LEMMA TypeWrite ==
    ASSUME TypeOK, NEW n \in Node, NEW d \in Dir, Write(n, d), buf[n][d] # <<>>
    PROVE  TypeOK'
<1>. DEFINE b == buf[n][d]
            o == Out(n, d)
            s == hop[d][o].data
<1>0. b \in Seq(Nat) /\ b # <<>> /\ o \in Hop /\ s \in Seq(Nat)
  BY Hops DEF TypeOK, Pipe
<1>1. /\ Head(b) \in Nat /\ Tail(b) \in Seq(Nat) /\ Len(Tail(b)) = Len(b) - 1
      /\ Append(s, Head(b)) \in Seq(Nat) /\ Len(Append(s, Head(b))) = Len(s) + 1
      /\ Len(b) \in Nat /\ Len(s) \in Nat
  BY <1>0, HeadTailProperties, AppendProperties
<1>2. HopOK'
  <2>1. CASE UNCHANGED hop
    BY <2>1, NothingShuts, ShutsHopOK
  <2>2. CASE Len(s) < Capacity[o] /\ SetsData(hop, hop', d, o, Append(s, Head(b)))
    <3>1. Capacity[o] \in Nat
      BY <1>0, CapacityAssumption
    <3>2. Len(Append(s, Head(b))) <= Capacity[o]
      BY <1>1, <2>2, <3>1
    <3>. QED  BY <1>0, <1>1, <2>2, <3>2, SetsHopOK
  <2>. QED  BY <2>1, <2>2, WriteSets
<1>3. /\ pump' = [pump EXCEPT ![n][d] = IF Len(b) = 1 THEN "reading" ELSE pump[n][d]]
      /\ buf' = [buf EXCEPT ![n][d] = Tail(b)]
      /\ pump[n][d] = "writing"
      /\ UNCHANGED <<nodeVars, sent, received>>
  BY DEF Write
<1>4. Len(b) = 1 => Tail(b) = <<>>
  <2>. DEFINE t == Tail(b)
  <2>1. t \in Seq(Nat) /\ (Len(b) = 1 => Len(t) = 0)
    BY <1>1
  <2>. HIDE DEF t
  <2>2. Len(b) = 1 => t = <<>>
    BY <2>1, EmptySeq
  <2>. QED  BY <2>2 DEF t
<1>. HIDE DEF b
<1>5. /\ pump' \in [Node -> [Dir -> {"none", "reading", "writing", "ended"}]]
      /\ buf' \in [Node -> [Dir -> Seq(Nat)]]
  BY <1>1, <1>3 DEF TypeOK
<1>6. \A m \in Node, x \in Dir : buf'[m][x] # <<>> => pump'[m][x] = "writing"
  <2>1. \A m \in Node, x \in Dir :
           /\ m = n /\ x = d => /\ buf'[m][x] = Tail(b)
                                /\ Len(b) # 1 => pump'[m][x] = "writing"
           /\ m # n \/ x # d => pump'[m][x] = pump[m][x] /\ buf'[m][x] = buf[m][x]
    BY <1>3 DEF TypeOK
  <2>2. \A m \in Node, x \in Dir : buf[m][x] # <<>> => pump[m][x] = "writing"
    BY DEF TypeOK
  <2>. QED  BY <1>4, <2>1, <2>2
<1>. QED  BY <1>2, <1>3, <1>5, <1>6 DEF TypeOK, HopOK, nodeVars

LEMMA TypeEnds ==
    ASSUME TypeOK, NEW d \in Dir, Send(d) \/ Receive(d) \/ HalfClose(d) \/ Close(d)
    PROVE  TypeOK'
<1>. DEFINE s == hop[d][1].data
            r == hop[d][3].data
<1>0. /\ s \in Seq(Nat) /\ r \in Seq(Nat) /\ Len(s) \in Nat /\ Len(r) \in Nat
      /\ 1 \in Hop /\ 3 \in Hop /\ Capacity[1] \in Nat /\ Capacity[3] \in Nat
  BY CapacityAssumption DEF TypeOK, Pipe, Hop
<1>1. CASE Send(d)
  <2>1. sent[d] + 1 \in Nat
    BY DEF TypeOK
  <2>2. Append(s, sent[d] + 1) \in Seq(Nat) /\ Len(Append(s, sent[d] + 1)) = Len(s) + 1
    BY <1>0, <2>1, AppendProperties
  <2>3. Len(s) < Capacity[1]
    BY <1>1 DEF Send
  <2>4. HopOK'
    <3>1. Len(Append(s, sent[d] + 1)) <= Capacity[1]
      BY <1>0, <2>2, <2>3
    <3>. QED  BY <1>0, <1>1, <2>2, <3>1, SendSets, SetsHopOK
  <2>5. UNCHANGED <<nodeVars, pump, buf, received>> /\ sent' = [sent EXCEPT ![d] = sent[d] + 1]
    BY <1>1 DEF Send
  <2>. QED  BY <2>1, <2>4, <2>5 DEF TypeOK, HopOK, nodeVars
<1>2. CASE Receive(d)
  <2>1. r # <<>>
    BY <1>2 DEF Receive
  <2>2. Tail(r) \in Seq(Nat) /\ Len(Tail(r)) = Len(r) - 1 /\ Head(r) \in Nat
    BY <1>0, <2>1, HeadTailProperties
  <2>3. Len(r) <= Capacity[3]
    BY <1>0 DEF TypeOK
  <2>4. HopOK'
    <3>1. Len(Tail(r)) <= Capacity[3]
      BY <1>0, <2>2, <2>3
    <3>. QED  BY <1>0, <1>2, <2>2, <3>1, ReceiveSets, SetsHopOK
  <2>5. /\ UNCHANGED <<nodeVars, pump, buf, sent>>
        /\ received' = [received EXCEPT ![d] = Append(received[d], Head(r))]
    BY <1>2 DEF Receive
  <2>6. Append(received[d], Head(r)) \in Seq(Nat)
    BY <2>2, AppendProperties DEF TypeOK
  <2>. QED  BY <2>4, <2>5, <2>6 DEF TypeOK, HopOK, nodeVars
<1>3. CASE HalfClose(d) \/ Close(d)
  <2>1. HopOK'
    BY <1>3, HalfCloseShuts, CloseShuts, ShutsHopOK
  <2>2. UNCHANGED <<nodeVars, pump, buf, sent, received>>
    BY <1>3 DEF HalfClose, Close
  <2>. QED  BY <2>1, <2>2 DEF TypeOK, HopOK, nodeVars
<1>. QED  BY <1>1, <1>2, <1>3

LEMMA TypeStep ==
    ASSUME TypeOK, SessionInv, IdleInv, [Next]_vars
    PROVE  TypeOK'
<1>1. ASSUME NEW n \in Node, NEW d \in Dir, Pump(n, d)
      PROVE  TypeOK'
  <2>1. CASE StopReading(n, d) \/ WriteFails(n, d)
    BY <2>1, TypePumpEnds DEF StopReading, WriteFails
  <2>2. CASE Write(n, d)
    BY <2>2, TypeWrite DEF Write, IdleInv
  <2>. QED  BY <1>1, <2>1, <2>2, TypeRead DEF Pump
<1>2. CASE UNCHANGED vars
  BY <1>2 DEF vars, nodeVars, TypeOK
<1>. QED  BY <1>1, <1>2, TypeSession, TypeEnds DEF Next

-----------------------------------------------------------------------------
(* What the actions do to sessions and pumps.                              *)

LEMMA PumpMoves ==
    ASSUME TypeOK, NEW n \in Node, NEW d \in Dir, Pump(n, d)
    PROVE  /\ UNCHANGED <<nodeVars, sent, received>>
           /\ pump[n][d] \in {"reading", "writing"}
           /\ pump'[n][d] \in {"reading", "writing", "ended"}
           /\ \A m \in Node, x \in Dir : m # n \/ x # d => pump'[m][x] = pump[m][x]
<1>1. /\ UNCHANGED <<nodeVars, sent, received>>
      /\ pump[n][d] \in {"reading", "writing"}
  BY DEF Pump, Read, StopReading, Write, WriteFails
<1>2. \E v \in {"reading", "writing", "ended"} : pump' = [pump EXCEPT ![n][d] = v]
  BY <1>1 DEF Pump, Read, StopReading, Write, WriteFails, PumpEnds
<1>. QED  BY <1>1, <1>2 DEF TypeOK

LEMMA EndsMove ==
    ASSUME NEW d \in Dir, Send(d) \/ Receive(d) \/ HalfClose(d) \/ Close(d)
    PROVE  UNCHANGED <<nodeVars, pump, buf>>
  BY DEF Send, Receive, HalfClose, Close

LEMMA SessionMoves ==
    ASSUME TypeOK, SessionInv, NEW n \in Node,
           \/ Accept(n) \/ AcceptAnother(n) \/ ServiceEnds(n) \/ Session(n)
    PROVE  /\ UNCHANGED <<buf, sent, received>>
           /\ UNCHANGED hop \/ CloseAccepted(n)
           /\ UNCHANGED hop \/ UNCHANGED pump
           /\ \A m \in Node, x \in Dir :
                 \/ pump'[m][x] = pump[m][x]
                 \/ Connected(n) /\ m = n /\ pump[m][x] = "none" /\ pump'[m][x] = "reading"
<1>1. /\ UNCHANGED <<buf, sent, received>>
      /\ UNCHANGED hop \/ CloseAccepted(n)
      /\ UNCHANGED hop \/ UNCHANGED pump
      /\ Connected(n) \/ UNCHANGED pump
  BY DEF Accept, AcceptAnother, ServiceEnds, Session, Connected, NotConnected,
     StopFwd1, StopFwd2, SessionEnds
<1>2. ASSUME Connected(n), NEW m \in Node, NEW x \in Dir
      PROVE  \/ pump'[m][x] = pump[m][x]
             \/ m = n /\ pump[m][x] = "none" /\ pump'[m][x] = "reading"
  <2>1. pump[n]["up"] = "none" /\ pump[n]["down"] = "none"
    BY <1>2 DEF Connected, SessionInv
  <2>2. \A y \in Dir : pump[n][y] = "none"
    BY <2>1 DEF Dir
  <2>3. pump' = [pump EXCEPT ![n] = [y \in Dir |-> "reading"]]
    BY <1>2 DEF Connected, StartFwds
  <2>. QED  BY <2>2, <2>3 DEF TypeOK
<1>. QED  BY <1>1, <1>2

(* A session that is over stays so, and so does a pump. *)
LEMMA EndedForGood ==
    ASSUME TypeOK, SessionInv, [Next]_vars
    PROVE  /\ \A n \in Node, d \in Dir : pump[n][d] = "ended" => pump'[n][d] = "ended"
           /\ \A n \in Node : Refused(n) => Refused(n)'
<1>. DEFINE Goal ==
        /\ \A n \in Node, d \in Dir : pump[n][d] = "ended" => pump'[n][d] = "ended"
        /\ \A n \in Node : Refused(n) => Refused(n)'
<1>0. "up" \in Dir
  BY DEF Dir
<1>1. ASSUME NEW n \in Node,
             Accept(n) \/ AcceptAnother(n) \/ ServiceEnds(n) \/ Session(n)
      PROVE  Goal
  <2>1. \A m \in Node, d \in Dir : pump[m][d] = "ended" => pump'[m][d] = "ended"
    BY <1>1, SessionMoves
  <2>2. ASSUME NEW m \in Node, Refused(m)
        PROVE  Refused(m)'
    <3>1. session[m] = "ended" /\ pump[m]["up"] = "none"
      BY <2>2 DEF Refused
    <3>2. ~(Connected(n) /\ m = n)
      BY <3>1 DEF Connected
    <3>3. pump'[m]["up"] = pump[m]["up"]
      BY <1>0, <1>1, <3>2, SessionMoves
    <3>4. session'[m] = "ended"
      <4>1. CASE Connected(n)
        <5>1. n = "sidecar" => session["agent"] = "none"
          BY <4>1 DEF Connected, SessionInv, Node
        <5>. QED  BY <3>1, <3>2, <4>1, <5>1 DEF Connected, Node
      <4>2. CASE ~Connected(n)
        BY <1>1, <3>1, <4>2 DEF Accept, AcceptAnother, ServiceEnds, Session,
           NotConnected, StopFwd1, StopFwd2, SessionEnds, TypeOK
      <4>. QED  BY <4>1, <4>2
    <3>. QED  BY <3>1, <3>3, <3>4 DEF Refused
  <2>. QED  BY <2>1, <2>2
<1>2. ASSUME NEW n \in Node, NEW d \in Dir, Pump(n, d)
      PROVE  Goal
  <2>1. \A m \in Node, x \in Dir : /\ pump[m][x] = "ended" => pump'[m][x] = "ended"
                                   /\ pump[m][x] = "none" => pump'[m][x] = "none"
    BY <1>2, PumpMoves
  <2>2. UNCHANGED session
    BY <1>2, PumpMoves DEF nodeVars
  <2>. QED  BY <1>0, <2>1, <2>2 DEF Refused
<1>3. ASSUME NEW d \in Dir, Send(d) \/ Receive(d) \/ HalfClose(d) \/ Close(d)
      PROVE  Goal
  BY <1>3, EndsMove DEF nodeVars, Refused
<1>4. CASE UNCHANGED vars
  BY <1>4 DEF vars, nodeVars, Refused
<1>5. Goal
  BY <1>1, <1>2, <1>3, <1>4 DEF Next
<1>. QED  BY <1>5

LEMMA SessionStep ==
    ASSUME TypeOK, SessionInv, [Next]_vars
    PROVE  SessionInv'
<1>0. /\ "up" \in Dir /\ "down" \in Dir /\ "sidecar" \in Node /\ "agent" \in Node
      /\ \A m \in Node : m = "sidecar" \/ m = "agent"
  BY DEF Dir, Node
<1>1. ASSUME NEW n \in Node, Accept(n) PROVE SessionInv'
  BY <1>1 DEF Accept, SessionInv, TypeOK
<1>2. ASSUME NEW n \in Node, AcceptAnother(n) PROVE SessionInv'
  BY <1>2 DEF AcceptAnother, SessionInv, TypeOK
<1>3. ASSUME NEW n \in Node, ServiceEnds(n) PROVE SessionInv'
  <2>1. /\ service' = [service EXCEPT ![n] = "ended"]
        /\ told' = [told EXCEPT ![n] = told[n] \/ held[n]]
        /\ \/ session' = session
           \/ session[n] = "queued" /\ session' = [session EXCEPT ![n] = "ended"]
        /\ UNCHANGED <<pump, sent>>
    BY <1>3 DEF ServiceEnds
  <2>2. \A m \in Node : told'[m] => service'[m] = "ended"
    BY <2>1 DEF SessionInv, TypeOK
  <2>3. \A m \in Node : \/ session'[m] = session[m]
                        \/ session[m] = "queued" /\ session'[m] = "ended"
    BY <2>1 DEF TypeOK
  <2>4. \A m \in Node :
           /\ pump'[m]["up"] = "none" <=> pump'[m]["down"] = "none"
           /\ session'[m] \in {"none", "queued", "connecting"} => pump'[m]["up"] = "none"
           /\ session'[m] \in {"forwarding", "stopping1", "stopping2"} => pump'[m]["up"] # "none"
    BY <2>1, <2>3 DEF SessionInv
  <2>5. /\ session'["agent"] # "none" => pump'["sidecar"]["up"] # "none"
        /\ sent'["down"] > 0 => pump'["agent"]["up"] # "none"
    BY <1>0, <2>1, <2>3 DEF SessionInv
  <2>. QED  BY <2>2, <2>4, <2>5 DEF SessionInv
<1>4. ASSUME NEW n \in Node, Connected(n) PROVE SessionInv'
  <2>1. /\ session[n] = "connecting"
        /\ session' = [m \in Node |-> IF m = n THEN "forwarding"
                                      ELSE IF n = "sidecar" THEN "queued" ELSE session[m]]
        /\ pump' = [pump EXCEPT ![n] = [d \in Dir |-> "reading"]]
        /\ UNCHANGED <<service, told, sent>>
    BY <1>4 DEF Connected, StartFwds
  <2>2. n = "sidecar" => session["agent"] = "none" /\ pump["agent"]["up"] = "none"
    BY <1>0, <2>1 DEF SessionInv
  <2>3. \A m \in Node :
           /\ m = n => pump'[m]["up"] = "reading" /\ pump'[m]["down"] = "reading"
           /\ m # n => /\ pump'[m]["up"] = pump[m]["up"]
                       /\ pump'[m]["down"] = pump[m]["down"]
    BY <1>0, <2>1 DEF TypeOK
  <2>4. \A m \in Node :
           /\ m = n => session'[m] = "forwarding"
           /\ m # n =>
                 session'[m] = session[m] \/ (session'[m] = "queued" /\ pump[m]["up"] = "none")
    BY <1>0, <2>1, <2>2
  <2>5. ASSUME NEW m \in Node
        PROVE  /\ told'[m] => service'[m] = "ended"
               /\ pump'[m]["up"] = "none" <=> pump'[m]["down"] = "none"
               /\ session'[m] \in {"none", "queued", "connecting"} => pump'[m]["up"] = "none"
               /\ session'[m] \in {"forwarding", "stopping1", "stopping2"} =>
                     pump'[m]["up"] # "none"
    <3>1. CASE m = n
      BY <2>1, <2>3, <2>4, <3>1 DEF SessionInv
    <3>2. CASE m # n
      BY <2>1, <2>3, <2>4, <3>2 DEF SessionInv
    <3>. QED  BY <3>1, <3>2
  <2>6. session'["agent"] # "none" => pump'["sidecar"]["up"] # "none"
    <3>1. CASE n = "sidecar"
      BY <1>0, <2>3, <3>1
    <3>2. CASE n = "agent"
      <4>1. pump["sidecar"]["up"] # "none"
        BY <2>1, <3>2 DEF SessionInv
      <4>. QED  BY <1>0, <2>3, <3>2, <4>1
    <3>. QED  BY <1>0, <3>1, <3>2
  <2>7. sent'["down"] > 0 => pump'["agent"]["up"] # "none"
    BY <1>0, <2>1, <2>3 DEF SessionInv
  <2>. QED  BY <2>5, <2>6, <2>7 DEF SessionInv
<1>5. ASSUME NEW n \in Node, NotConnected(n) PROVE SessionInv'
  BY <1>5 DEF NotConnected, SessionInv, TypeOK
<1>6. ASSUME NEW n \in Node, StopFwd1(n) \/ StopFwd2(n) \/ SessionEnds(n)
      PROVE  SessionInv'
  <2>1. \E v \in {"stopping1", "stopping2", "ended"} : session' = [session EXCEPT ![n] = v]
    BY <1>6 DEF StopFwd1, StopFwd2, SessionEnds
  <2>2. /\ session[n] \in {"forwarding", "stopping1", "stopping2"}
        /\ UNCHANGED <<service, told, pump, sent>>
    BY <1>6 DEF StopFwd1, StopFwd2, SessionEnds
  <2>3. \A m \in Node : /\ m = n => session'[m] \in {"stopping1", "stopping2", "ended"}
                        /\ m # n => session'[m] = session[m]
    BY <2>1 DEF TypeOK
  <2>4. \A m \in Node :
           /\ told'[m] => service'[m] = "ended"
           /\ pump'[m]["up"] = "none" <=> pump'[m]["down"] = "none"
           /\ session'[m] \in {"none", "queued", "connecting"} => pump'[m]["up"] = "none"
           /\ session'[m] \in {"forwarding", "stopping1", "stopping2"} => pump'[m]["up"] # "none"
    BY <2>2, <2>3 DEF SessionInv
  <2>5. /\ session'["agent"] # "none" => pump'["sidecar"]["up"] # "none"
        /\ sent'["down"] > 0 => pump'["agent"]["up"] # "none"
    <3>1. session'["agent"] # "none" => session["agent"] # "none"
      BY <1>0, <2>2, <2>3
    <3>. QED  BY <2>2, <3>1 DEF SessionInv
  <2>. QED  BY <2>4, <2>5 DEF SessionInv
<1>7. ASSUME NEW n \in Node, NEW d \in Dir, Pump(n, d) PROVE SessionInv'
  <2>1. \A m \in Node, x \in Dir : pump[m][x] = "none" <=> pump'[m][x] = "none"
    BY <1>7, PumpMoves
  <2>2. UNCHANGED <<service, told, session, sent>>
    BY <1>7, PumpMoves DEF nodeVars
  <2>. QED  BY <1>0, <2>1, <2>2 DEF SessionInv
<1>8. ASSUME NEW d \in Dir, Send(d) PROVE SessionInv'
  <2>1. /\ sent' = [sent EXCEPT ![d] = sent[d] + 1]
        /\ UNCHANGED <<service, told, session, pump>>
        /\ d = "up" \/ pump["agent"]["up"] # "none"
    BY <1>8 DEF Send, Live, nodeVars
  <2>2. d = "up" => sent'["down"] = sent["down"]
    BY <1>0, <2>1 DEF TypeOK
  <2>. QED  BY <1>0, <2>1, <2>2 DEF SessionInv
<1>9. ASSUME NEW d \in Dir, Receive(d) \/ HalfClose(d) \/ Close(d) PROVE SessionInv'
  BY <1>9 DEF Receive, HalfClose, Close, nodeVars, SessionInv
<1>10. CASE UNCHANGED vars
  BY <1>10 DEF vars, nodeVars, SessionInv
<1>. QED
  BY <1>1, <1>2, <1>3, <1>4, <1>5, <1>6, <1>7, <1>8, <1>9, <1>10 DEF Next, Session

LEMMA SetsKeepSignals ==
    ASSUME TypeOK, IdleInv, NEW n \in Node, NEW d \in Dir, Read(n, d) \/ Write(n, d)
    PROVE  \A x \in Dir, y \in Hop :
              hop'[x][y].eof = hop[x][y].eof /\ hop'[x][y].gone = hop[x][y].gone
<1>1. CASE Read(n, d)
  BY <1>1, ReadSets DEF SetsData
<1>2. CASE Write(n, d)
  <2>1. buf[n][d] # <<>>
    BY <1>2 DEF Write, IdleInv
  <2>. QED  BY <1>2, <2>1, WriteSets DEF SetsData
<1>. QED  BY <1>1, <1>2

(* Who closed what: a pump, with its last step, or a session that had none. *)
LEMMA SocketStep ==
    ASSUME TypeOK, SessionInv, SocketInv, IdleInv, [Next]_vars
    PROVE  SocketInv'
<1>0. /\ \A d \in Dir : /\ First(d) \in Node /\ Second(d) \in Node
                        /\ In(Second(d), d) = 2 /\ Out(Second(d), d) = 3
                        /\ In(First(d), d) = 1 /\ Out(First(d), d) = 2
      /\ "sidecar" \in Node /\ "agent" \in Node /\ "up" \in Dir /\ "down" \in Dir
      /\ 2 \in Hop /\ 3 \in Hop
  BY Places DEF Node, Dir, Hop
<1>1. ASSUME \A x \in Dir : /\ hop'[x][2].gone => hop[x][2].gone
                            /\ hop'[x][2].eof => hop[x][2].eof
                            /\ hop'[x][3].eof => hop[x][3].eof
      PROVE  SocketInv'
  BY <1>0, <1>1, EndedForGood DEF SocketInv
<1>2. ASSUME NEW n \in Node,
             Accept(n) \/ AcceptAnother(n) \/ ServiceEnds(n) \/ Session(n)
      PROVE  SocketInv'
  <2>1. CASE UNCHANGED hop
    BY <1>1, <2>1
  <2>2. CASE hop' # hop
    <3>1. NotConnected(n) \/ (ServiceEnds(n) /\ session[n] = "queued")
      BY <1>2, <2>2 DEF Accept, AcceptAnother, ServiceEnds, Session, Connected,
         StopFwd1, StopFwd2, SessionEnds
    <3>2. /\ session[n] \in {"queued", "connecting"}
          /\ session' = [session EXCEPT ![n] = "ended"]
          /\ UNCHANGED pump /\ CloseAccepted(n)
      BY <3>1 DEF NotConnected, ServiceEnds
    <3>3. Refused(n)'
      BY <3>2 DEF Refused, SessionInv, TypeOK
    <3>4. \A x \in Dir, y \in Hop :
             /\ hop'[x][y].eof => hop[x][y].eof \/ (x = "down" /\ y = Out(n, "down"))
             /\ hop'[x][y].gone => hop[x][y].gone \/ (x = "up" /\ y = In(n, "up"))
      BY <3>2, CloseAcceptedShuts
    <3>5. /\ Out(n, "down") = 2 => n = First("down")
          /\ Out(n, "down") = 3 => n = "sidecar"
          /\ In(n, "up") = 2 => n = Second("up")
      BY DEF Node, Out, In, First, Second
    <3>. QED  BY <1>0, <3>3, <3>4, <3>5, EndedForGood DEF SocketInv
  <2>. QED  BY <2>1, <2>2
<1>3. ASSUME NEW n \in Node, NEW d \in Dir, PumpEnds(n, d)
      PROVE  SocketInv'
  <2>1. \A x \in Dir, y \in Hop :
           /\ hop'[x][y].eof => \/ hop[x][y].eof
                                \/ y = Out(n, x) /\ pump'[n][x] = "ended"
           /\ hop'[x][y].gone => \/ hop[x][y].gone
                                 \/ y = In(n, x) /\ pump'[n][x] = "ended"
    BY <1>3, PumpEndsShuts
  <2>2. \A x \in Dir : /\ Out(n, x) = 2 => n = First(x)
                       /\ Out(n, x) = 3 => n = Second(x)
                       /\ In(n, x) = 2 => n = Second(x)
    BY DEF Node, Dir, Out, In, First, Second
  <2>. QED  BY <1>0, <2>1, <2>2, EndedForGood DEF SocketInv
<1>4. ASSUME NEW n \in Node, NEW d \in Dir, Read(n, d) \/ Write(n, d)
      PROVE  SocketInv'
  <2>1. \A x \in Dir, y \in Hop : hop'[x][y].eof = hop[x][y].eof /\ hop'[x][y].gone = hop[x][y].gone
    BY <1>4, SetsKeepSignals
  <2>. QED  BY <1>0, <1>1, <2>1
<1>5. ASSUME NEW d \in Dir, Send(d) \/ Receive(d)
      PROVE  SocketInv'
  <2>1. \A x \in Dir, y \in Hop : hop'[x][y].eof = hop[x][y].eof /\ hop'[x][y].gone = hop[x][y].gone
    BY <1>5, SendSets, ReceiveSets DEF SetsData
  <2>. QED  BY <1>0, <1>1, <2>1
<1>6. ASSUME NEW d \in Dir, HalfClose(d) \/ Close(d)
      PROVE  SocketInv'
  <2>1. \A x \in Dir, y \in Hop :
           /\ hop'[x][y].eof => hop[x][y].eof \/ (x = d /\ y = 1)
           /\ hop'[x][y].gone => hop[x][y].gone \/ (x = Opposite(d) /\ y = 3)
    BY <1>6, HalfCloseShuts, CloseShuts
  <2>. QED  BY <1>0, <1>1, <2>1
<1>7. CASE UNCHANGED vars
  BY <1>1, <1>7 DEF vars
<1>. QED
  BY <1>2, <1>3, <1>4, <1>5, <1>6, <1>7 DEF Next, Pump, StopReading, WriteFails

(* Only its pump writes to a hop behind the first, and a pump that goes on   *)
(* writing has more to write.                                                *)
LEMMA IdleStep ==
    ASSUME TypeOK, SessionInv, IdleInv, [Next]_vars
    PROVE  IdleInv'
<1>. USE DEF Data
<1>0. \A n \in Node, d \in Dir : Out(n, d) \in Hop /\ Out(n, d) # 1
  BY Hops
<1>1. ASSUME Shuts(hop, hop'), NEW n \in Node, NEW d \in Dir, pump[n][d] = "none"
      PROVE  hop'[d][Out(n, d)].data = <<>>
  <2>1. /\ hop[d][Out(n, d)].data = <<>> /\ hop[d][Out(n, d)].data \in Seq(Nat)
        /\ hop'[d][Out(n, d)].data \in Prefixes(hop[d][Out(n, d)].data)
    BY <1>0, <1>1 DEF IdleInv, Shuts, TypeOK, Pipe
  <2>. DEFINE s == hop[d][Out(n, d)].data
              t == hop'[d][Out(n, d)].data
  <2>2. s = <<>> /\ s \in Seq(Nat) /\ t \in Prefixes(s)
    BY <2>1
  <2>. HIDE DEF s, t
  <2>3. t = <<>>
    BY <2>2, PrefixesOf
  <2>. QED  BY <2>3 DEF t
<1>2. ASSUME NEW n \in Node,
             Accept(n) \/ AcceptAnother(n) \/ ServiceEnds(n) \/ Session(n)
      PROVE  IdleInv'
  <2>1. Shuts(hop, hop')
    BY <1>2, SessionMoves, CloseAcceptedShuts, NothingShuts
  <2>2. /\ UNCHANGED buf
        /\ \A m \in Node, x \in Dir :
              /\ pump'[m][x] = "writing" => pump[m][x] = "writing"
              /\ pump'[m][x] = "none" => pump[m][x] = "none"
    BY <1>2, SessionMoves
  <2>. QED  BY <1>1, <2>1, <2>2 DEF IdleInv
<1>3. ASSUME NEW n \in Node, NEW d \in Dir, PumpEnds(n, d)
      PROVE  IdleInv'
  <2>1. Shuts(hop, hop')
    BY <1>3, PumpEndsShuts
  <2>2. \A m \in Node, x \in Dir :
           \/ pump'[m][x] = pump[m][x] /\ buf'[m][x] = buf[m][x]
           \/ pump'[m][x] = "ended"
    BY <1>3 DEF PumpEnds, TypeOK
  <2>. QED  BY <1>1, <2>1, <2>2 DEF IdleInv
<1>4. ASSUME NEW n \in Node, NEW d \in Dir, Read(n, d)
      PROVE  IdleInv'
  <2>. DEFINE s == hop[d][In(n, d)].data
  <2>1. /\ s # <<>>
        /\ buf' = [buf EXCEPT ![n][d] = s]
        /\ pump' = [pump EXCEPT ![n][d] = "writing"]
    BY <1>4 DEF Read
  <2>2. SetsData(hop, hop', d, In(n, d), <<>>)
    BY <1>4, ReadSets
  <2>3. \A x \in Dir, y \in Hop : hop[x][y].data = <<>> => hop'[x][y].data = <<>>
    BY <2>2 DEF SetsData
  <2>. HIDE DEF s
  <2>4. \A m \in Node, x \in Dir :
           /\ pump'[m][x] = "writing" => buf'[m][x] # <<>>
           /\ pump'[m][x] = "none" => pump[m][x] = "none"
    BY <2>1 DEF IdleInv, TypeOK
  <2>. QED  BY <1>0, <2>3, <2>4 DEF IdleInv
<1>5. ASSUME NEW n \in Node, NEW d \in Dir, Write(n, d)
      PROVE  IdleInv'
  <2>. DEFINE b == buf[n][d]
  <2>1. pump[n][d] = "writing" /\ b # <<>> /\ b \in Seq(Nat)
    BY <1>5 DEF Write, IdleInv, TypeOK
  <2>2. /\ buf' = [buf EXCEPT ![n][d] = Tail(b)]
        /\ pump' = [pump EXCEPT ![n][d] = IF Len(b) = 1 THEN "reading" ELSE pump[n][d]]
    BY <1>5 DEF Write
  <2>3. Len(b) # 1 => Tail(b) # <<>>
    <3>. HIDE DEF b
    <3>1. Len(Tail(b)) = Len(b) - 1 /\ Len(b) \in Nat \ {0} /\ Len(<<>>) = 0
      BY <2>1, HeadTailProperties, EmptySeq
    <3>. DEFINE t == Tail(b)
    <3>2. Len(b) # 1 => Len(t) # Len(<<>>)
      BY <3>1
    <3>. HIDE DEF t
    <3>3. Len(b) # 1 => t # <<>>
      BY <3>2
    <3>. QED  BY <3>3 DEF t
  <2>4. \A m \in Node, x \in Dir : hop'[x][Out(m, x)].data # hop[x][Out(m, x)].data =>
           m = n /\ x = d
    <3>1. \A m \in Node, x \in Dir : x = d /\ Out(m, x) = Out(n, d) => m = n
      BY DEF Node, Dir, In, Out
    <3>. QED  BY <1>0, <1>5, <2>1, <3>1, WriteSets DEF SetsData
  <2>. HIDE DEF b
  <2>5. \A m \in Node, x \in Dir :
           /\ m = n /\ x = d => /\ buf'[m][x] = Tail(b)
                                /\ pump'[m][x] = IF Len(b) = 1 THEN "reading" ELSE "writing"
           /\ m # n \/ x # d => pump'[m][x] = pump[m][x] /\ buf'[m][x] = buf[m][x]
    BY <2>1, <2>2 DEF TypeOK
  <2>6. \A m \in Node, x \in Dir :
           /\ pump'[m][x] = "writing" => buf'[m][x] # <<>>
           /\ pump'[m][x] = "none" => pump[m][x] = "none" /\ (m # n \/ x # d)
    BY <2>3, <2>5 DEF IdleInv
  <2>. QED  BY <2>4, <2>6 DEF IdleInv
<1>6. ASSUME NEW d \in Dir, Send(d) \/ Receive(d)
      PROVE  IdleInv'
  <2>1. UNCHANGED <<pump, buf>>
    BY <1>6, EndsMove
  <2>2. ASSUME NEW x \in Dir, NEW y \in Hop, y # 1, hop[x][y].data = <<>>
        PROVE  hop'[x][y].data = <<>>
    <3>1. CASE Send(d)
      BY <2>2, <3>1, SendSets DEF SetsData
    <3>2. CASE Receive(d)
      <4>1. x # d \/ y # 3
        BY <2>2, <3>2 DEF Receive
      <4>2. SetsData(hop, hop', d, 3, Tail(hop[d][3].data))
        BY <3>2, ReceiveSets
      <4>. QED  BY <2>2, <4>1, <4>2 DEF SetsData
    <3>. QED  BY <1>6, <3>1, <3>2
  <2>. QED  BY <1>0, <2>1, <2>2 DEF IdleInv
<1>7. ASSUME NEW d \in Dir, HalfClose(d) \/ Close(d)
      PROVE  IdleInv'
  <2>1. Shuts(hop, hop') /\ UNCHANGED <<pump, buf>>
    BY <1>7, HalfCloseShuts, CloseShuts, EndsMove
  <2>. QED  BY <1>1, <2>1 DEF IdleInv
<1>8. CASE UNCHANGED vars
  BY <1>8 DEF vars, IdleInv
<1>. QED
  BY <1>2, <1>3, <1>4, <1>5, <1>6, <1>7, <1>8 DEF Next, Pump, StopReading, WriteFails

-----------------------------------------------------------------------------
(* Bytes are sent before they are anywhere.                                *)

LEMMA Bytes ==
    ASSUME NEW a \in Nat, NEW b \in Nat, a <= b, NEW s \in Seq(1..a)
    PROVE  s \in Seq(1..b)
<1>1. 1..a \subseteq 1..b
  OBVIOUS
<1>2. \A i \in 1..Len(s) : s[i] \in 1..b
  BY <1>1
<1>. QED  BY <1>2, SeqDef

LEMMA SentStep ==
    ASSUME TypeOK, SessionInv, IdleInv, SentInv, [Next]_vars
    PROVE  SentInv'
<1>. USE DEF Data
<1>. DEFINE Byte(d) == 1..sent[d]
<1>0. \A n \in Node, d \in Dir : Out(n, d) \in Hop /\ In(n, d) \in Hop
  BY Hops
<1>1. ASSUME Shuts(hop, hop'), UNCHANGED sent
      PROVE  \A d \in Dir, h \in Hop : hop'[d][h].data \in Seq(Byte(d))
  <2>. SUFFICES ASSUME NEW d \in Dir, NEW h \in Hop
                PROVE  hop'[d][h].data \in Seq(Byte(d))
    OBVIOUS
  <2>1. /\ hop[d][h].data \in Seq(Byte(d))
        /\ hop'[d][h].data \in Prefixes(hop[d][h].data)
    BY <1>1 DEF SentInv, Shuts
  <2>. QED  BY <2>1, PrefixesOf
<1>2. ASSUME NEW n \in Node,
             Accept(n) \/ AcceptAnother(n) \/ ServiceEnds(n) \/ Session(n)
      PROVE  SentInv'
  <2>1. Shuts(hop, hop') /\ UNCHANGED <<buf, sent, received>>
    BY <1>2, SessionMoves, CloseAcceptedShuts, NothingShuts
  <2>. QED  BY <1>1, <2>1 DEF SentInv
<1>3. ASSUME NEW n \in Node, NEW d \in Dir, PumpEnds(n, d), UNCHANGED <<sent, received>>
      PROVE  SentInv'
  <2>1. Shuts(hop, hop')
    BY <1>3, PumpEndsShuts
  <2>2. \A m \in Node, x \in Dir : buf'[m][x] = buf[m][x] \/ buf'[m][x] = <<>>
    BY <1>3 DEF PumpEnds, TypeOK
  <2>3. \A m \in Node, x \in Dir : buf'[m][x] \in Seq(Byte(x))
    BY <2>2, EmptySeq DEF SentInv
  <2>. QED  BY <1>1, <1>3, <2>1, <2>3 DEF SentInv
<1>4. ASSUME NEW n \in Node, NEW d \in Dir, Read(n, d)
      PROVE  SentInv'
  <2>. DEFINE s == hop[d][In(n, d)].data
  <2>1. /\ buf' = [buf EXCEPT ![n][d] = s]
        /\ UNCHANGED <<sent, received>>
    BY <1>4 DEF Read
  <2>2. s \in Seq(Byte(d))
    BY <1>0 DEF SentInv
  <2>3. SetsData(hop, hop', d, In(n, d), <<>>)
    BY <1>4, ReadSets
  <2>4. \A x \in Dir, y \in Hop : hop'[x][y].data = hop[x][y].data \/ hop'[x][y].data = <<>>
    BY <2>3 DEF SetsData
  <2>5. \A x \in Dir, y \in Hop : hop'[x][y].data \in Seq(Byte(x))
    BY <2>4, EmptySeq DEF SentInv
  <2>. HIDE DEF s
  <2>6. \A m \in Node, x \in Dir : buf'[m][x] = buf[m][x] \/ (x = d /\ buf'[m][x] = s)
    BY <2>1 DEF TypeOK
  <2>7. \A m \in Node, x \in Dir : buf'[m][x] \in Seq(Byte(x))
    BY <2>2, <2>6 DEF SentInv
  <2>. QED  BY <2>1, <2>5, <2>7 DEF SentInv
<1>5. ASSUME NEW n \in Node, NEW d \in Dir, Write(n, d)
      PROVE  SentInv'
  <2>. DEFINE b == buf[n][d]
              o == Out(n, d)
              t == Append(hop[d][o].data, Head(b))
  <2>1. b # <<>> /\ b \in Seq(Byte(d)) /\ hop[d][o].data \in Seq(Byte(d))
    BY <1>0, <1>5 DEF Write, IdleInv, SentInv
  <2>2. t \in Seq(Byte(d)) /\ Tail(b) \in Seq(Byte(d))
    BY <2>1, HeadTailProperties, AppendProperties
  <2>3. /\ buf' = [buf EXCEPT ![n][d] = Tail(b)]
        /\ UNCHANGED <<sent, received>>
    BY <1>5 DEF Write
  <2>4. UNCHANGED hop \/ SetsData(hop, hop', d, o, t)
    BY <1>5, <2>1, WriteSets
  <2>. HIDE DEF b, t, o
  <2>5. \A x \in Dir, y \in Hop : hop'[x][y].data = hop[x][y].data \/ (x = d /\ hop'[x][y].data = t)
    BY <2>4 DEF SetsData
  <2>6. \A x \in Dir, y \in Hop : hop'[x][y].data \in Seq(Byte(x))
    BY <2>2, <2>5 DEF SentInv
  <2>7. \A m \in Node, x \in Dir : buf'[m][x] = buf[m][x] \/ (x = d /\ buf'[m][x] = Tail(b))
    BY <2>3 DEF TypeOK
  <2>8. \A m \in Node, x \in Dir : buf'[m][x] \in Seq(Byte(x))
    BY <2>2, <2>7 DEF SentInv
  <2>. QED  BY <2>3, <2>6, <2>8 DEF SentInv
<1>6. ASSUME NEW d \in Dir, Send(d)
      PROVE  SentInv'
  <2>. DEFINE t == Append(hop[d][1].data, sent[d] + 1)
  <2>1. /\ UNCHANGED <<buf, received>>
        /\ sent' = [sent EXCEPT ![d] = sent[d] + 1]
        /\ SetsData(hop, hop', d, 1, t)
    BY <1>6, SendSets DEF Send
  <2>2. sent \in [Dir -> Nat] /\ 1 \in Hop
    BY DEF TypeOK, Hop
  <2>3. \A x \in Dir : /\ sent[x] \in Nat /\ sent'[x] \in Nat /\ sent[x] <= sent'[x]
                       /\ x = d => sent'[x] = sent[x] + 1
    BY <2>1, <2>2
  <2>4. \A x \in Dir : \A s \in Seq(1..sent[x]) : s \in Seq(1..sent'[x])
    BY <2>3, Bytes
  <2>5. t \in Seq(1..sent'[d])
    <3>1. hop[d][1].data \in Seq(1..sent'[d])
      BY <2>2, <2>4 DEF SentInv
    <3>2. sent[d] + 1 \in 1..sent'[d]
      BY <2>3
    <3>. QED  BY <3>1, <3>2, AppendProperties
  <2>. HIDE DEF t
  <2>6. \A x \in Dir, y \in Hop : hop'[x][y].data = hop[x][y].data \/ (x = d /\ hop'[x][y].data = t)
    BY <2>1 DEF SetsData
  <2>7. \A x \in Dir, y \in Hop : hop'[x][y].data \in Seq(1..sent'[x])
    BY <2>4, <2>5, <2>6 DEF SentInv
  <2>. QED  BY <2>1, <2>4, <2>7 DEF SentInv
<1>7. ASSUME NEW d \in Dir, Receive(d)
      PROVE  SentInv'
  <2>. DEFINE r == hop[d][3].data
  <2>1. /\ UNCHANGED <<buf, sent>> /\ r # <<>>
        /\ received' = [received EXCEPT ![d] = Append(received[d], Head(r))]
        /\ SetsData(hop, hop', d, 3, Tail(r))
    BY <1>7, ReceiveSets DEF Receive
  <2>2. r \in Seq(Byte(d)) /\ received[d] \in Seq(Byte(d))
    BY DEF SentInv, Hop
  <2>3. Tail(r) \in Seq(Byte(d)) /\ Append(received[d], Head(r)) \in Seq(Byte(d))
    BY <2>1, <2>2, HeadTailProperties, AppendProperties
  <2>. HIDE DEF r
  <2>4. \A x \in Dir, y \in Hop :
           hop'[x][y].data = hop[x][y].data \/ (x = d /\ hop'[x][y].data = Tail(r))
    BY <2>1 DEF SetsData
  <2>5. \A x \in Dir, y \in Hop : hop'[x][y].data \in Seq(Byte(x))
    BY <2>3, <2>4 DEF SentInv
  <2>6. \A x \in Dir : received'[x] \in Seq(Byte(x))
    BY <2>1, <2>3 DEF SentInv, TypeOK
  <2>. QED  BY <2>1, <2>5, <2>6 DEF SentInv
<1>8. ASSUME NEW d \in Dir, HalfClose(d) \/ Close(d)
      PROVE  SentInv'
  <2>1. Shuts(hop, hop')
    BY <1>8, HalfCloseShuts, CloseShuts
  <2>2. UNCHANGED <<buf, sent, received>>
    BY <1>8 DEF HalfClose, Close
  <2>. QED  BY <1>1, <2>1, <2>2 DEF SentInv
<1>9. CASE UNCHANGED vars
  BY <1>9 DEF vars, SentInv
<1>. QED
  BY <1>2, <1>3, <1>4, <1>5, <1>6, <1>7, <1>8, <1>9 DEF Next, Pump, StopReading, WriteFails

-----------------------------------------------------------------------------
(* Bytes in line: how they move.                                           *)

LEMMA NoneFollow ==
    ASSUME NEW a
    PROVE  Follows(<<>>, a)
  BY DEF Follows

LEMMA TailFollows ==
    ASSUME NEW s \in Seq(Nat), s # <<>>, NEW a \in Nat, Follows(s, a)
    PROVE  /\ Head(s) = a + 1 /\ Head(s) \in Nat
           /\ Tail(s) \in Seq(Nat) /\ Len(Tail(s)) = Len(s) - 1 /\ Len(s) \in Nat \ {0}
           /\ Follows(Tail(s), a + 1)
<1>1. /\ Head(s) = s[1] /\ Head(s) \in Nat
      /\ Tail(s) \in Seq(Nat) /\ Len(Tail(s)) = Len(s) - 1
      /\ \A i \in 1..Len(Tail(s)) : Tail(s)[i] = s[i + 1]
      /\ Len(s) \in Nat \ {0}
  BY HeadTailProperties, EmptySeq
<1>2. DOMAIN s = 1..Len(s) /\ DOMAIN Tail(s) = 1..Len(Tail(s))
  BY <1>1, LenProperties
<1>3. Head(s) = a + 1
  BY <1>1, <1>2 DEF Follows
<1>4. ASSUME NEW k \in DOMAIN Tail(s)
      PROVE  Tail(s)[k] = a + 1 + k
  <2>1. k \in Nat /\ k + 1 \in DOMAIN s /\ Tail(s)[k] = s[k + 1]
    BY <1>1, <1>2
  <2>2. s[k + 1] = a + (k + 1)
    BY <2>1 DEF Follows
  <2>. QED  BY <2>1, <2>2
<1>. QED  BY <1>1, <1>3, <1>4 DEF Follows

LEMMA AppendFollows ==
    ASSUME NEW s \in Seq(Nat), NEW a \in Nat, Follows(s, a), NEW x, x = a + Len(s) + 1
    PROVE  /\ Append(s, x) \in Seq(Nat) /\ Len(Append(s, x)) = Len(s) + 1
           /\ Follows(Append(s, x), a)
<1>1. Len(s) \in Nat /\ x \in Nat
  OBVIOUS
<1>2. /\ Append(s, x) \in Seq(Nat) /\ Len(Append(s, x)) = Len(s) + 1
      /\ \A i \in 1..Len(s) : Append(s, x)[i] = s[i]
      /\ Append(s, x)[Len(s) + 1] = x
  BY <1>1, AppendProperties
<1>3. DOMAIN s = 1..Len(s) /\ DOMAIN Append(s, x) = 1..(Len(s) + 1)
  BY <1>2, LenProperties
<1>4. ASSUME NEW k \in 1..(Len(s) + 1)
      PROVE  Append(s, x)[k] = a + k
  <2>1. CASE k \in 1..Len(s)
    BY <1>2, <1>3, <2>1 DEF Follows
  <2>2. CASE k = Len(s) + 1
    BY <1>1, <1>2, <2>2
  <2>. QED  BY <1>1, <2>1, <2>2
<1>. QED  BY <1>2, <1>3, <1>4 DEF Follows

LEMMA PrefixFollows ==
    ASSUME NEW s \in Seq(Nat), NEW a, Follows(s, a), NEW t \in Prefixes(s)
    PROVE  Follows(t, a)
  BY PrefixesOf DEF Follows

LEMMA ReadInLine1 ==
    ASSUME NEW r \in Seq(Nat), NEW h3 \in Seq(Nat), NEW b2 \in Seq(Nat),
           NEW h2 \in Seq(Nat), NEW h1 \in Seq(Nat)
    PROVE  /\ InLine1(r, h3, b2, h2, <<>>, h1) => InLine1(r, h3, b2, h2, h1, <<>>)
           /\ Total(r, h3, b2, h2, h1, <<>>) = Total(r, h3, b2, h2, <<>>, h1)
<1>. DEFINE a == Len(r) + Len(h3) + Len(b2) + Len(h2)
<1>1. a \in Nat /\ Len(h1) \in Nat /\ Len(<<>>) = 0
  BY EmptySeq
<1>. HIDE DEF a
<1>2. a + Len(<<>>) = a /\ a + Len(h1) + Len(<<>>) = a + Len(<<>>) + Len(h1)
  BY <1>1
<1>3. Follows(h1, a + Len(<<>>)) => Follows(h1, a) /\ Follows(<<>>, a + Len(h1))
  BY <1>2, NoneFollow
<1>. QED  BY <1>2, <1>3 DEF InLine1, Total, a

LEMMA ReadInLine2 ==
    ASSUME NEW r \in Seq(Nat), NEW h3 \in Seq(Nat), NEW h2 \in Seq(Nat),
           NEW b1 \in Seq(Nat), NEW h1 \in Seq(Nat)
    PROVE  /\ InLine2(r, h3, <<>>, h2) => InLine2(r, h3, h2, <<>>)
           /\ InLine1(r, h3, <<>>, h2, b1, h1) => InLine1(r, h3, h2, <<>>, b1, h1)
           /\ Total(r, h3, h2, <<>>, b1, h1) = Total(r, h3, <<>>, h2, b1, h1)
<1>. DEFINE a == Len(r) + Len(h3)
<1>1. a \in Nat /\ Len(h2) \in Nat /\ Len(<<>>) = 0
  BY EmptySeq
<1>. HIDE DEF a
<1>2. a + Len(<<>>) = a /\ a + Len(h2) + Len(<<>>) = a + Len(<<>>) + Len(h2)
  BY <1>1
<1>3. Follows(h2, a + Len(<<>>)) => Follows(h2, a) /\ Follows(<<>>, a + Len(h2))
  BY <1>2, NoneFollow
<1>. QED  BY <1>2, <1>3 DEF InLine1, InLine2, Total, a

Line(r, h3, b2, h2, b1, h1) ==
    /\ r \in Seq(Nat) /\ h3 \in Seq(Nat) /\ b2 \in Seq(Nat)
    /\ h2 \in Seq(Nat) /\ b1 \in Seq(Nat) /\ h1 \in Seq(Nat)

(* The first of the bytes b goes behind those of g. *)
Moves(b, g, b2, g2) == b # <<>> /\ g2 = Append(g, Head(b)) /\ b2 = Tail(b)
Gains(g, byte, g2) == g2 = Append(g, byte)

LEMMA WriteInLine1 ==
    ASSUME NEW r, NEW h3, NEW b2, NEW h2, NEW b1, NEW h1,
           Line(r, h3, b2, h2, b1, h1),
           NEW g, NEW c, Moves(b1, h2, c, g)
    PROVE  /\ /\ InLine2(r, h3, b2, h2)
              /\ InLine1(r, h3, b2, h2, b1, h1)
              => InLine2(r, h3, b2, g) /\ InLine1(r, h3, b2, g, c, h1)
           /\ Total(r, h3, b2, g, c, h1) = Total(r, h3, b2, h2, b1, h1)
<1>. DEFINE a == Len(r) + Len(h3) + Len(b2)
            m == Len(h2)
            l == Len(b1)
<1>0. /\ r \in Seq(Nat) /\ h3 \in Seq(Nat) /\ b2 \in Seq(Nat)
      /\ h2 \in Seq(Nat) /\ b1 \in Seq(Nat) /\ h1 \in Seq(Nat)
      /\ b1 # <<>> /\ g = Append(h2, Head(b1)) /\ c = Tail(b1)
  BY DEF Line, Moves
<1>1. a \in Nat /\ m \in Nat /\ l \in Nat /\ a + m \in Nat
  BY <1>0
<1>2. Len(g) = m + 1 /\ Len(c) = l - 1
  BY <1>0, HeadTailProperties, AppendProperties
<1>3. Follows(b1, a + m) => Head(b1) = a + m + 1 /\ Follows(c, a + m + 1)
  BY <1>0, <1>1, TailFollows
<1>4. Follows(h2, a) /\ Follows(b1, a + m) => Follows(g, a)
  BY <1>0, <1>1, <1>3, AppendFollows
<1>. HIDE DEF a, m, l
<1>5. /\ a + (m + 1) = a + m + 1
      /\ a + (m + 1) + (l - 1) = a + m + l
  BY <1>1
<1>6. /\ InLine2(r, h3, b2, h2) => Follows(h2, a) /\ Follows(b2, Len(r) + Len(h3))
      /\ InLine1(r, h3, b2, h2, b1, h1) => Follows(b1, a + m) /\ Follows(h1, a + m + l)
  BY DEF InLine1, InLine2, a, m, l
<1>7. Follows(b2, Len(r) + Len(h3)) /\ Follows(g, a) => InLine2(r, h3, b2, g)
  BY DEF InLine2, a
<1>8. Follows(c, a + m + 1) /\ Follows(h1, a + m + l) => InLine1(r, h3, b2, g, c, h1)
  BY <1>2, <1>5 DEF InLine1, a
<1>9. Total(r, h3, b2, g, c, h1) = Total(r, h3, b2, h2, b1, h1)
  BY <1>2, <1>5 DEF Total, a, m, l
<1>. QED
  BY <1>3, <1>4, <1>6, <1>7, <1>8, <1>9

LEMMA WriteInLine2 ==
    ASSUME NEW r, NEW h3, NEW b2, NEW h2, NEW b1, NEW h1,
           Line(r, h3, b2, h2, b1, h1),
           NEW g, NEW c, Moves(b2, h3, c, g)
    PROVE  /\ InLine3(r, h3) /\ InLine2(r, h3, b2, h2)
              => InLine3(r, g) /\ InLine2(r, g, c, h2)
           /\ InLine1(r, h3, b2, h2, b1, h1) => InLine1(r, g, c, h2, b1, h1)
           /\ Total(r, g, c, h2, b1, h1) = Total(r, h3, b2, h2, b1, h1)
<1>. DEFINE a == Len(r)
            m == Len(h3)
            l == Len(b2)
<1>0. /\ r \in Seq(Nat) /\ h3 \in Seq(Nat) /\ b2 \in Seq(Nat)
      /\ h2 \in Seq(Nat) /\ b1 \in Seq(Nat) /\ h1 \in Seq(Nat)
      /\ b2 # <<>> /\ g = Append(h3, Head(b2)) /\ c = Tail(b2)
  BY DEF Line, Moves
<1>1. a \in Nat /\ m \in Nat /\ l \in Nat /\ a + m \in Nat
  BY <1>0
<1>2. Len(g) = m + 1 /\ Len(c) = l - 1
  BY <1>0, HeadTailProperties, AppendProperties
<1>3. Follows(b2, a + m) => Head(b2) = a + m + 1 /\ Follows(c, a + m + 1)
  BY <1>0, <1>1, TailFollows
<1>4. Follows(h3, a) /\ Follows(b2, a + m) => Follows(g, a)
  BY <1>0, <1>1, <1>3, AppendFollows
<1>. HIDE DEF a, m, l
<1>5. /\ a + (m + 1) = a + m + 1
      /\ a + (m + 1) + (l - 1) = a + m + l
  BY <1>1
<1>6. /\ InLine3(r, h3) => Follows(h3, a)
      /\ InLine2(r, h3, b2, h2) => Follows(b2, a + m) /\ Follows(h2, a + m + l)
  BY DEF InLine2, InLine3, a, m, l
<1>7. Follows(g, a) => InLine3(r, g)
  BY DEF InLine3, a
<1>8. Follows(c, a + m + 1) /\ Follows(h2, a + m + l) => InLine2(r, g, c, h2)
  BY <1>2, <1>5 DEF InLine2, a
<1>9. /\ Total(r, g, c, h2, b1, h1) = Total(r, h3, b2, h2, b1, h1)
      /\ InLine1(r, h3, b2, h2, b1, h1) => InLine1(r, g, c, h2, b1, h1)
  BY <1>2, <1>5 DEF Total, InLine1, a, m, l
<1>. QED
  BY <1>3, <1>4, <1>6, <1>7, <1>8, <1>9

LEMMA ReceiveInLine ==
    ASSUME NEW r, NEW h3, NEW b2, NEW h2, NEW b1, NEW h1,
           Line(r, h3, b2, h2, b1, h1),
           NEW g, NEW c, Moves(h3, r, c, g)
    PROVE  /\ Follows(r, 0) /\ InLine3(r, h3) => Follows(g, 0) /\ InLine3(g, c)
           /\ InLine2(r, h3, b2, h2) => InLine2(g, c, b2, h2)
           /\ InLine1(r, h3, b2, h2, b1, h1) => InLine1(g, c, b2, h2, b1, h1)
           /\ Total(g, c, b2, h2, b1, h1) = Total(r, h3, b2, h2, b1, h1)
<1>. DEFINE m == Len(r)
            l == Len(h3)
<1>0. /\ r \in Seq(Nat) /\ h3 \in Seq(Nat) /\ b2 \in Seq(Nat)
      /\ h2 \in Seq(Nat) /\ b1 \in Seq(Nat) /\ h1 \in Seq(Nat)
      /\ h3 # <<>> /\ g = Append(r, Head(h3)) /\ c = Tail(h3)
  BY DEF Line, Moves
<1>1. m \in Nat /\ l \in Nat /\ 0 \in Nat /\ 0 + m + 1 = m + 1
  BY <1>0
<1>2. Len(g) = m + 1 /\ Len(c) = l - 1
  BY <1>0, HeadTailProperties, AppendProperties
<1>3. Follows(h3, m) => Head(h3) = m + 1 /\ Follows(c, m + 1)
  BY <1>0, <1>1, TailFollows
<1>4. Follows(r, 0) /\ Follows(h3, m) => Follows(g, 0)
  BY <1>0, <1>1, <1>3, AppendFollows
<1>. HIDE DEF m, l
<1>5. (m + 1) + (l - 1) = m + l
  BY <1>1
<1>6. InLine3(r, h3) => Follows(h3, m)
  BY DEF InLine3, m
<1>7. Follows(c, m + 1) => InLine3(g, c)
  BY <1>2 DEF InLine3
<1>8. /\ InLine2(r, h3, b2, h2) => InLine2(g, c, b2, h2)
      /\ InLine1(r, h3, b2, h2, b1, h1) => InLine1(g, c, b2, h2, b1, h1)
      /\ Total(g, c, b2, h2, b1, h1) = Total(r, h3, b2, h2, b1, h1)
  BY <1>2, <1>5 DEF InLine2, InLine1, Total, m, l
<1>. QED
  BY <1>3, <1>4, <1>6, <1>7, <1>8

LEMMA SendInLine ==
    ASSUME NEW r, NEW h3, NEW b2, NEW h2, NEW b1, NEW h1,
           Line(r, h3, b2, h2, b1, h1), NEW n \in Nat,
           NEW g, Gains(h1, n + 1, g)
    PROVE  /\ InLine1(r, h3, b2, h2, b1, h1) /\ Total(r, h3, b2, h2, b1, h1) = n
              => InLine1(r, h3, b2, h2, b1, g)
           /\ Total(r, h3, b2, h2, b1, g) = Total(r, h3, b2, h2, b1, h1) + 1
<1>. DEFINE a == Len(r) + Len(h3) + Len(b2) + Len(h2) + Len(b1)
            m == Len(h1)
<1>0. /\ r \in Seq(Nat) /\ h3 \in Seq(Nat) /\ b2 \in Seq(Nat)
      /\ h2 \in Seq(Nat) /\ b1 \in Seq(Nat) /\ h1 \in Seq(Nat)
      /\ g = Append(h1, n + 1)
  BY DEF Line, Gains
<1>1. a \in Nat /\ m \in Nat /\ n + 1 \in Nat
  BY <1>0
<1>2. Len(g) = m + 1
  BY <1>0, <1>1, AppendProperties
<1>3. Follows(h1, a) /\ a + m = n => Follows(g, a)
  BY <1>0, <1>1, AppendFollows
<1>. HIDE DEF a, m
<1>4. InLine1(r, h3, b2, h2, b1, h1) /\ Total(r, h3, b2, h2, b1, h1) = n
         => InLine1(r, h3, b2, h2, b1, g)
  BY <1>3 DEF InLine1, Total, a, m
<1>5. Total(r, h3, b2, h2, b1, g) = Total(r, h3, b2, h2, b1, h1) + 1
  <2>1. Total(r, h3, b2, h2, b1, g) = a + (m + 1) /\ Total(r, h3, b2, h2, b1, h1) = a + m
    BY <1>2 DEF Total, a, m
  <2>. QED  BY <1>1, <2>1
<1>. QED
  BY <1>4, <1>5

LEMMA LineType ==
    ASSUME TypeOK, NEW d \in Dir
    PROVE  /\ received[d] \in Seq(Nat) /\ sent[d] \in Nat
           /\ \A h \in Hop : Data(d, h) \in Seq(Nat)
           /\ Data(d, 1) \in Seq(Nat) /\ Data(d, 2) \in Seq(Nat) /\ Data(d, 3) \in Seq(Nat)
           /\ Buf1(d) \in Seq(Nat) /\ Buf2(d) \in Seq(Nat)
<1>1. \A h \in Hop : Data(d, h) \in Seq(Nat)
  BY DEF TypeOK, Pipe, Data
<1>2. Buf1(d) \in Seq(Nat) /\ Buf2(d) \in Seq(Nat)
  BY Places DEF TypeOK, Buf1, Buf2
<1>. QED  BY <1>1, <1>2 DEF TypeOK, Hop

LineKept(d) ==
    /\ received'[d] = received[d]
    /\ Data(d, 1)' = Data(d, 1) /\ Data(d, 2)' = Data(d, 2) /\ Data(d, 3)' = Data(d, 3)
    /\ Buf1(d)' = Buf1(d) /\ Buf2(d)' = Buf2(d)

LEMMA KeptLine ==
    ASSUME NEW d \in Dir, LineKept(d)
    PROVE  /\ Everything(d)' = Everything(d)
           /\ InOrderFor(d)
              /\ (hop[d][3].gone => hop'[d][3].gone)
              /\ (pump[Second(d)][d] = "ended" => pump'[Second(d)][d] = "ended")
              /\ (pump[First(d)][d] = "ended" => pump'[First(d)][d] = "ended")
              /\ (hop'[d][1].eof \/ (~hop[d][1].eof /\ sent'[d] = sent[d]))
              => InOrderFor(d)'
<1>1. Everything(d)' = Everything(d)
  BY DEF LineKept, Everything
<1>. QED  BY <1>1 DEF LineKept, InOrderFor

(* A pump or an end that moves bytes one way leaves the other alone. *)
LEMMA OtherLine ==
    ASSUME TypeOK, IdleInv, NEW d \in Dir, NEW x \in Dir, x # d,
           \/ \E n \in Node : Read(n, d) \/ Write(n, d)
           \/ Send(d) \/ Receive(d)
    PROVE  LineKept(x)
<1>0. 1 \in Hop /\ 2 \in Hop /\ 3 \in Hop /\ First(x) \in Node /\ Second(x) \in Node
  BY Places DEF Hop
<1>1. ASSUME NEW n \in Node, Read(n, d)
      PROVE  LineKept(x)
  <2>1. \A h \in Hop : hop'[x][h].data = hop[x][h].data
    BY <1>1, ReadSets DEF SetsData
  <2>2. \A m \in Node : buf'[m][x] = buf[m][x]
    BY <1>1 DEF Read, TypeOK
  <2>. QED  BY <1>0, <1>1, <2>1, <2>2 DEF Read, LineKept, Data, Buf1, Buf2
<1>2. ASSUME NEW n \in Node, Write(n, d)
      PROVE  LineKept(x)
  <2>0. buf[n][d] # <<>>
    BY <1>2 DEF Write, IdleInv
  <2>1. \A h \in Hop : hop'[x][h].data = hop[x][h].data
    BY <1>2, <2>0, WriteSets DEF SetsData
  <2>2. \A m \in Node : buf'[m][x] = buf[m][x]
    <3>1. buf' = [buf EXCEPT ![n][d] = Tail(buf[n][d])]
      BY <1>2 DEF Write
    <3>. QED  BY <3>1 DEF TypeOK
  <2>. QED  BY <1>0, <1>2, <2>1, <2>2 DEF Write, LineKept, Data, Buf1, Buf2
<1>3. CASE Send(d)
  <2>1. \A h \in Hop : hop'[x][h].data = hop[x][h].data
    BY <1>3, SendSets DEF SetsData
  <2>. QED  BY <1>0, <1>3, <2>1 DEF Send, LineKept, Data, Buf1, Buf2
<1>4. CASE Receive(d)
  <2>1. \A h \in Hop : hop'[x][h].data = hop[x][h].data
    BY <1>4, ReceiveSets DEF SetsData
  <2>2. received'[x] = received[x]
    BY <1>4 DEF Receive, TypeOK
  <2>. QED  BY <1>0, <1>4, <2>1, <2>2 DEF Receive, LineKept, Data, Buf1, Buf2
<1>. QED  BY <1>1, <1>2, <1>3, <1>4

(* Reading, writing and receiving move bytes along the line. *)
LEMMA ReadMoves ==
    ASSUME TypeOK, NEW n \in Node, NEW d \in Dir, Read(n, d), InOrderFor(d)
    PROVE  InOrderFor(d)' /\ Everything(d)' = Everything(d)
<1>0. /\ 1 \in Hop /\ 2 \in Hop /\ 3 \in Hop
      /\ First(d) \in Node /\ Second(d) \in Node /\ First(d) # Second(d)
      /\ In(First(d), d) = 1 /\ In(Second(d), d) = 2
      /\ (n = First(d) \/ n = Second(d))
  BY Places DEF Hop
<1>1. SetsData(hop, hop', d, In(n, d), <<>>)
  BY ReadSets
<1>2. /\ pump[n][d] = "reading"
      /\ buf' = [buf EXCEPT ![n][d] = hop[d][In(n, d)].data]
      /\ pump' = [pump EXCEPT ![n][d] = "writing"]
      /\ UNCHANGED <<sent, received>>
  BY DEF Read
<1>3. \A m \in Node : m # n => buf'[m][d] = buf[m][d] /\ pump'[m][d] = pump[m][d]
  BY <1>2 DEF TypeOK
<1>4. /\ buf'[n][d] = hop[d][In(n, d)].data /\ buf[n][d] = <<>>
      /\ pump[n][d] # "ended" /\ pump'[n][d] # "ended"
  BY <1>2 DEF TypeOK
<1>5. hop'[d][3].gone = hop[d][3].gone /\ hop'[d][1].eof = hop[d][1].eof
  BY <1>0, <1>1 DEF SetsData
<1>6. CASE n = First(d)
  <2>1. /\ Buf1(d)' = Data(d, 1) /\ Buf1(d) = <<>> /\ Data(d, 1)' = <<>>
        /\ Buf2(d)' = Buf2(d) /\ Data(d, 2)' = Data(d, 2) /\ Data(d, 3)' = Data(d, 3)
        /\ received'[d] = received[d] /\ sent'[d] = sent[d]
    BY <1>0, <1>1, <1>2, <1>3, <1>4, <1>6 DEF SetsData, Data, Buf1, Buf2
  <2>2. Everything(d)' = Everything(d)
    BY <2>1, LineType, ReadInLine1 DEF Everything
  <2>3. InLine1(received[d], Data(d, 3), Buf2(d), Data(d, 2), Buf1(d), Data(d, 1))
          => InLine1(received[d], Data(d, 3), Buf2(d), Data(d, 2), Data(d, 1), <<>>)
    BY <2>1, LineType, ReadInLine1
  <2>4. pump'[Second(d)][d] = pump[Second(d)][d] /\ pump[First(d)][d] # "ended"
    BY <1>0, <1>3, <1>4, <1>6
  <2>. QED  BY <1>5, <2>1, <2>2, <2>3, <2>4 DEF InOrderFor
<1>7. CASE n = Second(d)
  <2>1. /\ Buf2(d)' = Data(d, 2) /\ Buf2(d) = <<>> /\ Data(d, 2)' = <<>>
        /\ Buf1(d)' = Buf1(d) /\ Data(d, 1)' = Data(d, 1) /\ Data(d, 3)' = Data(d, 3)
        /\ received'[d] = received[d] /\ sent'[d] = sent[d]
    BY <1>0, <1>1, <1>2, <1>3, <1>4, <1>7 DEF SetsData, Data, Buf1, Buf2
  <2>2. Everything(d)' = Everything(d)
    BY <2>1, LineType, ReadInLine2 DEF Everything
  <2>3. /\ InLine2(received[d], Data(d, 3), Buf2(d), Data(d, 2))
             => InLine2(received[d], Data(d, 3), Data(d, 2), <<>>)
        /\ InLine1(received[d], Data(d, 3), Buf2(d), Data(d, 2), Buf1(d), Data(d, 1))
             => InLine1(received[d], Data(d, 3), Data(d, 2), <<>>, Buf1(d), Data(d, 1))
    BY <2>1, LineType, ReadInLine2
  <2>4. pump'[First(d)][d] = pump[First(d)][d] /\ pump[Second(d)][d] # "ended"
    BY <1>0, <1>3, <1>4, <1>7
  <2>. QED  BY <1>5, <2>1, <2>2, <2>3, <2>4 DEF InOrderFor
<1>. QED  BY <1>0, <1>6, <1>7

LEMMA WriteMoves ==
    ASSUME TypeOK, IdleInv, NEW n \in Node, NEW d \in Dir, Write(n, d), InOrderFor(d)
    PROVE  /\ InOrderFor(d)'
           /\ hop[d][3].gone \/ Everything(d)' = Everything(d)
<1>0. /\ 1 \in Hop /\ 2 \in Hop /\ 3 \in Hop
      /\ First(d) \in Node /\ Second(d) \in Node /\ First(d) # Second(d)
      /\ Out(First(d), d) = 2 /\ Out(Second(d), d) = 3
      /\ (n = First(d) \/ n = Second(d))
  BY Places DEF Hop
<1>9. /\ received[d] \in Seq(Nat) /\ sent[d] \in Nat
      /\ Data(d, 1) \in Seq(Nat) /\ Data(d, 2) \in Seq(Nat) /\ Data(d, 3) \in Seq(Nat)
      /\ Buf1(d) \in Seq(Nat) /\ Buf2(d) \in Seq(Nat)
  BY LineType
<1>1. buf[n][d] # <<>>
  BY DEF Write, IdleInv
<1>2. /\ pump[n][d] = "writing"
      /\ buf' = [buf EXCEPT ![n][d] = Tail(buf[n][d])]
      /\ pump' = [pump EXCEPT ![n][d] = IF Len(buf[n][d]) = 1 THEN "reading" ELSE pump[n][d]]
      /\ UNCHANGED <<sent, received>>
  BY DEF Write
<1>3. \A m \in Node : m # n => buf'[m][d] = buf[m][d] /\ pump'[m][d] = pump[m][d]
  BY <1>2 DEF TypeOK
<1>4. /\ buf'[n][d] = Tail(buf[n][d])
      /\ pump[n][d] # "ended" /\ pump'[n][d] # "ended"
  BY <1>2 DEF TypeOK
<1>5. \/ UNCHANGED hop /\ hop[d][3].gone
      \/ SetsData(hop, hop', d, Out(n, d), Append(hop[d][Out(n, d)].data, Head(buf[n][d])))
  BY <1>1, WriteSets
<1>6. CASE UNCHANGED hop /\ hop[d][3].gone
  BY <1>2, <1>6 DEF InOrderFor
<1>7. CASE SetsData(hop, hop', d, Out(n, d), Append(hop[d][Out(n, d)].data, Head(buf[n][d])))
  <2>1. hop'[d][3].gone = hop[d][3].gone /\ hop'[d][1].eof = hop[d][1].eof
    BY <1>0, <1>7 DEF SetsData
  <2>2. CASE n = First(d)
    <3>1. /\ Data(d, 2)' = Append(Data(d, 2), Head(Buf1(d))) /\ Buf1(d)' = Tail(Buf1(d))
          /\ Buf1(d) # <<>>
          /\ Buf2(d)' = Buf2(d) /\ Data(d, 1)' = Data(d, 1) /\ Data(d, 3)' = Data(d, 3)
          /\ received'[d] = received[d] /\ sent'[d] = sent[d]
      BY <1>0, <1>1, <1>2, <1>3, <1>4, <1>7, <2>2 DEF SetsData, Data, Buf1, Buf2
    <3>3. /\ /\ InLine2(received[d], Data(d, 3), Buf2(d), Data(d, 2))
             /\ InLine1(received[d], Data(d, 3), Buf2(d), Data(d, 2), Buf1(d), Data(d, 1))
             => /\ InLine2(received[d], Data(d, 3), Buf2(d), Data(d, 2)')
                /\ InLine1(received[d], Data(d, 3), Buf2(d), Data(d, 2)', Buf1(d)', Data(d, 1))
          /\ Total(received[d], Data(d, 3), Buf2(d), Data(d, 2)', Buf1(d)', Data(d, 1))
             = Total(received[d], Data(d, 3), Buf2(d), Data(d, 2), Buf1(d), Data(d, 1))
      <4>. DEFINE r == received[d]
                 h3 == Data(d, 3)
                 b2 == Buf2(d)
                 h2 == Data(d, 2)
                 b1 == Buf1(d)
                 h1 == Data(d, 1)
                 g == Data(d, 2)'
                 c == Buf1(d)'
      <4>1. /\ Line(r, h3, b2, h2, b1, h1)
           /\ Moves(b1, h2, c, g)
        BY <1>9, <3>1 DEF Line, Moves
      <4>. HIDE DEF r, h3, b2, h2, b1, h1, g, c
      <4>2. /\ /\ InLine2(r, h3, b2, h2)
               /\ InLine1(r, h3, b2, h2, b1, h1)
               => InLine2(r, h3, b2, g) /\ InLine1(r, h3, b2, g, c, h1)
            /\ Total(r, h3, b2, g, c, h1) = Total(r, h3, b2, h2, b1, h1)
        BY <4>1, WriteInLine1
      <4>. QED  BY <4>2 DEF r, h3, b2, h2, b1, h1, g, c
    <3>2. Everything(d)' = Everything(d)
      BY <3>1, <3>3 DEF Everything
    <3>4. pump'[Second(d)][d] = pump[Second(d)][d] /\ pump[First(d)][d] # "ended"
      BY <1>0, <1>3, <1>4, <2>2
    <3>. QED  BY <2>1, <3>1, <3>2, <3>3, <3>4 DEF InOrderFor
  <2>3. CASE n = Second(d)
    <3>1. /\ Data(d, 3)' = Append(Data(d, 3), Head(Buf2(d))) /\ Buf2(d)' = Tail(Buf2(d))
          /\ Buf2(d) # <<>>
          /\ Buf1(d)' = Buf1(d) /\ Data(d, 1)' = Data(d, 1) /\ Data(d, 2)' = Data(d, 2)
          /\ received'[d] = received[d] /\ sent'[d] = sent[d]
      BY <1>0, <1>1, <1>2, <1>3, <1>4, <1>7, <2>3 DEF SetsData, Data, Buf1, Buf2
    <3>3. /\ ( /\ InLine3(received[d], Data(d, 3))
               /\ InLine2(received[d], Data(d, 3), Buf2(d), Data(d, 2)) )
             => /\ InLine3(received[d], Data(d, 3)')
                /\ InLine2(received[d], Data(d, 3)', Buf2(d)', Data(d, 2))
          /\ InLine1(received[d], Data(d, 3), Buf2(d), Data(d, 2), Buf1(d), Data(d, 1))
             => InLine1(received[d], Data(d, 3)', Buf2(d)', Data(d, 2), Buf1(d), Data(d, 1))
          /\ Total(received[d], Data(d, 3)', Buf2(d)', Data(d, 2), Buf1(d), Data(d, 1))
             = Total(received[d], Data(d, 3), Buf2(d), Data(d, 2), Buf1(d), Data(d, 1))
      <4>. DEFINE r == received[d]
                 h3 == Data(d, 3)
                 b2 == Buf2(d)
                 h2 == Data(d, 2)
                 b1 == Buf1(d)
                 h1 == Data(d, 1)
                 g == Data(d, 3)'
                 c == Buf2(d)'
      <4>1. /\ Line(r, h3, b2, h2, b1, h1)
           /\ Moves(b2, h3, c, g)
        BY <1>9, <3>1 DEF Line, Moves
      <4>. HIDE DEF r, h3, b2, h2, b1, h1, g, c
      <4>2. /\ InLine3(r, h3) /\ InLine2(r, h3, b2, h2)
                  => InLine3(r, g) /\ InLine2(r, g, c, h2)
            /\ InLine1(r, h3, b2, h2, b1, h1) => InLine1(r, g, c, h2, b1, h1)
            /\ Total(r, g, c, h2, b1, h1) = Total(r, h3, b2, h2, b1, h1)
        BY <4>1, WriteInLine2
      <4>. QED  BY <4>2 DEF r, h3, b2, h2, b1, h1, g, c
    <3>2. Everything(d)' = Everything(d)
      BY <3>1, <3>3 DEF Everything
    <3>4. pump'[First(d)][d] = pump[First(d)][d] /\ pump[Second(d)][d] # "ended"
      BY <1>0, <1>3, <1>4, <2>3
    <3>. QED  BY <2>1, <3>1, <3>2, <3>3, <3>4 DEF InOrderFor
  <2>. QED  BY <1>0, <2>2, <2>3
<1>. QED  BY <1>5, <1>6, <1>7

LEMMA ReceiveMoves ==
    ASSUME TypeOK, NEW d \in Dir, Receive(d), InOrderFor(d)
    PROVE  InOrderFor(d)' /\ Everything(d)' = Everything(d)
<1>0. 1 \in Hop /\ 2 \in Hop /\ 3 \in Hop
  BY DEF Hop
<1>9. /\ received[d] \in Seq(Nat) /\ sent[d] \in Nat
      /\ Data(d, 1) \in Seq(Nat) /\ Data(d, 2) \in Seq(Nat) /\ Data(d, 3) \in Seq(Nat)
      /\ Buf1(d) \in Seq(Nat) /\ Buf2(d) \in Seq(Nat)
  BY LineType
<1>1. SetsData(hop, hop', d, 3, Tail(hop[d][3].data))
  BY ReceiveSets
<1>2. /\ hop[d][3].data # <<>> /\ ~hop[d][3].gone
      /\ received' = [received EXCEPT ![d] = Append(received[d], Head(hop[d][3].data))]
      /\ UNCHANGED <<pump, buf, sent>>
  BY DEF Receive
<1>3. hop'[d][3].gone = hop[d][3].gone /\ hop'[d][1].eof = hop[d][1].eof
  BY <1>0, <1>1 DEF SetsData
<1>4. /\ Data(d, 3) # <<>> /\ Data(d, 3)' = Tail(Data(d, 3))
      /\ received'[d] = Append(received[d], Head(Data(d, 3)))
      /\ Buf1(d)' = Buf1(d) /\ Buf2(d)' = Buf2(d)
      /\ Data(d, 1)' = Data(d, 1) /\ Data(d, 2)' = Data(d, 2)
  BY <1>0, <1>1, <1>2 DEF SetsData, Data, Buf1, Buf2, TypeOK
<1>6. /\ Follows(received[d], 0) /\ InLine3(received[d], Data(d, 3))
           => Follows(received'[d], 0) /\ InLine3(received'[d], Data(d, 3)')
      /\ InLine2(received[d], Data(d, 3), Buf2(d), Data(d, 2))
           => InLine2(received'[d], Data(d, 3)', Buf2(d), Data(d, 2))
      /\ InLine1(received[d], Data(d, 3), Buf2(d), Data(d, 2), Buf1(d), Data(d, 1))
           => InLine1(received'[d], Data(d, 3)', Buf2(d), Data(d, 2), Buf1(d), Data(d, 1))
      /\ Total(received'[d], Data(d, 3)', Buf2(d), Data(d, 2), Buf1(d), Data(d, 1))
           = Total(received[d], Data(d, 3), Buf2(d), Data(d, 2), Buf1(d), Data(d, 1))
  <2>. DEFINE r == received[d]
             h3 == Data(d, 3)
             b2 == Buf2(d)
             h2 == Data(d, 2)
             b1 == Buf1(d)
             h1 == Data(d, 1)
             g == received'[d]
             c == Data(d, 3)'
  <2>1. /\ Line(r, h3, b2, h2, b1, h1)
       /\ Moves(h3, r, c, g)
    BY <1>9, <1>4 DEF Line, Moves, Gains
  <2>. HIDE DEF r, h3, b2, h2, b1, h1, g, c
  <2>2. /\ Follows(r, 0) /\ InLine3(r, h3) => Follows(g, 0) /\ InLine3(g, c)
        /\ InLine2(r, h3, b2, h2) => InLine2(g, c, b2, h2)
        /\ InLine1(r, h3, b2, h2, b1, h1) => InLine1(g, c, b2, h2, b1, h1)
        /\ Total(g, c, b2, h2, b1, h1) = Total(r, h3, b2, h2, b1, h1)
    BY <2>1, ReceiveInLine
  <2>. QED  BY <2>2 DEF r, h3, b2, h2, b1, h1, g, c
<1>5. Everything(d)' = Everything(d)
  BY <1>4, <1>6 DEF Everything
<1>. QED  BY <1>2, <1>3, <1>4, <1>5, <1>6 DEF InOrderFor

LEMMA SendMoves ==
    ASSUME TypeOK, NEW d \in Dir, Send(d), InOrderFor(d)
    PROVE  InOrderFor(d)' /\ Everything(d)' = Everything(d) + 1 /\ sent'[d] = sent[d] + 1
<1>0. 1 \in Hop /\ 2 \in Hop /\ 3 \in Hop
  BY DEF Hop
<1>9. /\ received[d] \in Seq(Nat) /\ sent[d] \in Nat
      /\ Data(d, 1) \in Seq(Nat) /\ Data(d, 2) \in Seq(Nat) /\ Data(d, 3) \in Seq(Nat)
      /\ Buf1(d) \in Seq(Nat) /\ Buf2(d) \in Seq(Nat)
  BY LineType
<1>1. SetsData(hop, hop', d, 1, Append(hop[d][1].data, sent[d] + 1))
  BY SendSets
<1>2. /\ ~hop[d][1].eof
      /\ sent' = [sent EXCEPT ![d] = sent[d] + 1]
      /\ UNCHANGED <<pump, buf, received>>
  BY DEF Send
<1>3. hop'[d][3].gone = hop[d][3].gone /\ hop'[d][1].eof = hop[d][1].eof
  BY <1>0, <1>1 DEF SetsData
<1>4. /\ Data(d, 1)' = Append(Data(d, 1), sent[d] + 1) /\ sent'[d] = sent[d] + 1
      /\ received'[d] = received[d] /\ Buf1(d)' = Buf1(d) /\ Buf2(d)' = Buf2(d)
      /\ Data(d, 3)' = Data(d, 3) /\ Data(d, 2)' = Data(d, 2)
  BY <1>0, <1>1, <1>2 DEF SetsData, Data, Buf1, Buf2, TypeOK
<1>6. /\ /\ InLine1(received[d], Data(d, 3), Buf2(d), Data(d, 2), Buf1(d), Data(d, 1))
         /\ Total(received[d], Data(d, 3), Buf2(d), Data(d, 2), Buf1(d), Data(d, 1)) = sent[d]
         => InLine1(received[d], Data(d, 3), Buf2(d), Data(d, 2), Buf1(d), Data(d, 1)')
      /\ Total(received[d], Data(d, 3), Buf2(d), Data(d, 2), Buf1(d), Data(d, 1)')
           = Total(received[d], Data(d, 3), Buf2(d), Data(d, 2), Buf1(d), Data(d, 1)) + 1
  <2>. DEFINE r == received[d]
             h3 == Data(d, 3)
             b2 == Buf2(d)
             h2 == Data(d, 2)
             b1 == Buf1(d)
             h1 == Data(d, 1)
             g == Data(d, 1)'
  <2>1. /\ Line(r, h3, b2, h2, b1, h1)
       /\ sent[d] \in Nat /\ Gains(h1, sent[d] + 1, g)
    BY <1>9, <1>4 DEF Line, Moves, Gains
  <2>. HIDE DEF r, h3, b2, h2, b1, h1, g
  <2>2. /\ InLine1(r, h3, b2, h2, b1, h1) /\ Total(r, h3, b2, h2, b1, h1) = sent[d]
              => InLine1(r, h3, b2, h2, b1, g)
        /\ Total(r, h3, b2, h2, b1, g) = Total(r, h3, b2, h2, b1, h1) + 1
    BY <2>1, SendInLine
  <2>. QED  BY <2>2 DEF r, h3, b2, h2, b1, h1, g
<1>5. Everything(d)' = Everything(d) + 1
  BY <1>4, <1>6 DEF Everything
<1>. QED  BY <1>2, <1>3, <1>4, <1>5, <1>6 DEF InOrderFor, Everything

(* Closing sockets cuts no byte that has bytes behind it on their way.       *)
LEMMA ShutsInOrder ==
    ASSUME TypeOK, TypeOK', IdleInv, SessionInv', SocketInv',
           NEW d \in Dir, InOrderFor(d), Shuts(hop, hop'), UNCHANGED <<sent, received>>,
           \A n \in Node : /\ pump[n][d] = "ended" => pump'[n][d] = "ended"
                           /\ pump'[n][d] = "none" => pump[n][d] = "none"
                           /\ pump'[n][d] # "ended" => buf'[n][d] = buf[n][d]
    PROVE  InOrderFor(d)'
<1>0. /\ 1 \in Hop /\ 2 \in Hop /\ 3 \in Hop
      /\ First(d) \in Node /\ Second(d) \in Node /\ Out(Second(d), d) = 3
  BY Places DEF Hop
<1>1. /\ received'[d] = received[d] /\ sent'[d] = sent[d]
      /\ Data(d, 1) \in Seq(Nat) /\ Data(d, 2) \in Seq(Nat) /\ Data(d, 3) \in Seq(Nat)
      /\ Follows(received[d], 0)
  BY LineType DEF InOrderFor
<1>2. /\ Data(d, 1)' \in Prefixes(Data(d, 1)) /\ Data(d, 3)' \in Prefixes(Data(d, 3))
      /\ Data(d, 2)' = Data(d, 2)
      /\ Data(d, 1)' = Data(d, 1) \/ hop'[d][1].eof
      /\ Data(d, 3)' = Data(d, 3) \/ hop'[d][3].eof
      /\ hop[d][1].eof => hop'[d][1].eof
      /\ hop[d][3].gone => hop'[d][3].gone
  BY <1>0 DEF Shuts, Data
<1>3. InLine3(received[d], Data(d, 3)) => InLine3(received'[d], Data(d, 3)')
  BY <1>1, <1>2, PrefixFollows DEF InLine3
<1>4. ASSUME pump'[Second(d)][d] # "ended"
      PROVE  Data(d, 3)' = Data(d, 3)
  <2>1. CASE ~hop'[d][3].eof
    BY <1>2, <2>1
  <2>2. CASE hop'[d][3].eof
    <3>1. d = "down" /\ Second(d) = "sidecar" /\ pump'["sidecar"]["up"] = "none"
      BY <1>4, <2>2 DEF SocketInv, Refused, Second
    <3>2. pump'[Second(d)][d] = "none"
      BY <1>0, <3>1 DEF SessionInv
    <3>3. pump[Second(d)][d] = "none"
      BY <1>0, <3>2
    <3>4. Data(d, 3) = <<>>
      BY <1>0, <3>3 DEF IdleInv
    <3>. QED  BY <1>1, <1>2, <3>4, PrefixesOf
  <2>. QED  BY <2>1, <2>2
<1>5. /\ pump'[Second(d)][d] # "ended" => Buf2(d)' = Buf2(d)
      /\ pump'[First(d)][d] # "ended" => Buf1(d)' = Buf1(d)
  BY <1>0 DEF Buf1, Buf2
<1>6. /\ pump'[Second(d)][d] # "ended" => pump[Second(d)][d] # "ended"
      /\ pump'[First(d)][d] # "ended" => pump[First(d)][d] # "ended"
  BY <1>0
<1>7. InLine1(received[d], Data(d, 3), Buf2(d), Data(d, 2), Buf1(d), Data(d, 1))
        => InLine1(received[d], Data(d, 3), Buf2(d), Data(d, 2), Buf1(d), Data(d, 1)')
  BY <1>1, <1>2, PrefixFollows DEF InLine1
<1>8. ASSUME ~hop'[d][3].gone, pump'[Second(d)][d] # "ended"
      PROVE  InLine2(received'[d], Data(d, 3)', Buf2(d)', Data(d, 2)')
  BY <1>1, <1>2, <1>4, <1>5, <1>6, <1>8 DEF InOrderFor
<1>9. ASSUME ~hop'[d][3].gone, pump'[Second(d)][d] # "ended", pump'[First(d)][d] # "ended"
      PROVE  /\ InLine1(received'[d], Data(d, 3)', Buf2(d)', Data(d, 2)', Buf1(d)', Data(d, 1)')
             /\ ~hop'[d][1].eof => Everything(d)' = sent'[d]
  <2>1. /\ InLine1(received[d], Data(d, 3), Buf2(d), Data(d, 2), Buf1(d), Data(d, 1))
        /\ ~hop[d][1].eof => Everything(d) = sent[d]
    BY <1>2, <1>6, <1>9 DEF InOrderFor
  <2>2. Data(d, 3)' = Data(d, 3) /\ Buf2(d)' = Buf2(d) /\ Buf1(d)' = Buf1(d)
    BY <1>4, <1>5, <1>9
  <2>3. ~hop'[d][1].eof => Everything(d)' = Everything(d)
    BY <1>1, <1>2, <2>2 DEF Everything
  <2>. QED  BY <1>1, <1>2, <1>7, <2>1, <2>2, <2>3
<1>10. ~hop'[d][3].gone => InLine3(received'[d], Data(d, 3)')
  BY <1>2, <1>3 DEF InOrderFor
<1>. QED  BY <1>1, <1>8, <1>9, <1>10 DEF InOrderFor

LEMMA OrderStep ==
    ASSUME TypeOK, TypeOK', SessionInv, SessionInv', SocketInv', IdleInv, OrderInv, [Next]_vars
    PROVE  OrderInv'
<1>. SUFFICES ASSUME NEW d \in Dir
              PROVE  InOrderFor(d)'
  BY DEF OrderInv
<1>0. InOrderFor(d)
  BY DEF OrderInv
<1>1. ASSUME NEW n \in Node,
             Accept(n) \/ AcceptAnother(n) \/ ServiceEnds(n) \/ Session(n)
      PROVE  InOrderFor(d)'
  <2>1. Shuts(hop, hop') /\ UNCHANGED <<buf, sent, received>>
    BY <1>1, SessionMoves, CloseAcceptedShuts, NothingShuts
  <2>2. \A m \in Node : /\ pump[m][d] = "ended" => pump'[m][d] = "ended"
                        /\ pump'[m][d] = "none" => pump[m][d] = "none"
                        /\ pump'[m][d] # "ended" => buf'[m][d] = buf[m][d]
    BY <1>1, <2>1, SessionMoves
  <2>. QED  BY <1>0, <2>1, <2>2, ShutsInOrder
<1>2. ASSUME NEW n \in Node, NEW x \in Dir, PumpEnds(n, x), UNCHANGED <<sent, received>>
      PROVE  InOrderFor(d)'
  <2>1. Shuts(hop, hop')
    BY <1>2, PumpEndsShuts
  <2>2. \A m \in Node : \/ pump'[m][d] = "ended"
                        \/ pump'[m][d] = pump[m][d] /\ buf'[m][d] = buf[m][d]
    BY <1>2 DEF PumpEnds, TypeOK
  <2>3. \A m \in Node : /\ pump[m][d] = "ended" => pump'[m][d] = "ended"
                        /\ pump'[m][d] = "none" => pump[m][d] = "none"
                        /\ pump'[m][d] # "ended" => buf'[m][d] = buf[m][d]
    BY <2>2
  <2>. QED  BY <1>0, <1>2, <2>1, <2>3, ShutsInOrder
<1>3. ASSUME NEW n \in Node, NEW x \in Dir, Read(n, x) \/ Write(n, x)
      PROVE  InOrderFor(d)'
  <2>1. CASE x = d
    BY <1>0, <1>3, <2>1, ReadMoves, WriteMoves
  <2>2. CASE x # d
    <3>1. LineKept(d)
      BY <1>3, <2>2, OtherLine
    <3>2. /\ hop'[d][3].gone = hop[d][3].gone /\ hop'[d][1].eof = hop[d][1].eof
      BY <1>3, SetsKeepSignals DEF Hop
    <3>3. /\ pump'[First(d)][d] = pump[First(d)][d] /\ pump'[Second(d)][d] = pump[Second(d)][d]
          /\ sent'[d] = sent[d]
      BY <1>3, <2>2, PumpMoves, Places DEF Pump
    <3>. QED  BY <1>0, <3>1, <3>2, <3>3, KeptLine
  <2>. QED  BY <2>1, <2>2
<1>4. ASSUME NEW x \in Dir, Send(x) \/ Receive(x)
      PROVE  InOrderFor(d)'
  <2>1. CASE x = d
    BY <1>0, <1>4, <2>1, SendMoves, ReceiveMoves
  <2>2. CASE x # d
    <3>1. LineKept(d)
      BY <1>4, <2>2, OtherLine
    <3>2. /\ hop'[d][3].gone = hop[d][3].gone /\ hop'[d][1].eof = hop[d][1].eof
      BY <1>4, SendSets, ReceiveSets DEF SetsData, Hop
    <3>3. UNCHANGED pump /\ sent'[d] = sent[d]
      BY <1>4, <2>2 DEF Send, Receive, TypeOK
    <3>. QED  BY <1>0, <3>1, <3>2, <3>3, KeptLine
  <2>. QED  BY <2>1, <2>2
<1>5. ASSUME NEW x \in Dir, HalfClose(x) \/ Close(x)
      PROVE  InOrderFor(d)'
  <2>1. Shuts(hop, hop') /\ UNCHANGED <<pump, buf, sent, received>>
    BY <1>5, HalfCloseShuts, CloseShuts DEF HalfClose, Close
  <2>. QED  BY <1>0, <2>1, ShutsInOrder
<1>6. CASE UNCHANGED vars
  <2>1. LineKept(d) /\ UNCHANGED <<hop, pump, sent>>
    BY <1>6 DEF vars, LineKept, Data, Buf1, Buf2
  <2>. QED  BY <1>0, <2>1, KeptLine
<1>. QED
  BY <1>1, <1>2, <1>3, <1>4, <1>5, <1>6 DEF Next, Pump, StopReading, WriteFails

-----------------------------------------------------------------------------
(* No byte is lost while nothing else can end the tunnel.                  *)

LEMMA CalmBefore ==
    ASSUME TypeOK, SessionInv, IdleInv, [Next]_vars, NEW d \in Dir, Calm(d)'
    PROVE  Calm(d)
<1>. DEFINE e == Opposite(d)
<1>0. /\ e \in Dir /\ 1 \in Hop /\ 3 \in Hop /\ "sidecar" \in Node /\ "agent" \in Node
  BY Opposites DEF Hop, Node
<1>1. /\ sent'[e] = 0 /\ ~hop'[e][1].eof /\ ~hop'[d][3].gone
      /\ \A n \in Node : service'[n] = "accepting"
      /\ ~Refused("sidecar") /\ ~Refused("agent")
  BY <1>0, EndedForGood DEF Calm, Quiet
<1>. HIDE DEF e
<1>2. ASSUME \A x \in Dir, y \in Hop : /\ hop[x][y].eof => hop'[x][y].eof
                                       /\ hop[x][y].gone => hop'[x][y].gone,
             sent'[e] = 0 => sent[e] = 0,
             \A n \in Node : service'[n] = "accepting" => service[n] = "accepting"
      PROVE  Calm(d)
  <2>1. /\ sent[e] = 0 /\ ~hop[e][1].eof /\ ~hop[d][3].gone
        /\ \A n \in Node : service[n] = "accepting"
    BY <1>0, <1>1, <1>2
  <2>. QED  BY <1>1, <2>1 DEF Calm, Quiet, e
<1>3. ASSUME NEW n \in Node,
             Accept(n) \/ AcceptAnother(n) \/ ServiceEnds(n) \/ Session(n)
      PROVE  Calm(d)
  <2>1. Shuts(hop, hop') /\ UNCHANGED sent
    BY <1>3, SessionMoves, CloseAcceptedShuts, NothingShuts
  <2>2. UNCHANGED service \/ service' = [service EXCEPT ![n] = "ended"]
    BY <1>3 DEF Accept, AcceptAnother, ServiceEnds, Session, Connected, NotConnected,
       StopFwd1, StopFwd2, SessionEnds
  <2>3. \A m \in Node : service'[m] = "accepting" => service[m] = "accepting"
    BY <2>2 DEF TypeOK
  <2>. QED  BY <1>2, <2>1, <2>3 DEF Shuts
<1>4. ASSUME NEW n \in Node, NEW x \in Dir, PumpEnds(n, x), UNCHANGED <<nodeVars, sent>>
      PROVE  Calm(d)
  <2>1. Shuts(hop, hop')
    BY <1>4, PumpEndsShuts
  <2>. QED  BY <1>2, <1>4, <2>1 DEF Shuts, nodeVars
<1>5. ASSUME NEW n \in Node, NEW x \in Dir, Read(n, x) \/ Write(n, x)
      PROVE  Calm(d)
  <2>1. \A z \in Dir, y \in Hop : hop'[z][y].eof = hop[z][y].eof /\ hop'[z][y].gone = hop[z][y].gone
    BY <1>5, SetsKeepSignals
  <2>2. UNCHANGED <<service, sent>>
    BY <1>5 DEF Read, Write, nodeVars
  <2>. QED  BY <1>2, <2>1, <2>2
<1>6. ASSUME NEW x \in Dir, Send(x) \/ Receive(x)
      PROVE  Calm(d)
  <2>1. \A z \in Dir, y \in Hop : hop'[z][y].eof = hop[z][y].eof /\ hop'[z][y].gone = hop[z][y].gone
    BY <1>6, SendSets, ReceiveSets DEF SetsData
  <2>2. UNCHANGED service
    BY <1>6, EndsMove DEF nodeVars
  <2>3. sent'[e] = 0 => sent[e] = 0
    <3>1. UNCHANGED sent \/ sent' = [sent EXCEPT ![x] = sent[x] + 1]
      BY <1>6 DEF Send, Receive
    <3>2. sent[x] \in Nat /\ sent[e] \in Nat /\ sent \in [Dir -> Nat]
      BY <1>0 DEF TypeOK
    <3>. QED  BY <1>0, <3>1, <3>2
  <2>. QED  BY <1>2, <2>1, <2>2, <2>3
<1>7. ASSUME NEW x \in Dir, HalfClose(x) \/ Close(x)
      PROVE  Calm(d)
  <2>1. Shuts(hop, hop') /\ UNCHANGED <<service, sent>>
    BY <1>7, HalfCloseShuts, CloseShuts DEF HalfClose, Close, nodeVars
  <2>. QED  BY <1>2, <2>1 DEF Shuts
<1>8. CASE UNCHANGED vars
  BY <1>2, <1>8 DEF vars, nodeVars
<1>. QED
  BY <1>3, <1>4, <1>5, <1>6, <1>7, <1>8 DEF Next, Pump, StopReading, WriteFails

(* Then nothing goes the other way, and no session was told to end. *)
LEMMA Silence ==
    ASSUME TypeOK, SessionInv, IdleInv, SentInv, NEW d \in Dir, Calm(d)
    PROVE  /\ \A h \in Hop : hop[Opposite(d)][h].data = <<>>
           /\ \A n \in Node : pump[n][Opposite(d)] # "writing" /\ ~told[n] /\ ~Refused(n)
<1>. DEFINE e == Opposite(d)
<1>1. e \in Dir /\ sent[e] = 0 /\ \A n \in Node : ~told[n] /\ ~Refused(n)
  BY Opposites DEF Calm, Quiet, SessionInv, Node
<1>. HIDE DEF e
<1>2. 1..sent[e] = {}
  BY <1>1
<1>3. ASSUME NEW s \in Seq(1..sent[e])
      PROVE  s = <<>>
  <2>1. Len(s) \in Nat /\ DOMAIN s = 1..Len(s) /\ \A k \in 1..Len(s) : s[k] \in 1..sent[e]
    BY LenProperties
  <2>2. Len(s) = 0
    <3>1. ~(1 \in 1..Len(s))
      BY <1>2, <2>1
    <3>. QED  BY <2>1, <3>1
  <2>. QED  BY <2>2, EmptySeq
<1>4. \A h \in Hop : hop[e][h].data = <<>>
  BY <1>1, <1>3 DEF SentInv, Data
<1>5. \A n \in Node : buf[n][e] = <<>>
  BY <1>1, <1>3 DEF SentInv
<1>6. \A n \in Node : pump[n][e] # "writing"
  BY <1>1, <1>5 DEF IdleInv
<1>. QED  BY <1>1, <1>4, <1>6 DEF e

(* A socket that is closed then cuts nothing. *)
LEMMA ShutsKeepLine ==
    ASSUME TypeOK, SessionInv, IdleInv, SentInv, NEW d \in Dir, Calm(d), Shuts(hop, hop')
    PROVE  \A h \in Hop : hop'[d][h].data = hop[d][h].data /\ (hop[d][h].eof => hop'[d][h].eof)
  BY Silence DEF Shuts

(* A pump ends after what it reads has ended, and so in the line's order. *)
LEMMA EndsInOrder ==
    ASSUME SocketInv, NEW d \in Dir, Calm(d), Lossless(d)
    PROVE  pump[Second(d)][d] = "ended" => pump[First(d)][d] = "ended"
<1>1. ~Refused(First(d)) /\ In(Second(d), d) = 2
  BY Places DEF Calm, First
<1>. QED  BY <1>1 DEF Lossless, Drained, SocketInv

LEMMA LossKept ==
    ASSUME NEW d \in Dir, Lossless(d),
           UNCHANGED <<sent, received>>,
           \A h \in Hop : /\ hop'[d][h].data = hop[d][h].data
                          /\ hop[d][h].eof => hop'[d][h].eof,
           \A n \in Node :
              /\ buf'[n][d] = buf[n][d]
              /\ pump[n][d] = "ended" => pump'[n][d] = "ended"
              /\ pump'[n][d] = "ended" =>
                    \/ pump[n][d] = "ended"
                    \/ hop[d][In(n, d)].eof /\ hop[d][In(n, d)].data = <<>>
              /\ pump'[n][Opposite(d)] = "ended" =>
                    pump[n][Opposite(d)] = "ended" \/ pump'[n][d] = "ended"
              /\ session'[n] \in Stopping => session[n] \in Stopping \/ pump'[n][d] = "ended"
    PROVE  Lossless(d)'
<1>0. 1 \in Hop /\ 2 \in Hop /\ 3 \in Hop /\ First(d) \in Node /\ Second(d) \in Node
  BY Places DEF Hop
<1>1. LineKept(d)
  BY <1>0 DEF LineKept, Data, Buf1, Buf2
<1>2. Everything(d)' = Everything(d)
  BY <1>1, KeptLine
<1>3. ASSUME NEW n \in Node, Drained(d, n)
      PROVE  Drained(d, n)'
  <2>1. In(n, d) \in Hop
    BY Hops
  <2>. QED  BY <1>3, <2>1 DEF Drained, Data
<1>. QED  BY <1>0, <1>2, <1>3 DEF Lossless

LEMMA LossSession ==
    ASSUME TypeOK, SessionInv, NEW d \in Dir, Calm(d), Calm(d)', Lossless(d), NEW n \in Node,
           Accept(n) \/ AcceptAnother(n) \/ ServiceEnds(n) \/ Session(n)
    PROVE  Lossless(d)'
<1>0. Opposite(d) \in Dir /\ "up" \in Dir /\ \A m \in Node : m = First(d) \/ m = Second(d)
  BY Opposites, Places DEF Dir
<1>1. ~ServiceEnds(n)
  BY DEF ServiceEnds, Calm, Quiet, TypeOK
<1>2. ~NotConnected(n)
  <2>. SUFFICES ASSUME NotConnected(n) PROVE FALSE
    OBVIOUS
  <2>1. session'[n] = "ended" /\ pump'[n]["up"] = "none"
    BY DEF NotConnected, SessionInv, TypeOK
  <2>. QED  BY <2>1 DEF Calm, Refused, Node
<1>3. UNCHANGED <<hop, buf, sent, received>>
  BY <1>1, <1>2 DEF Accept, AcceptAnother, Session, Connected, StopFwd1, StopFwd2, SessionEnds
<1>4. \A m \in Node, x \in Dir : pump'[m][x] = "ended" <=> pump[m][x] = "ended"
  BY SessionMoves
<1>5. ~told[n] /\ Drained(d, n)
  BY <1>0 DEF Calm, Quiet, SessionInv, Lossless
<1>6. ASSUME NEW m \in Node, session'[m] \in Stopping
      PROVE  session[m] \in Stopping \/ pump[m][d] = "ended"
  <2>1. CASE Accept(n) \/ AcceptAnother(n) \/ Connected(n)
    BY <1>6, <2>1 DEF Accept, AcceptAnother, Connected, Stopping, TypeOK
  <2>2. CASE StopFwd1(n)
    <3>1. PICK x \in Dir : pump[n][x] = "ended"
      BY <1>5, <2>2 DEF StopFwd1
    <3>2. pump[n][d] = "ended"
      BY <1>5, <3>1, Opposites DEF Drained
    <3>. QED  BY <1>6, <2>2, <3>2 DEF StopFwd1, TypeOK
  <2>3. CASE StopFwd2(n) \/ SessionEnds(n)
    BY <1>6, <2>3 DEF StopFwd2, SessionEnds, Stopping, TypeOK
  <2>. QED  BY <1>1, <1>2, <2>1, <2>2, <2>3 DEF Session
<1>. QED  BY <1>0, <1>3, <1>4, <1>6, LossKept

LEMMA LossEnds ==
    ASSUME TypeOK, SessionInv, IdleInv, SentInv, NEW d \in Dir, Calm(d), Lossless(d),
           NEW n \in Node, NEW x \in Dir, PumpEnds(n, x), UNCHANGED <<nodeVars, sent, received>>,
           buf[n][x] = <<>>,
           \/ x = d /\ hop[d][In(n, d)].eof /\ hop[d][In(n, d)].data = <<>>
           \/ pump[n][d] = "ended"
    PROVE  Lossless(d)'
<1>0. Opposite(d) \in Dir
  BY Opposites
<1>1. Shuts(hop, hop')
  BY PumpEndsShuts
<1>2. \A h \in Hop : hop'[d][h].data = hop[d][h].data /\ (hop[d][h].eof => hop'[d][h].eof)
  BY <1>1, ShutsKeepLine
<1>3. \A m \in Node, y \in Dir :
         /\ m = n /\ y = x => pump'[m][y] = "ended" /\ buf'[m][y] = <<>>
         /\ m # n \/ y # x => pump'[m][y] = pump[m][y] /\ buf'[m][y] = buf[m][y]
  BY DEF PumpEnds, TypeOK
<1>4. ASSUME NEW m \in Node
      PROVE  /\ buf'[m][d] = buf[m][d]
             /\ pump[m][d] = "ended" => pump'[m][d] = "ended"
             /\ pump'[m][d] = "ended" =>
                   \/ pump[m][d] = "ended"
                   \/ hop[d][In(m, d)].eof /\ hop[d][In(m, d)].data = <<>>
             /\ pump'[m][Opposite(d)] = "ended" =>
                   pump[m][Opposite(d)] = "ended" \/ pump'[m][d] = "ended"
  <2>1. CASE m = n
    BY <1>0, <1>3, <2>1
  <2>2. CASE m # n
    BY <1>0, <1>3, <2>2
  <2>. QED  BY <2>1, <2>2
<1>5. UNCHANGED session
  BY DEF nodeVars
<1>. QED  BY <1>2, <1>4, <1>5, LossKept

LEMMA LossRead ==
    ASSUME TypeOK, NEW d \in Dir, InOrderFor(d), Lossless(d), NEW n \in Node, Read(n, d)
    PROVE  Lossless(d)'
<1>0. /\ Opposite(d) \in Dir /\ Opposite(d) # d
      /\ First(d) \in Node /\ Second(d) \in Node
      /\ \A m \in Node : m = First(d) \/ m = Second(d)
      /\ \A m \in Node : In(m, d) \in Hop /\ (m # n => In(m, d) # In(n, d))
  BY Opposites, Hops, Places
<1>1. Everything(d)' = Everything(d) /\ sent'[d] = sent[d]
  BY ReadMoves DEF Read
<1>2. SetsData(hop, hop', d, In(n, d), <<>>)
  BY ReadSets
<1>3. UNCHANGED session /\ pump[n][d] = "reading" /\ pump' = [pump EXCEPT ![n][d] = "writing"]
  BY DEF Read, nodeVars
<1>4. /\ pump'[n][d] = "writing" /\ pump'[n][Opposite(d)] = pump[n][Opposite(d)]
      /\ \A m \in Node, x \in Dir : m # n => pump'[m][x] = pump[m][x]
  BY <1>0, <1>3 DEF TypeOK
<1>5. ASSUME NEW m \in Node
      PROVE  Drained(d, m)'
  <2>1. Drained(d, m)
    BY <1>0 DEF Lossless
  <2>2. CASE m = n
    BY <1>3, <1>4, <2>1, <2>2 DEF Drained
  <2>3. CASE m # n
    <3>1. /\ hop'[d][In(m, d)].data = hop[d][In(m, d)].data
          /\ hop'[d][In(m, d)].eof = hop[d][In(m, d)].eof
      BY <1>0, <1>2, <2>3 DEF SetsData
    <3>. QED  BY <1>0, <1>3, <1>4, <2>1, <2>3, <3>1 DEF Drained, Data
  <2>. QED  BY <2>2, <2>3
<1>. QED  BY <1>0, <1>1, <1>5 DEF Lossless

LEMMA LossWrite ==
    ASSUME TypeOK, SocketInv, IdleInv, NEW d \in Dir, InOrderFor(d), Calm(d), Lossless(d),
           NEW n \in Node, Write(n, d)
    PROVE  Lossless(d)'
<1>0. /\ Opposite(d) \in Dir /\ Opposite(d) # d
      /\ First(d) \in Node /\ Second(d) \in Node /\ First(d) # Second(d)
      /\ \A m \in Node : m = First(d) \/ m = Second(d)
      /\ \A m \in Node : In(m, d) \in Hop /\ Out(m, d) \in Hop
      /\ In(First(d), d) = 1 /\ In(Second(d), d) = 2
      /\ Out(First(d), d) = 2 /\ Out(Second(d), d) = 3
  BY Opposites, Hops, Places
<1>1. Everything(d)' = Everything(d) /\ sent'[d] = sent[d]
  BY WriteMoves DEF Write, Calm, Quiet
<1>2. /\ UNCHANGED session /\ pump[n][d] = "writing" /\ buf[n][d] # <<>>
      /\ \E v \in {"reading", "writing"} : pump' = [pump EXCEPT ![n][d] = v]
  BY DEF Write, nodeVars, IdleInv, TypeOK
<1>3. \/ UNCHANGED hop
      \/ SetsData(hop, hop', d, Out(n, d), Append(hop[d][Out(n, d)].data, Head(buf[n][d])))
  BY <1>2, WriteSets
<1>4. /\ pump'[n][d] # "ended" /\ pump'[n][Opposite(d)] = pump[n][Opposite(d)]
      /\ \A m \in Node, x \in Dir : m # n => pump'[m][x] = pump[m][x]
  BY <1>0, <1>2 DEF TypeOK
<1>5. ASSUME NEW m \in Node
      PROVE  Drained(d, m)'
  <2>1. Drained(d, m)
    BY <1>0 DEF Lossless
  <2>2. CASE m = n
    BY <1>2, <1>4, <2>1, <2>2 DEF Drained
  <2>3. CASE m # n
    <3>1. hop'[d][In(m, d)].eof = hop[d][In(m, d)].eof
      BY <1>0, <1>3 DEF SetsData
    <3>2. pump[m][d] = "ended" => hop'[d][In(m, d)].data = hop[d][In(m, d)].data
      <4>1. CASE n = First(d)
        BY <1>0, <1>2, <2>3, <4>1, EndsInOrder
      <4>2. CASE n = Second(d)
        <5>1. In(m, d) # Out(n, d)
          BY <1>0, <2>3, <4>2
        <5>. QED  BY <1>0, <1>3, <5>1 DEF SetsData
      <4>. QED  BY <1>0, <4>1, <4>2
    <3>. QED  BY <1>0, <1>2, <1>4, <2>1, <2>3, <3>1, <3>2 DEF Drained, Data
  <2>. QED  BY <2>2, <2>3
<1>. QED  BY <1>0, <1>1, <1>5 DEF Lossless

LEMMA LossPump ==
    ASSUME TypeOK, SessionInv, SocketInv, IdleInv, SentInv, NEW d \in Dir, InOrderFor(d),
           Calm(d), Lossless(d), NEW n \in Node, NEW x \in Dir, Pump(n, x)
    PROVE  Lossless(d)'
<1>. DEFINE e == Opposite(d)
<1>0. /\ e \in Dir /\ (x = d \/ x = e)
      /\ First(d) \in Node /\ Second(d) \in Node /\ (n = First(d) \/ n = Second(d))
      /\ In(n, e) \in Hop /\ Drained(d, n) /\ Drained(d, Second(d))
  BY Opposites, Places, Hops DEF Lossless
<1>1. /\ \A h \in Hop : hop[e][h].data = <<>>
      /\ \A m \in Node : pump[m][e] # "writing" /\ ~told[m] /\ ~Refused(m)
  BY Silence
<1>2. CASE Read(n, x)
  <2>1. x # e
    BY <1>0, <1>1, <1>2 DEF Read
  <2>. QED  BY <1>0, <1>2, <2>1, LossRead
<1>3. CASE Write(n, x)
  <2>1. x # e
    BY <1>1, <1>3 DEF Write
  <2>. QED  BY <1>0, <1>3, <2>1, LossWrite
<1>4. CASE WriteFails(n, x)
  <2>1. x = d /\ pump[n][d] = "writing" /\ hop[d][Out(n, d)].gone
    BY <1>0, <1>1, <1>4 DEF WriteFails
  <2>2. n = First(d) /\ hop[d][2].gone
    BY <1>0, <2>1, Places DEF Calm, Quiet
  <2>3. pump[Second(d)][d] = "ended"
    BY <1>0, <1>1, <2>2 DEF SocketInv
  <2>4. pump[First(d)][d] = "ended"
    BY <2>3, EndsInOrder
  <2>. QED  BY <2>1, <2>2, <2>4
<1>5. CASE StopReading(n, x)
  <2>1. /\ pump[n][x] = "reading" /\ buf[n][x] = <<>>
        /\ PumpEnds(n, x) /\ UNCHANGED <<nodeVars, sent, received>>
        /\ \/ hop[x][In(n, x)].eof /\ hop[x][In(n, x)].data = <<>>
           \/ session[n] \in Stopping
    BY <1>5 DEF StopReading, TypeOK, Stopping
  <2>2. CASE x = d
    <3>1. hop[d][In(n, d)].eof /\ hop[d][In(n, d)].data = <<>>
      BY <1>0, <2>1, <2>2 DEF Drained
    <3>. QED  BY <2>1, <2>2, <3>1, LossEnds
  <2>3. CASE x = e
    <3>1. pump[n][d] = "ended"
      <4>1. CASE session[n] \in Stopping
        BY <1>0, <4>1 DEF Drained
      <4>2. CASE hop[e][In(n, e)].eof
        <5>1. n = First(d) /\ hop[e][2].eof
          <6>1. In(Second(d), e) = 1 /\ In(First(d), e) = 2
            BY Places, Opposites
          <6>2. ~hop[e][1].eof
            BY DEF Calm, Quiet
          <6>. QED  BY <1>0, <4>2, <6>1, <6>2
        <5>2. pump[Second(d)][e] = "ended"
          <6>1. First(e) = Second(d)
            BY Opposites
          <6>. QED  BY <1>0, <1>1, <5>1, <6>1 DEF SocketInv
        <5>3. pump[Second(d)][d] = "ended"
          BY <1>0, <5>2 DEF Drained
        <5>. QED  BY <5>1, <5>3, EndsInOrder
      <4>. QED  BY <2>1, <2>3, <4>1, <4>2
    <3>. QED  BY <2>1, <3>1, LossEnds
  <2>. QED  BY <1>0, <2>2, <2>3
<1>. QED  BY <1>2, <1>3, <1>4, <1>5 DEF Pump

LEMMA LossSend ==
    ASSUME TypeOK, NEW d \in Dir, InOrderFor(d), Lossless(d), Send(d)
    PROVE  Lossless(d)'
<1>0. /\ First(d) \in Node /\ Second(d) \in Node /\ 1 \in Hop /\ 2 \in Hop
      /\ In(First(d), d) = 1 /\ In(Second(d), d) = 2
  BY Places DEF Hop
<1>1. Everything(d)' = sent'[d]
  BY SendMoves DEF Lossless
<1>2. SetsData(hop, hop', d, 1, Append(hop[d][1].data, sent[d] + 1))
  BY SendSets
<1>3. UNCHANGED <<session, pump>> /\ ~hop[d][1].eof
  BY DEF Send, nodeVars
<1>4. Drained(d, First(d))'
  <2>1. pump[First(d)][d] # "ended"
    BY <1>0, <1>3 DEF Lossless, Drained
  <2>. QED  BY <1>3, <2>1 DEF Lossless, Drained
<1>5. Drained(d, Second(d))'
  <2>1. hop'[d][2].data = hop[d][2].data /\ hop'[d][2].eof = hop[d][2].eof
    BY <1>0, <1>2 DEF SetsData
  <2>. QED  BY <1>0, <1>3, <2>1 DEF Lossless, Drained, Data
<1>. QED  BY <1>1, <1>4, <1>5 DEF Lossless

LEMMA LossReceive ==
    ASSUME TypeOK, NEW d \in Dir, InOrderFor(d), Lossless(d), Receive(d)
    PROVE  Lossless(d)'
<1>1. Everything(d)' = Everything(d)
  BY ReceiveMoves
<1>2. SetsData(hop, hop', d, 3, Tail(hop[d][3].data)) /\ UNCHANGED <<session, pump, sent>>
  BY ReceiveSets DEF Receive, nodeVars
<1>3. ASSUME NEW n \in Node, Drained(d, n)
      PROVE  Drained(d, n)'
  <2>1. In(n, d) \in Hop /\ In(n, d) # 3
    BY Hops
  <2>2. /\ hop'[d][In(n, d)].data = hop[d][In(n, d)].data
        /\ hop'[d][In(n, d)].eof = hop[d][In(n, d)].eof
    BY <1>2, <2>1 DEF SetsData
  <2>. QED  BY <1>2, <1>3, <2>2 DEF Drained, Data
<1>. QED  BY <1>1, <1>2, <1>3, Places DEF Lossless

LEMMA LossStep ==
    ASSUME TypeOK, SessionInv, SocketInv, IdleInv, SentInv, OrderInv, LossInv, [Next]_vars
    PROVE  LossInv'
<1>. SUFFICES ASSUME NEW d \in Dir, Calm(d)'
              PROVE  Lossless(d)'
  BY DEF LossInv
<1>0. /\ Calm(d) /\ Lossless(d) /\ InOrderFor(d)
      /\ Opposite(d) \in Dir /\ \A x \in Dir : x = d \/ x = Opposite(d)
  BY CalmBefore, Opposites DEF LossInv, OrderInv
<1>1. ASSUME NEW n \in Node,
             Accept(n) \/ AcceptAnother(n) \/ ServiceEnds(n) \/ Session(n)
      PROVE  Lossless(d)'
  BY <1>0, <1>1, LossSession
<1>2. ASSUME NEW n \in Node, NEW x \in Dir, Pump(n, x)
      PROVE  Lossless(d)'
  BY <1>0, <1>2, LossPump
<1>3. CASE Send(d) \/ Receive(d)
  BY <1>0, <1>3, LossSend, LossReceive
<1>4. CASE Send(Opposite(d))
  <2>1. sent'[Opposite(d)] = sent[Opposite(d)] + 1 /\ sent[Opposite(d)] \in Nat
    BY <1>0, <1>4 DEF Send, TypeOK
  <2>2. sent'[Opposite(d)] = 0
    BY DEF Calm, Quiet
  <2>. QED  BY <2>1, <2>2
<1>5. CASE Receive(Opposite(d))
  <2>1. \A h \in Hop : hop[Opposite(d)][h].data = <<>>
    BY <1>0, Silence
  <2>. QED  BY <1>5, <2>1 DEF Receive, Hop
<1>6. CASE HalfClose(d) \/ Close(d)
  <2>1. Shuts(hop, hop') /\ UNCHANGED <<nodeVars, pump, buf, sent, received>>
    BY <1>6, HalfCloseShuts, CloseShuts DEF HalfClose, Close
  <2>2. \A h \in Hop : hop'[d][h].data = hop[d][h].data /\ (hop[d][h].eof => hop'[d][h].eof)
    BY <1>0, <2>1, ShutsKeepLine
  <2>. QED  BY <1>0, <2>1, <2>2, LossKept DEF nodeVars
<1>7. CASE HalfClose(Opposite(d)) \/ Close(Opposite(d))
  <2>1. hop'[Opposite(d)][1].eof
    BY <1>0, <1>7, HalfCloseShuts, CloseShuts
  <2>. QED  BY <2>1 DEF Calm, Quiet
<1>8. CASE UNCHANGED vars
  BY <1>0, <1>8, LossKept DEF vars, nodeVars
<1>9. ASSUME NEW x \in Dir, Send(x) \/ Receive(x) \/ HalfClose(x) \/ Close(x)
      PROVE  Lossless(d)'
  BY <1>0, <1>3, <1>4, <1>5, <1>6, <1>7, <1>9
<1>. QED  BY <1>1, <1>2, <1>8, <1>9 DEF Next

-----------------------------------------------------------------------------
(* The invariant.                                                          *)

LEMMA InvInit == Init => IInv
<1>. SUFFICES ASSUME Init PROVE IInv
  OBVIOUS
<1>. DEFINE none == NewPipe
<1>0. /\ none \in Pipe /\ none.data = <<>> /\ ~none.eof /\ ~none.gone
      /\ \A d \in Dir, h \in Hop : hop[d][h] = none
      /\ \A n \in Node, d \in Dir : pump[n][d] = "none" /\ buf[n][d] = <<>>
      /\ \A d \in Dir : sent[d] = 0 /\ received[d] = <<>>
      /\ \A n \in Node : /\ service[n] = "accepting" /\ ~told[n]
                         /\ session[n] \in {"none", "queued"}
                         /\ n = "agent" => session[n] = "none"
  BY EmptySeq DEF Init, NewPipe, Pipe
<1>. HIDE DEF none
<1>00. /\ "up" \in Dir /\ "down" \in Dir /\ "sidecar" \in Node /\ "agent" \in Node
       /\ 1 \in Hop /\ 2 \in Hop /\ 3 \in Hop
       /\ \A n \in Node, d \in Dir : In(n, d) \in Hop /\ Out(n, d) \in Hop
       /\ \A d \in Dir : First(d) \in Node /\ Second(d) \in Node /\ Opposite(d) \in Dir
  BY Hops, Places, Opposites DEF Dir, Node, Hop
<1>1. TypeOK
  <2>1. /\ service \in [Node -> {"accepting", "ended"}]
        /\ session \in [Node -> {"none", "queued", "connecting", "forwarding",
                                 "stopping1", "stopping2", "ended"}]
        /\ held \in [Node -> BOOLEAN] /\ told \in [Node -> BOOLEAN]
        /\ \A n \in Node : held[n] => session[n] \notin {"none", "queued"}
        /\ pump \in [Node -> [Dir -> {"none", "reading", "writing", "ended"}]]
        /\ sent \in [Dir -> Nat]
    BY DEF Init
  <2>2. buf \in [Node -> [Dir -> Seq(Nat)]] /\ received \in [Dir -> Seq(Nat)]
    BY EmptySeq DEF Init
  <2>3. hop \in [Dir -> [Hop -> Pipe]]
    BY <1>0 DEF Init, none
  <2>4. \A d \in Dir, h \in Hop : Len(hop[d][h].data) <= Capacity[h]
    <3>1. Len(<<>>) = 0 /\ \A h \in Hop : Capacity[h] \in Nat
      BY EmptySeq, CapacityAssumption
    <3>2. \A h \in Hop : Len(<<>>) <= Capacity[h]
      BY <3>1
    <3>. QED  BY <1>0, <3>2
  <2>. QED  BY <1>0, <2>1, <2>2, <2>3, <2>4 DEF TypeOK
<1>2. SessionInv
  BY <1>0, <1>00 DEF SessionInv
<1>3. SocketInv
  BY <1>0, <1>00 DEF SocketInv
<1>4. IdleInv
  BY <1>0, <1>00 DEF IdleInv, Data
<1>5. SentInv
  BY <1>0, EmptySeq DEF SentInv, Data
<1>6. ASSUME NEW d \in Dir
      PROVE  /\ received[d] = <<>> /\ Data(d, 1) = <<>> /\ Data(d, 2) = <<>> /\ Data(d, 3) = <<>>
             /\ Buf1(d) = <<>> /\ Buf2(d) = <<>> /\ Everything(d) = sent[d]
  <2>1. /\ received[d] = <<>> /\ Data(d, 1) = <<>> /\ Data(d, 2) = <<>> /\ Data(d, 3) = <<>>
        /\ Buf1(d) = <<>> /\ Buf2(d) = <<>> /\ sent[d] = 0
    BY <1>0, <1>00 DEF Data, Buf1, Buf2
  <2>2. Len(<<>>) = 0
    BY EmptySeq
  <2>. QED  BY <2>1, <2>2 DEF Everything, Total
<1>7. OrderInv
  BY <1>6, NoneFollow DEF OrderInv, InOrderFor, InLine1, InLine2, InLine3
<1>8. LossInv
  BY <1>0, <1>00, <1>6 DEF LossInv, Lossless, Drained, Stopping
<1>. QED  BY <1>1, <1>2, <1>3, <1>4, <1>5, <1>7, <1>8 DEF IInv

LEMMA Invariance == Spec => []IInv
<1>1. IInv /\ [Next]_vars => IInv'
  BY TypeStep, SessionStep, SocketStep, IdleStep, SentStep, OrderStep, LossStep DEF IInv
<1>. QED  BY InvInit, <1>1, PTL DEF Spec

(* The sockets hold what they have room for, a session the loop holds was    *)
(* accepted, and a pump keeps bytes only while it writes.                     *)
THEOREM TypeCorrect == Spec => []TypeOK
<1>1. IInv => TypeOK
  BY DEF IInv
<1>. QED  BY <1>1, Invariance, PTL

(* A source that sent its last byte and closed, with nothing else ending the *)
(* tunnel: when its stream has ended at the other end, all of it was read.   *)
LEMMA AllArrived ==
    ASSUME IInv, NEW d \in Dir, AtEof(d), Quiet(d)
    PROVE  Len(received[d]) = sent[d]
<1>0. /\ First(d) \in Node /\ Second(d) \in Node /\ 3 \in Hop
      /\ In(First(d), d) = 1 /\ In(Second(d), d) = 2 /\ Opposite(d) \in Dir
      /\ "sidecar" \in Node /\ "agent" \in Node /\ "up" \in Dir /\ "down" \in Dir
  BY Places, Opposites DEF Hop, Node, Dir
<1>1. TypeOK /\ SessionInv /\ SocketInv /\ SentInv /\ LossInv
  BY DEF IInv
<1>2. CASE Refused("sidecar") \/ Refused("agent")
  <2>1. pump["agent"]["up"] = "none"
    <3>1. CASE Refused("agent")
      BY <3>1 DEF Refused
    <3>2. CASE Refused("sidecar")
      <4>1. pump["sidecar"]["up"] = "none"
        BY <3>2 DEF Refused
      <4>2. session["agent"] = "none"
        BY <1>1, <4>1 DEF SessionInv
      <4>. QED  BY <1>0, <1>1, <4>2 DEF SessionInv
    <3>. QED  BY <1>2, <3>1, <3>2
  <2>2. d = "down"
    <3>. SUFFICES ASSUME d = "up" PROVE FALSE
      BY DEF Dir
    <3>1. pump["agent"]["up"] = "ended"
      BY <1>1 DEF SocketInv, Second, AtEof
    <3>. QED  BY <2>1, <3>1
  <2>3. sent[d] = 0
    BY <1>0, <1>1, <2>1, <2>2 DEF SessionInv, TypeOK
  <2>4. received[d] \in Seq(1..0) /\ 1..0 = {}
    BY <1>1, <2>3 DEF SentInv
  <2>5. Len(received[d]) = 0
    <3>. DEFINE r == received[d]
    <3>1. r \in Seq(1..0)
      BY <2>4
    <3>. HIDE DEF r
    <3>2. Len(r) \in Nat /\ DOMAIN r = 1..Len(r) /\ \A k \in 1..Len(r) : r[k] \in 1..0
      BY <3>1, LenProperties
    <3>3. ~(1 \in 1..Len(r))
      BY <3>2
    <3>4. Len(r) = 0
      BY <3>2, <3>3
    <3>. QED  BY <3>4 DEF r
  <2>. QED  BY <2>3, <2>5
<1>3. CASE ~Refused("sidecar") /\ ~Refused("agent")
  <2>1. Lossless(d) /\ Calm(d)
    BY <1>1, <1>3 DEF LossInv, Calm
  <2>2. pump[Second(d)][d] = "ended"
    BY <1>1, <1>3 DEF SocketInv, AtEof
  <2>3. pump[First(d)][d] = "ended"
    BY <1>1, <2>1, <2>2, EndsInOrder
  <2>4. Data(d, 1) = <<>> /\ Data(d, 2) = <<>> /\ Data(d, 3) = <<>>
    BY <1>0, <2>1, <2>2, <2>3 DEF Lossless, Drained, AtEof, Data
  <2>5. Buf1(d) = <<>> /\ Buf2(d) = <<>>
    BY <1>0, <1>1, <2>2, <2>3 DEF TypeOK, Buf1, Buf2
  <2>6. Total(received[d], <<>>, <<>>, <<>>, <<>>, <<>>) = sent[d]
    BY <2>1, <2>4, <2>5 DEF Lossless, Everything
  <2>7. Len(received[d]) \in Nat /\ Len(<<>>) = 0
    BY <1>1, LineType, EmptySeq
  <2>. QED  BY <2>6, <2>7 DEF Total
<1>. QED  BY <1>2, <1>3

(* What an end receives is what the other end sent, in order: nothing is     *)
(* doubled or skipped, whichever ends, sessions and services end meanwhile;  *)
(* and an end that did nothing itself has everything when it sees the end of *)
(* the stream, although each pump that ends takes its session with it.       *)
THEOREM BytesIntactHolds == Spec => []BytesIntact
<1>1. ASSUME IInv, NEW d \in Dir
      PROVE  InOrder(d)
  <2>1. /\ received[d] \in Seq(1..sent[d]) /\ Follows(received[d], 0)
        /\ received[d] \in Seq(Nat) /\ sent[d] \in Nat
    BY <1>1, LineType DEF IInv, SentInv, OrderInv, InOrderFor
  <2>. DEFINE r == received[d]
              s == sent[d]
  <2>2. r \in Seq(1..s) /\ Follows(r, 0) /\ r \in Seq(Nat) /\ s \in Nat
    BY <2>1
  <2>. HIDE DEF r, s
  <2>3. Len(r) \in Nat /\ DOMAIN r = 1..Len(r) /\ \A k \in 1..Len(r) : r[k] \in 1..s
    BY <2>2, LenProperties
  <2>4. \A k \in DOMAIN r : r[k] = k
    BY <2>2, <2>3 DEF Follows
  <2>5. Len(r) <= s
    <3>1. CASE Len(r) = 0
      BY <2>2, <3>1
    <3>2. CASE Len(r) # 0
      <4>1. Len(r) \in 1..Len(r)
        BY <2>3, <3>2
      <4>2. r[Len(r)] = Len(r) /\ r[Len(r)] \in 1..s
        BY <2>3, <2>4, <4>1
      <4>. QED  BY <2>2, <2>3, <4>2
    <3>. QED  BY <3>1, <3>2
  <2>6. Len(r) <= s /\ \A k \in DOMAIN r : r[k] = k
    BY <2>4, <2>5
  <2>. QED  BY <2>6 DEF InOrder, r, s
<1>2. IInv => BytesIntact
  BY <1>1, AllArrived DEF BytesIntact
<1>. QED  BY <1>2, Invariance, PTL
=============================================================================
