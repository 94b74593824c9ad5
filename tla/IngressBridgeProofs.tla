------------------------ MODULE IngressBridgeProofs ------------------------
(***************************************************************************)
(* Theorems about IngressBridge for every number of addresses, datagrams   *)
(* and ids, and every timeout.  The argument is that of EgressBridgeProofs *)
(* with datagrams in the place of the sessions' queue; the lemmas on       *)
(* tables and queues that it starts from are the same.                     *)
(***************************************************************************)
EXTENDS IngressBridge, SequenceTheorems, TLAPS

-----------------------------------------------------------------------------
(* The request table.                                                      *)

(* Every entry of table u is the entry t has under the same id. *)
Shrinks(t, u) == \A i \in MsgId : u[i] # NoEntry => u[i] = t[i]

(* Expire drops entries, and what it keeps is younger than the timeout. *)
LEMMA ExpireShrinks ==
    ASSUME NEW t \in Table
    PROVE  /\ Expire(t) \in Table
           /\ Shrinks(t, Expire(t))
           /\ \A i \in MsgId : Expire(t)[i] # NoEntry => t[i].age < Timeout
<1>1. Expire(t) \in Table
  BY DEF Table, Expire
<1>2. Shrinks(t, Expire(t))
  BY DEF Expire, Shrinks
<1>3. ASSUME NEW i \in MsgId, Expire(t)[i] # NoEntry
      PROVE  t[i].age < Timeout
  <2>1. t[i] # NoEntry /\ ~Expired(t[i])
    BY <1>3 DEF Expire
  <2>2. t[i] \in Entry
    BY <2>1 DEF Table
  <2>. QED  BY <2>1, <2>2, TimeoutAssumption DEF Expired, Entry
<1>. QED  BY <1>1, <1>2, <1>3

(* Register adds at most the new entry, under the id it is given. *)
LEMMA RegisterAdds ==
    ASSUME NEW t \in Table, NEW i \in MsgId, NEW c \in Client, NEW q \in Query
    PROVE  /\ Register(t, i, c, q) \in Table
           /\ \A j \in MsgId :
                 \/ Register(t, i, c, q)[j] = t[j]
                 \/ j = i /\ t[j] = NoEntry /\ Register(t, i, c, q)[j] = NewEntry(c, q)
<1>1. NewEntry(c, q) \in Entry
  BY DEF NewEntry, Entry
<1>. QED  BY <1>1 DEF Register, Table

(* Remove empties one id and leaves the others. *)
LEMMA RemoveShrinks ==
    ASSUME NEW t \in Table, NEW i \in MsgId
    PROVE  /\ Remove(t, i) \in Table
           /\ Remove(t, i)[i] = NoEntry
           /\ Shrinks(t, Remove(t, i))
  BY DEF Remove, Table, Shrinks

(* Elapse makes every entry one tick older. *)
LEMMA ElapseAges ==
    ASSUME NEW t \in Table
    PROVE  /\ Elapse(t) \in Table
           /\ \A i \in MsgId : t[i] = NoEntry => Elapse(t)[i] = NoEntry
           /\ \A i \in MsgId : t[i] # NoEntry =>
                 /\ Elapse(t)[i] # NoEntry
                 /\ Elapse(t)[i].q = t[i].q
                 /\ Elapse(t)[i].client = t[i].client
                 /\ Elapse(t)[i].age = t[i].age + 1
<1>1. ASSUME NEW i \in MsgId, t[i] # NoEntry
      PROVE  /\ Elapse(t)[i] \in Entry
             /\ Elapse(t)[i].q = t[i].q
             /\ Elapse(t)[i].client = t[i].client
             /\ Elapse(t)[i].age = t[i].age + 1
  <2>1. t[i] \in Entry
    BY <1>1 DEF Table
  <2>2. Elapse(t)[i] = [t[i] EXCEPT !.age = @ + 1]
    BY <1>1 DEF Elapse
  <2>. QED  BY <2>1, <2>2 DEF Entry
<1>2. \A i \in MsgId : t[i] = NoEntry => Elapse(t)[i] = NoEntry
  BY DEF Elapse
<1>3. Elapse(t) \in Table
  BY <1>1, <1>2 DEF Elapse, Table
<1>. QED  BY <1>1, <1>2, <1>3, NoEntryAssumption

(* What is registered after entries went is what was registered before. *)
LEMMA ShrinkingRegistered ==
    ASSUME NEW t, NEW u, Shrinks(t, u)
    PROVE  Registered(u) \subseteq Registered(t)
  BY DEF Shrinks, Registered

LEMMA ElapseRegistered ==
    ASSUME NEW t \in Table
    PROVE  Registered(Elapse(t)) = Registered(t)
  BY ElapseAges DEF Registered

-----------------------------------------------------------------------------
(* Queues: taking the head shifts positions by one, appending keeps them.  *)

LEMMA TakeHead ==
    ASSUME NEW S, NEW s \in Seq(S), s # <<>>
    PROVE  /\ Tail(s) \in Seq(S)
           /\ 1 \in DOMAIN s /\ Head(s) = s[1] /\ Head(s) \in S
           /\ \A k \in DOMAIN Tail(s) :
                 /\ k \in Nat /\ k + 1 \in DOMAIN s
                 /\ Tail(s)[k] = s[k + 1]
           /\ \A k \in DOMAIN s : k # 1 =>
                 k \in Nat /\ k - 1 \in DOMAIN Tail(s) /\ Tail(s)[k - 1] = s[k]
  BY HeadTailProperties, LenProperties

LEMMA AppendLast ==
    ASSUME NEW S, NEW s \in Seq(S), NEW x \in S
    PROVE  /\ Append(s, x) \in Seq(S)
           /\ Append(s, x)[Len(s) + 1] = x
           /\ Len(s) + 1 \in DOMAIN Append(s, x)
           /\ \A k \in DOMAIN s : k \in Nat /\ k <= Len(s)
                 /\ k \in DOMAIN Append(s, x) /\ Append(s, x)[k] = s[k]
           /\ \A k \in DOMAIN Append(s, x) :
                 k = Len(s) + 1 \/ k \in DOMAIN s
  BY AppendProperties, LenProperties

-----------------------------------------------------------------------------
(* The inductive invariant, in named parts.                                *)

Answered == {q \in Query : \E c \in Client : \E k \in DOMAIN got[c] : got[c][k].for = q}

(* Only datagrams that were sent are anywhere in the system. *)
MadeInv ==
    /\ \A q \in net \cup forwarded \cup Answered : req[q] # NoRequest
    /\ \A k \in DOMAIN dnsRx : dnsRx[k] \in forwarded

(* A datagram in flight was not answered yet. *)
NetInv == net \cap Answered = {}

(* An entry is that of a received, unanswered datagram, under its own id. *)
TableInv ==
    \A i \in MsgId : mtxState[i] # NoEntry =>
        /\ req[mtxState[i].q] = [from |-> mtxState[i].client, id |-> i]
        /\ mtxState[i].q \notin net
        /\ mtxState[i].q \notin Answered

(* An entry is as old as the timeout allows plus the current sleep. *)
AgeInv == \A i \in MsgId : mtxState[i] # NoEntry => mtxState[i].age < Timeout + idle

IInv ==
    /\ TypeOK /\ MadeInv /\ NetInv /\ TableInv
    /\ MixUpNeedsSharedId /\ AnsweredOnce /\ AgeInv

-----------------------------------------------------------------------------
(* What the handlers do to the table and to the deliveries.                *)

(* The cleanup that closes an iteration only drops entries. *)
LEMMA EndIterationEffect ==
    ASSUME NEW t \in Table, EndIteration(t)
    PROVE  /\ mtxState' \in Table
           /\ idle' = 0 /\ idle' \in 0..Sweep
           /\ Shrinks(t, mtxState')
           /\ \A i \in MsgId : mtxState'[i] # NoEntry => mtxState'[i].age < Timeout
<1>1. mtxState' = Expire(t) /\ idle' = 0
  BY DEF EndIteration
<1>2. \A i \in MsgId : mtxState'[i] # NoEntry => mtxState'[i].age < Timeout
  BY <1>1, ExpireShrinks DEF Shrinks
<1>3. 0 \in 0..Sweep
  BY SweepAssumption
<1>. QED  BY <1>1, <1>2, <1>3, ExpireShrinks

(* A datagram adds at most its own entry. *)
LEMMA ReceiveEffect ==
    ASSUME TypeOK, MadeInv, NEW q \in Query, DNSFromNet(q)
    PROVE  /\ req[q] \in Request
           /\ \E t \in Table :
                 /\ EndIteration(t)
                 /\ \A i \in MsgId :
                       \/ t[i] = mtxState[i]
                       \/ /\ i = req[q].id /\ mtxState[i] = NoEntry
                          /\ t[i] = NewEntry(req[q].from, q)
<1>1. req[q] \in Request
  BY DEF TypeOK, MadeInv, DNSFromNet
<1>2. Id(q) \in MsgId /\ req[q].from \in Client /\ Id(q) = req[q].id
  BY <1>1 DEF Request, Id
<1>3. EndIteration(Register(mtxState, Id(q), req[q].from, q))
  BY DEF DNSFromNet
<1>4. mtxState \in Table
  BY DEF TypeOK
<1>5. /\ Register(mtxState, Id(q), req[q].from, q) \in Table
      /\ \A i \in MsgId :
            \/ Register(mtxState, Id(q), req[q].from, q)[i] = mtxState[i]
            \/ /\ i = Id(q) /\ mtxState[i] = NoEntry
               /\ Register(mtxState, Id(q), req[q].from, q)[i] = NewEntry(req[q].from, q)
  BY ONLY <1>2, <1>4, RegisterAdds
<1>. QED  BY <1>1, <1>2, <1>3, <1>5

(* A reply empties its id and makes at most one delivery, to the address in *)
(* the entry it takes.                                                      *)
LEMMA ReplyEffect ==
    ASSUME TypeOK, MadeInv, DNSFromBridge, NEW a, a = Head(dnsRx)
    PROVE  /\ a \in forwarded /\ a \in Query /\ req[a] \in Request /\ Id(a) = req[a].id
           /\ Id(a) \in MsgId
           /\ \E t \in Table : /\ EndIteration(t) /\ t[Id(a)] = NoEntry
                               /\ Shrinks(mtxState, t)
           /\ \/ got' = got
              \/ LET e == mtxState[Id(a)]
                 IN  /\ e # NoEntry /\ e.client \in Client
                     /\ [for |-> e.q, reply |-> a] \in Delivery
                     /\ got' = [got EXCEPT ![e.client] =
                                   Append(@, [for |-> e.q, reply |-> a])]
<1>1. a \in forwarded
  BY TakeHead DEF DNSFromBridge, TypeOK, MadeInv
<1>2. a \in Query /\ req[a] \in Request
  BY <1>1 DEF TypeOK, MadeInv
<1>3. Id(a) \in MsgId /\ Id(a) = req[a].id
  BY <1>2 DEF Id, Request
<1>4. EndIteration(Remove(mtxState, Id(a)))
  BY DEF DNSFromBridge
<1>5. mtxState \in Table
  BY DEF TypeOK
<1>6. /\ Remove(mtxState, Id(a)) \in Table
      /\ Remove(mtxState, Id(a))[Id(a)] = NoEntry
      /\ Shrinks(mtxState, Remove(mtxState, Id(a)))
  BY <1>3, <1>5, RemoveShrinks
<1>7. mtxState[Id(a)] # NoEntry =>
          /\ mtxState[Id(a)].client \in Client
          /\ [for |-> mtxState[Id(a)].q, reply |-> a] \in Delivery
  BY <1>2, <1>3, <1>5 DEF Table, Entry, Delivery
<1>8. \/ got' = got
      \/ LET e == mtxState[Id(a)]
         IN  /\ e # NoEntry
             /\ got' = [got EXCEPT ![e.client] = Append(@, [for |-> e.q, reply |-> a])]
  BY DEF DNSFromBridge
<1>. QED  BY <1>1, <1>2, <1>3, <1>4, <1>6, <1>7, <1>8

(* What an append to one address changes. *)
LEMMA DeliveryEffect ==
    ASSUME got \in [Client -> Seq(Delivery)], NEW c \in Client, NEW d \in Delivery,
           got' = [got EXCEPT ![c] = Append(@, d)]
    PROVE  /\ got' \in [Client -> Seq(Delivery)]
           /\ \A r \in Client : \A k \in DOMAIN got'[r] :
                 \/ k \in DOMAIN got[r] /\ got'[r][k] = got[r][k]
                 \/ r = c /\ k = Len(got[c]) + 1 /\ got'[r][k] = d
           /\ Len(got[c]) + 1 \notin DOMAIN got[c]
<1>1. got[c] \in Seq(Delivery) /\ got'[c] = Append(got[c], d)
  OBVIOUS
<1>2. /\ got'[c] \in Seq(Delivery)
      /\ \A k \in DOMAIN got'[c] :
            \/ k \in DOMAIN got[c] /\ got'[c][k] = got[c][k]
            \/ k = Len(got[c]) + 1 /\ got'[c][k] = d
  BY <1>1, AppendLast
<1>3. \A r \in Client : r # c => got'[r] = got[r]
  OBVIOUS
<1>4. Len(got[c]) + 1 \notin DOMAIN got[c]
  BY <1>1, LenProperties
<1>5. got' \in [Client -> Seq(Delivery)]
  BY <1>2, <1>3
<1>. QED  BY <1>2, <1>3, <1>4, <1>5

(* A step of the bridge answers at most the request whose id the reply has. *)
LEMMA NewlyAnswered ==
    ASSUME TypeOK, MadeInv, DNSFromBridge
    PROVE  \A q \in Answered' :
               \/ q \in Answered
               \/ /\ mtxState[Id(Head(dnsRx))] # NoEntry
                  /\ q = mtxState[Id(Head(dnsRx))].q
<1>. DEFINE a == Head(dnsRx)
            e == mtxState[Id(a)]
<1>1. CASE got' = got
  BY <1>1 DEF Answered
<1>2. CASE got' # got
  <2>1. /\ e # NoEntry /\ e.client \in Client
        /\ [for |-> e.q, reply |-> a] \in Delivery
        /\ got' = [got EXCEPT ![e.client] = Append(@, [for |-> e.q, reply |-> a])]
    BY <1>2, ReplyEffect
  <2>2. got \in [Client -> Seq(Delivery)]
    BY DEF TypeOK
  <2>3. \A r \in Client : \A k \in DOMAIN got'[r] :
            \/ k \in DOMAIN got[r] /\ got'[r][k] = got[r][k]
            \/ r = e.client /\ k = Len(got[e.client]) + 1
               /\ got'[r][k] = [for |-> e.q, reply |-> a]
    BY ONLY <2>1, <2>2, DeliveryEffect
  <2>. QED  BY <2>1, <2>3 DEF Answered
<1>. QED  BY <1>1, <1>2

-----------------------------------------------------------------------------
(* One lemma per part of the invariant.                                    *)

(* An entry's request was sent from the address in the entry, under its id. *)
LEMMA EntryRequest ==
    ASSUME TypeOK, TableInv, NEW i \in MsgId, mtxState[i] # NoEntry
    PROVE  /\ req[mtxState[i].q] \in Request
           /\ req[mtxState[i].q].id = i
           /\ req[mtxState[i].q].from = mtxState[i].client
           /\ mtxState[i].client \in Client /\ mtxState[i].q \in Query
<1>1. mtxState[i].client \in Client /\ mtxState[i].q \in Query
  BY DEF TypeOK, Table, Entry
<1>2. req[mtxState[i].q] = [from |-> mtxState[i].client, id |-> i]
  BY DEF TableInv
<1>3. [from |-> mtxState[i].client, id |-> i] \in Request
  BY <1>1 DEF Request
<1>. QED  BY <1>1, <1>2, <1>3

LEMMA TypeInit == Init => TypeOK
<1>. SUFFICES ASSUME Init PROVE TypeOK
  OBVIOUS
<1>1. dnsRx \in Seq(Query) /\ got \in [Client -> Seq(Delivery)]
  BY EmptySeq DEF Init
<1>2. mtxState \in Table /\ idle \in 0..Sweep /\ replies \in 0..MaxReplies
  BY SweepAssumption, MaxRepliesAssumption DEF Init, Table, EmptyTable
<1>. QED  BY <1>1, <1>2 DEF Init, TypeOK

LEMMA TypeStep ==
    ASSUME TypeOK, MadeInv, [Next]_vars
    PROVE  TypeOK'
<1>1. ASSUME NEW q \in Query, DNSFromNet(q)
      PROVE  TypeOK'
  <2>1. mtxState' \in Table /\ idle' \in 0..Sweep
    BY <1>1, ReceiveEffect, EndIterationEffect
  <2>. QED  BY <1>1, <2>1 DEF DNSFromNet, PassOn, TypeOK
<1>2. CASE InvalidDatagram \/ TimeoutEvent
  <2>1. mtxState \in Table /\ EndIteration(mtxState)
    BY <1>2 DEF InvalidDatagram, TimeoutEvent, TypeOK
  <2>2. mtxState' \in Table /\ idle' \in 0..Sweep
    BY <2>1, EndIterationEffect
  <2>. QED  BY <1>2, <2>2 DEF InvalidDatagram, TimeoutEvent, TypeOK, envVars
<1>3. CASE DNSFromBridge
  <2>1. mtxState' \in Table /\ idle' \in 0..Sweep
    BY <1>3, ReplyEffect, EndIterationEffect
  <2>2. got' \in [Client -> Seq(Delivery)]
    <3>1. CASE got' = got
      BY <3>1 DEF TypeOK
    <3>2. CASE got' # got
      <4>. DEFINE e == mtxState[Id(Head(dnsRx))]
                  d == [for |-> e.q, reply |-> Head(dnsRx)]
      <4>1. e.client \in Client /\ d \in Delivery
            /\ got' = [got EXCEPT ![e.client] = Append(@, d)]
        BY <1>3, <3>2, ReplyEffect
      <4>2. got \in [Client -> Seq(Delivery)]
        BY DEF TypeOK
      <4>. QED  BY ONLY <4>1, <4>2, DeliveryEffect
    <3>. QED  BY <3>1, <3>2
  <2>3. dnsRx' \in Seq(Query)
    BY <1>3, TakeHead DEF DNSFromBridge, TypeOK
  <2>. QED  BY <1>3, <2>1, <2>2, <2>3 DEF DNSFromBridge, TypeOK
<1>4. CASE ShutdownOrSocketError \/ ClientGone
  <2>1. EmptyTable \in Table /\ 0 \in 0..Sweep
    BY SweepAssumption DEF EmptyTable, Table
  <2>2. End
    BY <1>4 DEF ShutdownOrSocketError, ClientGone
  <2>. QED  BY <2>1, <2>2 DEF End, TypeOK
<1>5. ASSUME NEW c \in Client, NEW q \in Query, NEW i \in MsgId, Ask(c, q, i)
      PROVE  TypeOK'
  <2>1. [from |-> c, id |-> i] \in Request
    BY DEF Request
  <2>. QED  BY <1>5, <2>1 DEF Ask, TypeOK, bridgeVars
<1>6. ASSUME NEW q \in Query, Lose(q)
      PROVE  TypeOK'
  BY <1>6 DEF Lose, TypeOK, bridgeVars
<1>7. ASSUME NEW q \in Query, Reply(q)
      PROVE  TypeOK'
  BY <1>7, AppendLast, MaxRepliesAssumption DEF Reply, TypeOK, bridgeVars
<1>8. CASE ClientEnds
  BY <1>8 DEF ClientEnds, TypeOK, bridgeVars
<1>9. CASE Tick
  BY <1>9, ElapseAges, SweepAssumption DEF Tick, TypeOK, envVars
<1>10. CASE UNCHANGED vars
  BY <1>10 DEF vars, bridgeVars, envVars, TypeOK
<1>. QED
  BY <1>1, <1>2, <1>3, <1>4, <1>5, <1>6, <1>7, <1>8, <1>9, <1>10
  DEF Next, Loop, Environment

LEMMA MadeStep ==
    ASSUME TypeOK, MadeInv, TableInv, [Next]_vars
    PROVE  MadeInv'
<1>1. CASE UNCHANGED <<req, got>> /\ net' \subseteq net
           /\ forwarded' \subseteq forwarded \cup net /\ dnsRx' = dnsRx
           /\ forwarded \subseteq forwarded'
  BY <1>1 DEF MadeInv, Answered
<1>2. CASE DNSFromBridge
  <2>1. UNCHANGED <<req, net, forwarded>>
    BY <1>2 DEF DNSFromBridge
  <2>2. \A k \in DOMAIN dnsRx' : dnsRx'[k] \in forwarded'
    BY <1>2, <2>1, TakeHead DEF DNSFromBridge, MadeInv, TypeOK
  <2>3. \A q \in Answered' : req[q] # NoRequest
    <3>. DEFINE e == mtxState[Id(Head(dnsRx))]
    <3>1. e # NoEntry => req[e.q] \in Request
      <4>1. Id(Head(dnsRx)) \in MsgId
        BY <1>2, ReplyEffect
      <4>. QED  BY <4>1, EntryRequest
    <3>. QED  BY <1>2, <3>1, NewlyAnswered, NoRequestAssumption DEF MadeInv
  <2>. QED  BY <2>1, <2>2, <2>3 DEF MadeInv
<1>3. ASSUME NEW c \in Client, NEW q \in Query, NEW i \in MsgId, Ask(c, q, i)
      PROVE  MadeInv'
  <2>1. [from |-> c, id |-> i] # NoRequest
    BY NoRequestAssumption DEF Request
  <2>2. Answered' = Answered /\ UNCHANGED <<forwarded, dnsRx>>
    BY <1>3 DEF Ask, Answered
  <2>. QED  BY <1>3, <2>1, <2>2 DEF Ask, MadeInv, TypeOK, Answered
<1>4. ASSUME NEW q \in Query, Reply(q)
      PROVE  MadeInv'
  <2>1. Answered' = Answered
    BY <1>4 DEF Reply, Answered
  <2>2. \A k \in DOMAIN dnsRx' : \/ k \in DOMAIN dnsRx /\ dnsRx'[k] = dnsRx[k]
                                 \/ dnsRx'[k] = q
    BY <1>4, AppendLast DEF Reply, TypeOK
  <2>. QED  BY <1>4, <2>1, <2>2 DEF Reply, MadeInv
<1>5. ASSUME NEW q \in Query, DNSFromNet(q)
      PROVE  MadeInv'
  BY <1>1, <1>5 DEF DNSFromNet, PassOn
<1>6. CASE ShutdownOrSocketError \/ ClientGone
  BY <1>1, <1>6 DEF ShutdownOrSocketError, ClientGone, End
<1>. QED
  BY <1>1, <1>2, <1>3, <1>4, <1>5, <1>6
  DEF Next, Loop, Environment, InvalidDatagram, TimeoutEvent, Lose, ClientEnds, Tick,
      vars, bridgeVars, envVars

LEMMA NetStep ==
    ASSUME TypeOK, MadeInv, NetInv, TableInv, [Next]_vars
    PROVE  NetInv'
<1>1. CASE got' = got /\ net' \subseteq net
  BY <1>1 DEF NetInv, Answered
<1>2. CASE DNSFromBridge
  <2>. DEFINE e == mtxState[Id(Head(dnsRx))]
  <2>1. e # NoEntry => e.q \notin net
    BY <1>2, ReplyEffect DEF TableInv
  <2>2. net' = net
    BY <1>2 DEF DNSFromBridge
  <2>. QED  BY <1>2, <2>1, <2>2, NewlyAnswered DEF NetInv
<1>3. ASSUME NEW c \in Client, NEW q \in Query, NEW i \in MsgId, Ask(c, q, i)
      PROVE  NetInv'
  BY <1>3 DEF Ask, NetInv, MadeInv, Answered
<1>. QED
  BY <1>1, <1>2, <1>3
  DEF Next, Loop, Environment, DNSFromNet, InvalidDatagram, TimeoutEvent,
      ShutdownOrSocketError, ClientGone, End, Lose, Reply, ClientEnds, Tick,
      vars, bridgeVars, envVars

LEMMA TableStep ==
    ASSUME TypeOK, MadeInv, NetInv, TableInv, [Next]_vars
    PROVE  TableInv'
<1>. mtxState \in Table
  BY DEF TypeOK
<1>1. ASSUME NEW q \in Query, DNSFromNet(q)
      PROVE  TableInv'
  <2>1. req[q] \in Request /\ req' = req /\ net' = net \ {q} /\ q \in net
        /\ Answered' = Answered
    BY <1>1, ReceiveEffect DEF DNSFromNet, Answered
  <2>2. PICK t \in Table :
            /\ EndIteration(t)
            /\ \A i \in MsgId :
                  \/ t[i] = mtxState[i]
                  \/ /\ i = req[q].id /\ mtxState[i] = NoEntry
                     /\ t[i] = NewEntry(req[q].from, q)
    BY <1>1, ReceiveEffect
  <2>3. Shrinks(t, mtxState')
    BY <2>2, EndIterationEffect
  <2>4. NewEntry(req[q].from, q).client = req[q].from /\ NewEntry(req[q].from, q).q = q
    BY DEF NewEntry
  <2>5. req[q] = [from |-> req[q].from, id |-> req[q].id]
    BY <2>1 DEF Request
  <2>6. q \notin Answered
    BY <2>1 DEF NetInv
  <2>7. ASSUME NEW i \in MsgId, mtxState'[i] # NoEntry
        PROVE  /\ req'[mtxState'[i].q] = [from |-> mtxState'[i].client, id |-> i]
               /\ mtxState'[i].q \notin net'
               /\ mtxState'[i].q \notin Answered'
    <3>1. mtxState'[i] = t[i]
      BY <2>3, <2>7 DEF Shrinks
    <3>2. CASE t[i] = mtxState[i]
      BY <2>1, <2>7, <3>1, <3>2 DEF TableInv
    <3>3. CASE i = req[q].id /\ t[i] = NewEntry(req[q].from, q)
      BY <2>1, <2>4, <2>5, <2>6, <3>1, <3>3
    <3>. QED  BY <2>2, <3>2, <3>3
  <2>. QED  BY <2>7 DEF TableInv
<1>2. CASE InvalidDatagram \/ TimeoutEvent
  <2>1. Shrinks(mtxState, mtxState')
    BY <1>2, EndIterationEffect DEF InvalidDatagram, TimeoutEvent
  <2>2. UNCHANGED <<req, net, got>>
    BY <1>2 DEF InvalidDatagram, TimeoutEvent, envVars
  <2>. QED  BY <2>1, <2>2 DEF Shrinks, TableInv, Answered
<1>3. CASE DNSFromBridge
  <2>. DEFINE i == Id(Head(dnsRx))
              e == mtxState[i]
  <2>1. PICK t \in Table : /\ EndIteration(t) /\ t[i] = NoEntry
                           /\ Shrinks(mtxState, t)
    BY <1>3, ReplyEffect
  <2>2. Shrinks(t, mtxState') /\ i \in MsgId
    BY <1>3, <2>1, EndIterationEffect, ReplyEffect
  <2>3. UNCHANGED <<req, net>>
    BY <1>3 DEF DNSFromBridge
  <2>4. ASSUME NEW j \in MsgId, mtxState'[j] # NoEntry
        PROVE  /\ mtxState'[j] = mtxState[j] /\ mtxState[j] # NoEntry
               /\ mtxState[j].q \notin Answered'
    <3>1. mtxState'[j] = mtxState[j] /\ j # i /\ mtxState[j] # NoEntry
      BY <2>1, <2>2, <2>4 DEF Shrinks
    <3>2. e # NoEntry => mtxState[j].q # e.q
      <4>1. ASSUME e # NoEntry, mtxState[j].q = e.q
            PROVE  FALSE
        <5>1. req[e.q].id = i /\ req[mtxState[j].q].id = j
          BY <2>2, <3>1, <4>1, EntryRequest
        <5>. QED  BY <3>1, <4>1, <5>1
      <4>. QED  BY <4>1
    <3>. QED  BY <1>3, <3>1, <3>2, NewlyAnswered DEF TableInv
  <2>. QED  BY <2>3, <2>4 DEF TableInv
<1>4. CASE ShutdownOrSocketError \/ ClientGone
  BY <1>4 DEF ShutdownOrSocketError, ClientGone, End, EmptyTable, TableInv
<1>5. ASSUME NEW c \in Client, NEW q \in Query, NEW i \in MsgId, Ask(c, q, i)
      PROVE  TableInv'
  <2>1. ASSUME NEW j \in MsgId, mtxState[j] # NoEntry
        PROVE  mtxState[j].q # q
    <3>1. req[mtxState[j].q] \in Request
      BY <2>1, EntryRequest
    <3>. QED  BY <1>5, <3>1, NoRequestAssumption DEF Ask
  <2>2. Answered' = Answered /\ mtxState' = mtxState /\ net' = net \cup {q}
    BY <1>5 DEF Ask, Answered, bridgeVars
  <2>3. \A r : r # q => req'[r] = req[r]
    BY <1>5 DEF Ask, TypeOK
  <2>. QED  BY <2>1, <2>2, <2>3 DEF TableInv
<1>6. ASSUME NEW q \in Query, Lose(q)
      PROVE  TableInv'
  BY <1>6 DEF Lose, TableInv, Answered, bridgeVars
<1>7. CASE Tick
  <2>1. UNCHANGED <<req, net, got>> /\ mtxState' = Elapse(mtxState)
    BY <1>7 DEF Tick, envVars
  <2>. QED  BY <2>1, ElapseAges DEF TableInv, Answered
<1>8. CASE UNCHANGED <<mtxState, req, net, got>>
  BY <1>8 DEF TableInv, Answered
<1>. QED
  BY <1>1, <1>2, <1>3, <1>4, <1>5, <1>6, <1>7, <1>8
  DEF Next, Loop, Environment, Reply, ClientEnds, vars, bridgeVars, envVars

LEMMA MixUpStep ==
    ASSUME TypeOK, MadeInv, TableInv, MixUpNeedsSharedId, [Next]_vars
    PROVE  MixUpNeedsSharedId'
<1>1. CASE DNSFromBridge /\ got' # got
  <2>. DEFINE a == Head(dnsRx)
              i == Id(a)
              e == mtxState[i]
              d == [for |-> e.q, reply |-> a]
  <2>1. /\ a \in forwarded /\ req[a].id = i /\ i \in MsgId
        /\ e # NoEntry /\ e.client \in Client /\ d \in Delivery
        /\ got' = [got EXCEPT ![e.client] = Append(@, d)]
    BY <1>1, ReplyEffect
  <2>2. req[e.q].id = i /\ req[e.q].from = e.client
    BY <2>1, EntryRequest
  <2>3. UNCHANGED <<req, forwarded>> /\ got \in [Client -> Seq(Delivery)]
    BY <1>1 DEF DNSFromBridge, TypeOK
  <2>4. \A r \in Client : \A k \in DOMAIN got'[r] :
            \/ k \in DOMAIN got[r] /\ got'[r][k] = got[r][k]
            \/ r = e.client /\ k = Len(got[e.client]) + 1 /\ got'[r][k] = d
    BY ONLY <2>1, <2>3, DeliveryEffect
  <2>5. d.for = e.q /\ d.reply = a
    OBVIOUS
  <2>6. ASSUME NEW r \in Client, NEW k \in DOMAIN got'[r]
        PROVE  /\ got'[r][k].reply \in forwarded'
               /\ req'[got'[r][k].for].id = req'[got'[r][k].reply].id
               /\ req'[got'[r][k].for].from = r
    <3>. HIDE DEF a, e, d
    <3>1. CASE k \in DOMAIN got[r] /\ got'[r][k] = got[r][k]
      BY <2>3, <3>1 DEF MixUpNeedsSharedId
    <3>2. CASE r = e.client /\ got'[r][k] = d
      BY <2>1, <2>2, <2>3, <2>5, <3>2
    <3>. QED  BY <2>4, <3>1, <3>2
  <2>. QED  BY <2>6 DEF MixUpNeedsSharedId
<1>2. ASSUME NEW c \in Client, NEW q \in Query, NEW i \in MsgId, Ask(c, q, i)
      PROVE  MixUpNeedsSharedId'
  <2>1. UNCHANGED <<forwarded, got>> /\ req[q] = NoRequest
    BY <1>2 DEF Ask
  <2>2. \A r : r # q => req'[r] = req[r]
    BY <1>2 DEF Ask, TypeOK
  <2>3. \A r \in Client : \A k \in DOMAIN got[r] :
            got[r][k].for # q /\ got[r][k].reply # q
    BY <2>1 DEF MadeInv, Answered, MixUpNeedsSharedId
  <2>. QED  BY <2>1, <2>2, <2>3 DEF MixUpNeedsSharedId
<1>3. CASE UNCHANGED <<req, got>> /\ forwarded \subseteq forwarded'
  BY <1>3 DEF MixUpNeedsSharedId
<1>. QED
  BY <1>1, <1>2, <1>3
  DEF Next, Loop, Environment, DNSFromNet, PassOn, DNSFromBridge, InvalidDatagram,
      TimeoutEvent, ShutdownOrSocketError, ClientGone, End, Lose, Reply, ClientEnds,
      Tick, vars, bridgeVars, envVars

LEMMA AnsweredOnceStep ==
    ASSUME TypeOK, MadeInv, TableInv, AnsweredOnce, [Next]_vars
    PROVE  AnsweredOnce'
<1>1. CASE DNSFromBridge /\ got' # got
  <2>. DEFINE a == Head(dnsRx)
              e == mtxState[Id(a)]
              d == [for |-> e.q, reply |-> a]
  <2>1. /\ e # NoEntry /\ e.client \in Client /\ d \in Delivery /\ Id(a) \in MsgId
        /\ got' = [got EXCEPT ![e.client] = Append(@, d)]
    BY <1>1, ReplyEffect
  <2>2. got \in [Client -> Seq(Delivery)]
    BY DEF TypeOK
  <2>3. \A r \in Client : \A k \in DOMAIN got'[r] :
            \/ k \in DOMAIN got[r] /\ got'[r][k] = got[r][k]
            \/ r = e.client /\ k = Len(got[e.client]) + 1 /\ got'[r][k] = d
    BY ONLY <2>1, <2>2, DeliveryEffect
  <2>4. e.q \in Query /\ e.q \notin Answered
    BY <2>1, EntryRequest DEF TableInv
  <2>5. \A r \in Client : \A k \in DOMAIN got[r] : got[r][k].for # e.q
    BY <2>4 DEF Answered
  <2>. QED  BY <2>3, <2>5 DEF AnsweredOnce, Relay!AnsweredOnce
<1>2. CASE got' = got
  BY <1>2 DEF AnsweredOnce, Relay!AnsweredOnce
<1>. QED
  BY <1>1, <1>2
  DEF Next, Loop, Environment, DNSFromNet, InvalidDatagram, TimeoutEvent,
      ShutdownOrSocketError, ClientGone, End, Ask, Lose, Reply, ClientEnds, Tick,
      vars, bridgeVars, envVars

(* Every iteration leaves entries younger than Timeout and idle at 0; a tick *)
(* adds one to both sides.                                                   *)
LEMMA AgeStep ==
    ASSUME TypeOK, MadeInv, TableInv, AgeInv, [Next]_vars
    PROVE  AgeInv'
<1>1. ASSUME NEW t \in Table, EndIteration(t)
      PROVE  AgeInv'
  BY <1>1, EndIterationEffect, TimeoutAssumption DEF AgeInv, Table, Entry
<1>2. ASSUME NEW q \in Query, DNSFromNet(q)
      PROVE  AgeInv'
  BY <1>1, <1>2, ReceiveEffect
<1>3. CASE DNSFromBridge
  BY <1>1, <1>3, ReplyEffect
<1>4. CASE InvalidDatagram \/ TimeoutEvent
  BY <1>1, <1>4 DEF InvalidDatagram, TimeoutEvent, TypeOK
<1>5. CASE ShutdownOrSocketError \/ ClientGone
  BY <1>5 DEF ShutdownOrSocketError, ClientGone, End, EmptyTable, AgeInv
<1>6. CASE Tick
  <2>1. ASSUME NEW i \in MsgId, mtxState'[i] # NoEntry
        PROVE  mtxState'[i].age < Timeout + idle'
    <3>1. mtxState \in Table /\ mtxState' = Elapse(mtxState)
      BY <1>6 DEF Tick, TypeOK
    <3>2. mtxState[i] # NoEntry /\ mtxState'[i].age = mtxState[i].age + 1
      BY <2>1, <3>1, ElapseAges
    <3>3. mtxState[i].age \in Nat /\ mtxState[i].age < Timeout + idle
      BY <3>1, <3>2 DEF AgeInv, Table, Entry
    <3>4. idle' = idle + 1 /\ idle \in Nat
      BY <1>6, SweepAssumption DEF Tick, TypeOK
    <3>. QED  BY <3>2, <3>3, <3>4, TimeoutAssumption
  <2>. QED  BY <2>1 DEF AgeInv
<1>7. CASE UNCHANGED <<mtxState, idle>>
  BY <1>7 DEF AgeInv
<1>. QED
  BY <1>2, <1>3, <1>4, <1>5, <1>6, <1>7
  DEF Next, Loop, Environment, Ask, Lose, Reply, ClientEnds, vars, bridgeVars

-----------------------------------------------------------------------------
(* The invariant and what follows from it.                                 *)

LEMMA InvInit == Init => IInv
<1>. SUFFICES ASSUME Init PROVE IInv
  OBVIOUS
<1>1. Registered(mtxState) = {} /\ Answered = {}
  BY DEF Init, EmptyTable, Registered, Answered
<1>2. MadeInv /\ NetInv /\ TableInv /\ AgeInv
  BY <1>1 DEF Init, MadeInv, NetInv, TableInv, AgeInv, EmptyTable
<1>3. MixUpNeedsSharedId /\ AnsweredOnce
  BY DEF Init, MixUpNeedsSharedId, AnsweredOnce, Relay!AnsweredOnce
<1>. QED  BY <1>2, <1>3, TypeInit DEF IInv

LEMMA InvStep == IInv /\ [Next]_vars => IInv'
<1>. SUFFICES ASSUME IInv, [Next]_vars PROVE IInv'
  OBVIOUS
<1>. USE DEF IInv
<1>1. TypeOK'                        BY TypeStep
<1>2. MadeInv'                       BY MadeStep
<1>3. NetInv'                        BY NetStep
<1>4. TableInv'                      BY TableStep
<1>5. MixUpNeedsSharedId'            BY MixUpStep
<1>6. AnsweredOnce'                  BY AnsweredOnceStep
<1>7. AgeInv'                        BY AgeStep
<1>. QED  BY <1>1, <1>2, <1>3, <1>4, <1>5, <1>6, <1>7

(* IInv holds in every state of the bridge and its environment. *)
THEOREM Invariance == Spec => []IInv
  BY InvInit, InvStep, PTL DEF Spec

(* The bridge's table, channels and histories keep their types. *)
THEOREM TypeCorrect == Spec => []TypeOK
<1>1. IInv => TypeOK
  BY DEF IInv
<1>. QED  BY <1>1, Invariance, PTL

(* No datagram is answered twice (mtx_state.remove on the first reply). *)
THEOREM AnsweredOnceHolds == Spec => []AnsweredOnce
<1>1. IInv => AnsweredOnce
  BY DEF IInv
<1>. QED  BY <1>1, Invariance, PTL

(* Only a shared id mixes up the answers of two addresses. *)
THEOREM MixUpHolds == Spec => []MixUpNeedsSharedId
<1>1. IInv => MixUpNeedsSharedId
  BY DEF IInv
<1>. QED  BY <1>1, Invariance, PTL

(* No entry outlives its timeout by a sweep: its age is below Timeout + idle. *)
THEOREM ExpiryBoundHolds == Spec => []ExpiryBound
<1>1. IInv => ExpiryBound
  <2>. SUFFICES ASSUME IInv, NEW i \in MsgId, mtxState[i] # NoEntry
                PROVE  mtxState[i].age < Timeout + Sweep
    BY DEF ExpiryBound
  <2>1. mtxState[i].age \in Nat /\ mtxState[i].age < Timeout + idle
    BY DEF IInv, AgeInv, TypeOK, Table, Entry
  <2>2. idle \in Nat /\ idle <= Sweep
    BY SweepAssumption DEF IInv, TypeOK
  <2>. QED  BY <2>1, <2>2, TimeoutAssumption, SweepAssumption
<1>. QED  BY <1>1, Invariance, PTL

(* A collision neither takes the id from its holder nor renews its timer.    *)
THEOREM OwnerKeepsIdHolds == Spec => OwnerKeepsId
<1>. DEFINE Keeps == \A i \in MsgId :
                mtxState[i] # NoEntry /\ mtxState'[i] # NoEntry =>
                    /\ mtxState'[i].q = mtxState[i].q
                    /\ mtxState'[i].age >= mtxState[i].age
<1>1. IInv /\ [Next]_vars => [Keeps]_vars
  <2>. SUFFICES ASSUME IInv, [Next]_vars PROVE Keeps
    OBVIOUS
  <2>. USE DEF IInv
  <2>1. mtxState \in Table
    BY DEF TypeOK
  <2>2. ASSUME NEW t \in Table, EndIteration(t),
               \A i \in MsgId : mtxState[i] # NoEntry /\ t[i] # NoEntry =>
                   t[i] = mtxState[i]
        PROVE  Keeps
    <3>1. \A i \in MsgId : mtxState[i] # NoEntry /\ mtxState'[i] # NoEntry =>
              mtxState'[i] = mtxState[i]
      BY <2>2, EndIterationEffect DEF Shrinks
    <3>. QED  BY <2>1, <3>1 DEF Table, Entry
  <2>3. ASSUME NEW q \in Query, DNSFromNet(q)
        PROVE  Keeps
    <3>1. PICK t \in Table :
              /\ EndIteration(t)
              /\ \A i \in MsgId : t[i] = mtxState[i] \/ mtxState[i] = NoEntry
      BY <2>3, ReceiveEffect
    <3>. QED  BY <2>2, <3>1
  <2>4. CASE DNSFromBridge
    <3>1. PICK t \in Table : EndIteration(t) /\ Shrinks(mtxState, t)
      BY <2>4, ReplyEffect
    <3>. QED  BY <2>2, <3>1 DEF Shrinks
  <2>5. CASE InvalidDatagram \/ TimeoutEvent
    BY <2>1, <2>2, <2>5 DEF InvalidDatagram, TimeoutEvent
  <2>6. CASE ShutdownOrSocketError \/ ClientGone
    BY <2>6 DEF ShutdownOrSocketError, ClientGone, End, EmptyTable
  <2>7. CASE Tick
    <3>1. mtxState' = Elapse(mtxState)
      BY <2>7 DEF Tick
    <3>2. \A i \in MsgId : mtxState[i] # NoEntry => mtxState[i].age \in Nat
      BY <2>1 DEF Table, Entry
    <3>. QED  BY <2>1, <3>1, <3>2, ElapseAges
  <2>8. CASE UNCHANGED mtxState
    BY <2>1, <2>8 DEF Table, Entry
  <2>. QED
    BY <2>3, <2>4, <2>5, <2>6, <2>7, <2>8
    DEF Next, Loop, Environment, Ask, Lose, Reply, ClientEnds, vars, bridgeVars
<1>. QED  BY <1>1, Invariance, PTL DEF Spec, OwnerKeepsId

-----------------------------------------------------------------------------
(* Refinement of QueryRelay.                                               *)

LEMMA RelayInit == Init => Relay!Init
<1>. SUFFICES ASSUME Init PROVE Relay!Init
  OBVIOUS
<1>1. Pending = {}
  BY DEF Init, Pending, Registered, EmptyTable
<1>. QED  BY <1>1 DEF Init, Relay!Init

LEMMA RelayStep ==
    ASSUME IInv, [Next]_vars
    PROVE  [Relay!Next]_Relay!vars
<1>. USE DEF IInv
<1>1. mtxState \in Table
  BY DEF TypeOK
<1>2. ASSUME UNCHANGED <<req, got>>, net' \subseteq Pending,
             Registered(mtxState') \subseteq Pending
      PROVE  [Relay!Next]_Relay!vars
  <2>1. Pending' \subseteq Pending
    BY <1>2 DEF Pending
  <2>. QED  BY <1>2, <2>1 DEF Relay!Next, Relay!GiveUp
<1>3. ASSUME NEW q \in Query, DNSFromNet(q)
      PROVE  [Relay!Next]_Relay!vars
  <2>1. PICK t \in Table :
            /\ EndIteration(t)
            /\ \A i \in MsgId : t[i] = mtxState[i] \/ t[i] = NewEntry(req[q].from, q)
    BY <1>3, ReceiveEffect
  <2>2. Registered(mtxState') \subseteq Registered(t)
    BY <2>1, EndIterationEffect, ShrinkingRegistered
  <2>3. NewEntry(req[q].from, q).q = q
    BY DEF NewEntry
  <2>4. Registered(t) \subseteq Registered(mtxState) \cup {q}
    BY <2>1, <2>3 DEF Registered
  <2>5. UNCHANGED <<req, got>> /\ net' \subseteq net /\ q \in net
    BY <1>3 DEF DNSFromNet
  <2>. QED  BY <1>2, <2>2, <2>4, <2>5 DEF Pending
<1>4. CASE InvalidDatagram \/ TimeoutEvent
  <2>1. EndIteration(mtxState) /\ UNCHANGED <<req, net, got>>
    BY <1>4 DEF InvalidDatagram, TimeoutEvent, envVars
  <2>2. Registered(mtxState') \subseteq Registered(mtxState)
    BY <1>1, <2>1, EndIterationEffect, ShrinkingRegistered
  <2>. QED  BY <1>2, <2>1, <2>2 DEF Pending
<1>5. CASE DNSFromBridge
  <2>. DEFINE a == Head(dnsRx)
              i == Id(a)
              e == mtxState[i]
  <2>1. PICK t \in Table : EndIteration(t) /\ t[i] = NoEntry /\ Shrinks(mtxState, t)
    BY <1>5, ReplyEffect
  <2>2. Shrinks(t, mtxState')
    BY <2>1, EndIterationEffect
  <2>3. Registered(mtxState') \subseteq Registered(mtxState)
    BY <2>1, <2>2, ShrinkingRegistered
  <2>4. UNCHANGED <<req, net>>
    BY <1>5 DEF DNSFromBridge
  <2>5. CASE got' = got
    BY <1>2, <2>3, <2>4, <2>5 DEF Pending
  <2>6. CASE got' # got
    <3>1. /\ a \in Query /\ a \in forwarded /\ req[a].id = i /\ i \in MsgId
          /\ e # NoEntry /\ e.client \in Client
          /\ got' = [got EXCEPT ![e.client] = Append(@, [for |-> e.q, reply |-> a])]
      BY <1>5, <2>6, ReplyEffect
    <3>2. /\ e.q \in Query /\ req[e.q] \in Request
          /\ req[e.q].id = i /\ req[e.q].from = e.client
      BY <3>1, EntryRequest
    <3>3. req[e.q] # NoRequest /\ req[a] # NoRequest
      BY <3>1, <3>2, NoRequestAssumption DEF MadeInv
    <3>4. e.q \in Registered(mtxState) /\ e.q \notin net
      BY <3>1 DEF Registered, TableInv
    <3>5. e.q \notin Registered(mtxState')
      <4>1. ASSUME NEW j \in MsgId, mtxState'[j] # NoEntry, mtxState'[j].q = e.q
            PROVE  FALSE
        <5>1. j # i /\ mtxState[j] # NoEntry /\ mtxState[j].q = e.q
          BY <2>1, <2>2, <4>1 DEF Shrinks
        <5>2. req[mtxState[j].q].id = j
          BY <5>1, EntryRequest
        <5>. QED  BY <3>2, <5>1, <5>2
      <4>. QED  BY <4>1 DEF Registered
    <3>6. e.q \in Pending /\ Pending' \in SUBSET (Pending \ {e.q})
      BY <2>3, <2>4, <3>4, <3>5 DEF Pending
    <3>7. SelfClient[e.client] = SelfClient[req[e.q].from]
      BY <3>2
    <3>8. Relay!Deliver(e.q, a, e.client)
      <4>. HIDE DEF a, e
      <4>. QED  BY <2>4, <3>1, <3>2, <3>3, <3>6, <3>7 DEF Relay!Deliver
    <3>. QED  BY <3>1, <3>2, <3>8 DEF Relay!Next
  <2>. QED  BY <2>5, <2>6
<1>6. CASE ShutdownOrSocketError \/ ClientGone
  <2>1. UNCHANGED <<req, got>> /\ net' = {} /\ mtxState' = EmptyTable
    BY <1>6 DEF ShutdownOrSocketError, ClientGone, End
  <2>2. Registered(mtxState') = {}
    BY <2>1 DEF Registered, EmptyTable
  <2>. QED  BY <1>2, <2>1, <2>2
<1>7. ASSUME NEW c \in Client, NEW q \in Query, NEW j \in MsgId, Ask(c, q, j)
      PROVE  [Relay!Next]_Relay!vars
  <2>1. Pending' = Pending \cup {q}
    BY <1>7 DEF Ask, Pending, bridgeVars
  <2>2. Relay!Ask(c, q, j)
    BY <1>7, <2>1 DEF Ask, Relay!Ask
  <2>. QED  BY <2>2 DEF Relay!Next
<1>8. CASE Tick
  <2>1. Registered(mtxState') = Registered(mtxState) /\ UNCHANGED <<net, req, got>>
    BY <1>1, <1>8, ElapseRegistered DEF Tick, envVars
  <2>. QED  BY <1>2, <2>1 DEF Pending
<1>9. CASE UNCHANGED <<mtxState, req, got>> /\ net' \subseteq net
  BY <1>2, <1>9 DEF Pending
<1>. QED
  BY <1>3, <1>4, <1>5, <1>6, <1>7, <1>8, <1>9
  DEF Next, Loop, Environment, Lose, Reply, ClientEnds, vars, bridgeVars, envVars

(* The bridge is a QueryRelay between addresses: every iteration asks, gives *)
(* up or delivers as that specification allows.                              *)
THEOREM RefinementHolds == Spec => ImplementsRelay
  BY RelayInit, RelayStep, Invariance, PTL DEF Spec, ImplementsRelay, Relay!Spec
=============================================================================
