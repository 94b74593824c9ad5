------------------------- MODULE EgressBridgeProofs -------------------------
(***************************************************************************)
(* Theorems about EgressBridge for every number of sessions, clients,      *)
(* requests and ids, and every timeout; and, at the end, that the UDP      *)
(* forwarder is a forwarder as EgressBridge assumes it, whatever the       *)
(* number of hosts, so that they hold of the bridge with it behind.        *)
(***************************************************************************)
EXTENDS UdpForwarder, SequenceTheorems, TLAPS

-----------------------------------------------------------------------------
(* The request table.                                                      *)

(* Every entry of table u is the entry t has under the same id. *)
Shrinks(t, u) == \A i \in MsgId : u[i] # NoEntry => u[i] = t[i]

(* Expire drops entries, and what it keeps is younger than the timeout. *)
LEMMA ExpireShrinks ==
    ASSUME NEW t \in Table
    PROVE  /\ Expire(t) \in Table
           /\ Shrinks(t, Expire(t))
           /\ \A i \in MsgId : Expire(t)[i] # NoEntry => t[i].age < Timeout
<1>1. Expire(t) \in Table
  BY DEF Table, Expire
<1>2. Shrinks(t, Expire(t))
  BY DEF Expire, Shrinks
<1>3. ASSUME NEW i \in MsgId, Expire(t)[i] # NoEntry
      PROVE  t[i].age < Timeout
  <2>1. t[i] # NoEntry /\ ~Expired(t[i])
    BY <1>3 DEF Expire
  <2>2. t[i] \in Entry
    BY <2>1 DEF Table
  <2>. QED  BY <2>1, <2>2, TimeoutAssumption DEF Expired, Entry
<1>. QED  BY <1>1, <1>2, <1>3

(* Register adds at most the new entry, under the id it is given. *)
LEMMA RegisterAdds ==
    ASSUME NEW t \in Table, NEW i \in MsgId, NEW c \in Client, NEW q \in Query
    PROVE  /\ Register(t, i, c, q) \in Table
           /\ \A j \in MsgId :
                 \/ Register(t, i, c, q)[j] = t[j]
                 \/ j = i /\ t[j] = NoEntry /\ Register(t, i, c, q)[j] = NewEntry(c, q)
<1>1. NewEntry(c, q) \in Entry
  BY DEF NewEntry, Entry
<1>. QED  BY <1>1 DEF Register, Table

(* Remove empties one id and leaves the others. *)
LEMMA RemoveShrinks ==
    ASSUME NEW t \in Table, NEW i \in MsgId
    PROVE  /\ Remove(t, i) \in Table
           /\ Remove(t, i)[i] = NoEntry
           /\ Shrinks(t, Remove(t, i))
  BY DEF Remove, Table, Shrinks

(* Elapse makes every entry one tick older. *)
LEMMA ElapseAges ==
    ASSUME NEW t \in Table
    PROVE  /\ Elapse(t) \in Table
           /\ \A i \in MsgId : t[i] = NoEntry => Elapse(t)[i] = NoEntry
           /\ \A i \in MsgId : t[i] # NoEntry =>
                 /\ Elapse(t)[i] # NoEntry
                 /\ Elapse(t)[i].q = t[i].q
                 /\ Elapse(t)[i].client = t[i].client
                 /\ Elapse(t)[i].age = t[i].age + 1
<1>1. ASSUME NEW i \in MsgId, t[i] # NoEntry
      PROVE  /\ Elapse(t)[i] \in Entry
             /\ Elapse(t)[i].q = t[i].q
             /\ Elapse(t)[i].client = t[i].client
             /\ Elapse(t)[i].age = t[i].age + 1
  <2>1. t[i] \in Entry
    BY <1>1 DEF Table
  <2>2. Elapse(t)[i] = [t[i] EXCEPT !.age = @ + 1]
    BY <1>1 DEF Elapse
  <2>. QED  BY <2>1, <2>2 DEF Entry
<1>2. \A i \in MsgId : t[i] = NoEntry => Elapse(t)[i] = NoEntry
  BY DEF Elapse
<1>3. Elapse(t) \in Table
  BY <1>1, <1>2 DEF Elapse, Table
<1>. QED  BY <1>1, <1>2, <1>3, NoEntryAssumption

(* What is registered after entries went is what was registered before. *)
LEMMA ShrinkingRegistered ==
    ASSUME NEW t, NEW u, Shrinks(t, u)
    PROVE  Registered(u) \subseteq Registered(t)
  BY DEF Shrinks, Registered

LEMMA ElapseRegistered ==
    ASSUME NEW t \in Table
    PROVE  Registered(Elapse(t)) = Registered(t)
  BY ElapseAges DEF Registered

-----------------------------------------------------------------------------
(* Queues: taking the head shifts positions by one, appending keeps them.  *)

LEMMA TakeHead ==
    ASSUME NEW S, NEW s \in Seq(S), s # <<>>
    PROVE  /\ Tail(s) \in Seq(S)
           /\ 1 \in DOMAIN s /\ Head(s) = s[1] /\ Head(s) \in S
           /\ \A k \in DOMAIN Tail(s) :
                 /\ k \in Nat /\ k + 1 \in DOMAIN s
                 /\ Tail(s)[k] = s[k + 1]
           /\ \A k \in DOMAIN s : k # 1 =>
                 k \in Nat /\ k - 1 \in DOMAIN Tail(s) /\ Tail(s)[k - 1] = s[k]
  BY HeadTailProperties, LenProperties

LEMMA AppendLast ==
    ASSUME NEW S, NEW s \in Seq(S), NEW x \in S
    PROVE  /\ Append(s, x) \in Seq(S)
           /\ Append(s, x)[Len(s) + 1] = x
           /\ Len(s) + 1 \in DOMAIN Append(s, x)
           /\ \A k \in DOMAIN s : k \in Nat /\ k <= Len(s)
                 /\ k \in DOMAIN Append(s, x) /\ Append(s, x)[k] = s[k]
           /\ \A k \in DOMAIN Append(s, x) :
                 k = Len(s) + 1 \/ k \in DOMAIN s
  BY AppendProperties, LenProperties

-----------------------------------------------------------------------------
(* The inductive invariant, in named parts.                                *)

Registers(k, s) == rx[k] = [type |-> "Register", session |-> s]
Carries(k, q) == rx[k] = [type |-> "Dns", q |-> q]

(* Queued requests were made, are queued once, and are not forwarded yet. *)
QueueInv ==
    \A k \in DOMAIN rx : \A q \in Query : Carries(k, q) =>
        /\ req[q] # NoRequest
        /\ q \notin forwarded
        /\ \A j \in DOMAIN rx : Carries(j, q) => j = k

Answered == {q \in Query : \E s \in Session : \E k \in DOMAIN got[s] : got[s][k].for = q}

(* An entry is that of a forwarded, unanswered request, under its own id. *)
TableInv ==
    \A i \in MsgId : messages[i] # NoEntry =>
        /\ messages[i].q \in forwarded
        /\ req[messages[i].q].id = i
        /\ messages[i].client = clientOf[req[messages[i].q].from]
        /\ messages[i].q \notin Answered

(* Only requests that were made are forwarded, and only those are replied to. *)
NetInv ==
    /\ \A q \in forwarded : req[q] # NoRequest
    /\ \A k \in DOMAIN fwdRx : fwdRx[k] \in forwarded

(* A responder is registered under the id of its own session. *)
ClientsInv == \A c \in Client : clients[c] # NoSession => clientOf[clients[c]] = c

(* An entry is as old as the timeout allows plus the current sleep. *)
AgeInv == \A i \in MsgId : messages[i] # NoEntry => messages[i].age < Timeout + idle

(* Nothing is known of a session before it was launched. *)
LaunchInv ==
    /\ \A s \in Session : \A k \in DOMAIN rx : Registers(k, s) => session[s] # "new"
    /\ \A c \in Client : clients[c] # NoSession => session[clients[c]] # "new"
    /\ \A q \in Query : req[q] # NoRequest => session[req[q].from] # "new"

(* The session launched last under an id is a session of that id. *)
LatestInv == \A c \in Client : latest[c] # NoSession => clientOf[latest[c]] = c

IsLatest(s) == latest[clientOf[s]] = s

(* Message k of the channel takes over the client id of s. *)
TakesOver(k, s) == \E t \in Session : Registers(k, t) /\ clientOf[t] = clientOf[s]

(* The responder of s is registered, and nothing queued replaces it. *)
Routed(s) ==
    /\ clients[clientOf[s]] = s
    /\ \A k \in DOMAIN rx : ~TakesOver(k, s)

(* The Register of s is still queued: ahead of all its requests, and behind  *)
(* every Register that it replaces.                                          *)
Awaits(s) ==
    \E k \in DOMAIN rx :
        /\ Registers(k, s)
        /\ \A j \in DOMAIN rx : TakesOver(j, s) => j <= k
        /\ \A j \in DOMAIN rx : \A q \in Query :
               Carries(j, q) /\ req[q].from = s => k < j
        /\ \A q \in Registered(messages) : req[q].from # s

(* The latest session of a client id, while open, is registered or about to be. *)
RouteInv ==
    up => \A s \in Session :
        session[s] = "open" /\ IsLatest(s) => Routed(s) \/ Awaits(s)

(* A bridge that ended holds no entries. *)
DownInv == ~up => messages = EmptyTable

IInv ==
    /\ TypeOK /\ QueueInv /\ NetInv /\ ClientsInv
    /\ TableInv /\ MixUpNeedsSharedId /\ AnsweredOnce
    /\ AgeInv /\ LaunchInv /\ LatestInv /\ RouteInv /\ DownInv
-----------------------------------------------------------------------------

LEMMA HeadDns ==
    ASSUME TypeOK, rx # <<>>, Head(rx).type = "Dns"
    PROVE  /\ Head(rx).q \in Query
           /\ rx[1] = [type |-> "Dns", q |-> Head(rx).q]
<1>1. Head(rx) \in RegisterMsg \cup DnsMsg /\ Head(rx) = rx[1]
  BY TakeHead DEF TypeOK
<1>2. Head(rx) \in DnsMsg
  BY <1>1 DEF RegisterMsg
<1>. QED  BY <1>1, <1>2 DEF DnsMsg

LEMMA HeadRegister ==
    ASSUME TypeOK, rx # <<>>, Head(rx).type = "Register"
    PROVE  /\ Head(rx).session \in Session
           /\ rx[1] = [type |-> "Register", session |-> Head(rx).session]
<1>1. Head(rx) \in RegisterMsg \cup DnsMsg /\ Head(rx) = rx[1]
  BY TakeHead DEF TypeOK
<1>2. Head(rx) \in RegisterMsg
  BY <1>1 DEF DnsMsg
<1>. QED  BY <1>1, <1>2 DEF RegisterMsg

(* The cleanups that close an iteration only drop clients and entries. *)
LEMMA EndIterationEffect ==
    ASSUME NEW cl \in [Client -> Session \cup {NoSession}], NEW t \in Table,
           EndIteration(cl, t)
    PROVE  /\ clients' \in [Client -> Session \cup {NoSession}]
           /\ messages' \in Table
           /\ idle' = 0
           /\ Shrinks(t, messages')
           /\ \A i \in MsgId : messages'[i] # NoEntry => messages'[i].age < Timeout
           /\ \A c \in Client : clients'[c] # NoSession => clients'[c] = cl[c]
           /\ \A c \in Client : cl[c] # NoSession /\ session[cl[c]] # "closed" =>
                 clients'[c] = cl[c]
<1>1. clients' = CleanupClients(cl) /\ messages' = Expire(t) /\ idle' = 0
  BY DEF EndIteration
<1>2. \A i \in MsgId : messages'[i] # NoEntry => messages'[i].age < Timeout
  BY <1>1, ExpireShrinks DEF Shrinks
<1>3. clients' \in [Client -> Session \cup {NoSession}]
  BY <1>1 DEF CleanupClients
<1>4. \A c \in Client : clients'[c] # NoSession => clients'[c] = cl[c]
  BY <1>1 DEF CleanupClients
<1>5. \A c \in Client : cl[c] # NoSession /\ session[cl[c]] # "closed" =>
          clients'[c] = cl[c]
  BY <1>1 DEF CleanupClients, Closed
<1>. QED  BY <1>1, <1>2, <1>3, <1>4, <1>5, ExpireShrinks

(* A forwarder that is up takes the request; the table may gain its entry. *)
LEMMA RequestStep ==
    ASSUME TypeOK, DNSFromBridge, NEW q, q = Head(rx).q, req[q] # NoRequest
    PROVE  /\ q \in Query /\ Id(q) \in MsgId /\ clientOf[req[q].from] \in Client
           /\ Register(messages, Id(q), clientOf[req[q].from], q) \in Table
<1>1. q \in Query
  BY HeadDns DEF DNSFromBridge
<1>2. req[q] \in Request
  BY <1>1 DEF TypeOK
<1>3. Id(q) \in MsgId /\ clientOf[req[q].from] \in Client
  BY <1>2, ClientOfAssumption DEF Id, Request
<1>. QED  BY <1>1, <1>3, RegisterAdds DEF TypeOK

LEMMA EndIterationTypes ==
    ASSUME NEW cl \in [Client -> Session \cup {NoSession}], NEW t \in Table,
           EndIteration(cl, t)
    PROVE  /\ clients' \in [Client -> Session \cup {NoSession}]
           /\ messages' \in Table
           /\ idle' \in 0..Sweep
<1>1. 0 \in 0..Sweep
  BY SweepAssumption
<1>. QED  BY <1>1, EndIterationEffect

LEMMA RepliedId ==
    ASSUME TypeOK, NetInv, DNSFromNet
    PROVE  /\ Head(fwdRx) \in forwarded
           /\ req[Head(fwdRx)] \in Request
           /\ Id(Head(fwdRx)) \in MsgId
<1>1. Head(fwdRx) \in forwarded
  BY TakeHead DEF DNSFromNet, TypeOK, NetInv
<1>2. req[Head(fwdRx)] \in Request
  BY <1>1 DEF TypeOK, NetInv
<1>. QED  BY <1>1, <1>2 DEF Id, Request

(* A reply puts at most one delivery in one session's queue, for the request *)
(* that holds the id and to a responder of the client in its entry.          *)
LEMMA NetStep ==
    ASSUME TypeOK, DNSFromNet, NEW a, a = Head(fwdRx), NEW e, e = messages[Id(a)],
           Id(a) \in MsgId
    PROVE  /\ a \in Query /\ a = fwdRx[1] /\ 1 \in DOMAIN fwdRx
           /\ Remove(messages, Id(a)) \in Table
           /\ EndIteration(clients, Remove(messages, Id(a)))
           /\ got' \in [Session -> Seq(Delivery)]
           /\ \/ got' = got
              \/ \E s \in Session :
                    /\ e # NoEntry /\ e.client \in Client /\ s = clients[e.client]
                    /\ got' = [got EXCEPT ![s] = Append(@, [for |-> e.q, reply |-> a])]
<1>1. a \in Query /\ a = fwdRx[1] /\ 1 \in DOMAIN fwdRx
  BY TakeHead DEF DNSFromNet, TypeOK
<1>2. Remove(messages, Id(a)) \in Table
  BY RemoveShrinks DEF TypeOK
<1>3. EndIteration(clients, Remove(messages, Id(a)))
  BY DEF DNSFromNet
<1>4. CASE e = NoEntry
  BY <1>1, <1>2, <1>3, <1>4 DEF DNSFromNet, TypeOK
<1>5. CASE e # NoEntry
  <2>1. e \in Entry
    BY <1>5 DEF TypeOK, Table
  <2>2. e.client \in Client /\ [for |-> e.q, reply |-> a] \in Delivery
    BY <1>1, <2>1 DEF Entry, Delivery
  <2>3. Send(e.client, e.q, a)
    BY <1>5 DEF DNSFromNet
  <2>4. clients[e.client] \in Session \cup {NoSession}
    BY <2>2 DEF TypeOK
  <2>5. CASE got' = got
    BY <1>1, <1>2, <1>3, <2>5 DEF TypeOK
  <2>6. CASE got' # got
    <3>. DEFINE s == clients[e.client]
    <3>1. s \in Session /\ got' = [got EXCEPT ![s] = Append(@, [for |-> e.q, reply |-> a])]
      BY <2>3, <2>4, <2>6 DEF Send
    <3>2. Append(got[s], [for |-> e.q, reply |-> a]) \in Seq(Delivery)
      BY <2>2, <3>1, AppendLast DEF TypeOK
    <3>3. got' \in [Session -> Seq(Delivery)]
      BY <3>1, <3>2 DEF TypeOK
    <3>. QED  BY <1>1, <1>2, <1>3, <1>5, <2>2, <3>1, <3>3
  <2>. QED  BY <2>5, <2>6
<1>. QED  BY <1>4, <1>5

-----------------------------------------------------------------------------
(* Types.                                                                  *)

LEMMA TypeInit == Init => TypeOK
<1>. SUFFICES ASSUME Init PROVE TypeOK
  OBVIOUS
<1>1. rx \in Seq(RegisterMsg \cup DnsMsg) /\ fwdRx \in Seq(Query)
  BY EmptySeq DEF Init
<1>2. got \in [Session -> Seq(Delivery)]
  BY EmptySeq DEF Init
<1>3. messages \in Table /\ clients \in [Client -> Session \cup {NoSession}]
  BY DEF Init, Table, EmptyTable, NoClients
<1>4. idle \in 0..Sweep /\ replies \in 0..MaxReplies
  BY SweepAssumption, MaxRepliesAssumption DEF Init
<1>. QED  BY <1>1, <1>2, <1>3, <1>4 DEF Init, TypeOK

(* A queue holds only made requests (QueueInv), so an entry has a client. *)
LEMMA TypeStep ==
    ASSUME TypeOK, QueueInv, NetInv, [Next]_vars
    PROVE  TypeOK'
<1>1. CASE Registration
  <2>1. Head(rx).session \in Session /\ Tail(rx) \in Seq(RegisterMsg \cup DnsMsg)
    BY <1>1, HeadRegister, TakeHead DEF Registration, TypeOK
  <2>2. [clients EXCEPT ![clientOf[Head(rx).session]] = Head(rx).session]
            \in [Client -> Session \cup {NoSession}]
    BY <2>1 DEF TypeOK
  <2>3. EndIteration([clients EXCEPT ![clientOf[Head(rx).session]] = Head(rx).session],
                     messages)
    BY <1>1 DEF Registration
  <2>4. messages \in Table
    BY DEF TypeOK
  <2>5. /\ clients' \in [Client -> Session \cup {NoSession}]
        /\ messages' \in Table /\ idle' \in 0..Sweep
    BY <2>2, <2>3, <2>4, EndIterationTypes
  <2>. QED  BY <1>1, <2>1, <2>5 DEF Registration, TypeOK, envVars
<1>2. CASE DNSFromBridge
  <2>. DEFINE q == Head(rx).q
  <2>1. q \in Query /\ req[q] # NoRequest
    BY <1>2, HeadDns, TakeHead DEF DNSFromBridge, QueueInv, Carries, TypeOK
  <2>2. Register(messages, Id(q), clientOf[req[q].from], q) \in Table
    BY <1>2, <2>1, RequestStep
  <2>3. Tail(rx) \in Seq(RegisterMsg \cup DnsMsg)
    BY <1>2, TakeHead DEF DNSFromBridge, TypeOK
  <2>4. \E t \in Table : EndIteration(clients, t)
    BY <1>2, <2>2 DEF DNSFromBridge, TypeOK
  <2>5. /\ clients' \in [Client -> Session \cup {NoSession}]
        /\ messages' \in Table /\ idle' \in 0..Sweep
    BY <2>4, EndIterationTypes DEF TypeOK
  <2>6. forwarded' \in SUBSET Query
    BY <1>2, <2>1 DEF DNSFromBridge, TypeOK
  <2>. QED  BY <1>2, <2>3, <2>5, <2>6 DEF DNSFromBridge, TypeOK, envVars
<1>3. CASE DNSFromNet
  <2>. DEFINE a == Head(fwdRx)
              e == messages[Id(a)]
  <2>1. Tail(fwdRx) \in Seq(Query)
    BY <1>3, TakeHead DEF DNSFromNet, TypeOK
  <2>2. Id(a) \in MsgId
    BY <1>3, RepliedId
  <2>3. /\ Remove(messages, Id(a)) \in Table
        /\ EndIteration(clients, Remove(messages, Id(a)))
        /\ got' \in [Session -> Seq(Delivery)]
    BY <1>3, <2>2, NetStep
  <2>4. clients \in [Client -> Session \cup {NoSession}]
    BY DEF TypeOK
  <2>5. /\ clients' \in [Client -> Session \cup {NoSession}]
        /\ messages' \in Table /\ idle' \in 0..Sweep
    BY <2>3, <2>4, EndIterationTypes
  <2>. QED  BY <1>3, <2>1, <2>3, <2>5 DEF DNSFromNet, TypeOK
<1>4. CASE TimeoutEvent
  BY <1>4, EndIterationTypes DEF TimeoutEvent, TypeOK, envVars
<1>5. CASE Shutdown \/ ForwarderGone
  <2>1. <<>> \in Seq(RegisterMsg \cup DnsMsg) /\ EmptyTable \in Table
    BY EmptySeq DEF EmptyTable, Table
  <2>2. End
    BY <1>5 DEF Shutdown, ForwarderGone
  <2>3. clients' \in [Client -> Session \cup {NoSession}] /\ idle' \in 0..Sweep
    BY <2>2, SweepAssumption DEF End, NoClients
  <2>. QED  BY <2>1, <2>2, <2>3 DEF End, TypeOK, envVars
<1>6. ASSUME NEW s \in Session, Launch(s)
      PROVE  TypeOK'
  <2>1. [type |-> "Register", session |-> s] \in RegisterMsg \cup DnsMsg
    BY DEF RegisterMsg
  <2>. QED  BY <1>6, <2>1, AppendLast DEF Launch, TypeOK
<1>7. ASSUME NEW s \in Session, CloseSession(s)
      PROVE  TypeOK'
  BY <1>7 DEF CloseSession, TypeOK, bridgeVars
<1>8. ASSUME NEW s \in Session, NEW q \in Query, NEW i \in MsgId, Ask(s, q, i)
      PROVE  TypeOK'
  <2>1. [type |-> "Dns", q |-> q] \in RegisterMsg \cup DnsMsg
    BY DEF DnsMsg
  <2>2. [from |-> s, id |-> i] \in Request
    BY DEF Request
  <2>. QED  BY <1>8, <2>1, <2>2, AppendLast DEF Ask, TypeOK
<1>9. ASSUME NEW q \in Query, Reply(q)
      PROVE  TypeOK'
  BY <1>9, AppendLast, MaxRepliesAssumption DEF Reply, TypeOK, bridgeVars
<1>10. CASE ForwarderEnds
  BY <1>10 DEF ForwarderEnds, TypeOK, bridgeVars
<1>11. CASE Tick
  BY <1>11, ElapseAges, SweepAssumption DEF Tick, TypeOK, envVars
<1>12. CASE UNCHANGED vars
  BY <1>12 DEF vars, bridgeVars, envVars, TypeOK
<1>. QED
  BY <1>1, <1>2, <1>3, <1>4, <1>5, <1>6, <1>7, <1>8, <1>9, <1>10, <1>11, <1>12
  DEF Next, Loop, Environment

-----------------------------------------------------------------------------
(* Queue and network.                                                      *)

LEMMA QueueStep ==
    ASSUME TypeOK, QueueInv, NetInv, [Next]_vars
    PROVE  QueueInv'
<1>1. ASSUME rx # <<>>, rx' = Tail(rx), req' = req,
             \A q \in forwarded' : q \in forwarded \/ Carries(1, q)
      PROVE  QueueInv'
  <2>. SUFFICES ASSUME NEW k \in DOMAIN rx', NEW q \in Query, Carries(k, q)'
                PROVE  /\ req'[q] # NoRequest
                       /\ q \notin forwarded'
                       /\ \A j \in DOMAIN rx' : Carries(j, q)' => j = k
    BY DEF QueueInv
  <2>1. \A j \in DOMAIN rx' : Carries(j, q)' =>
            j \in Nat /\ j + 1 \in DOMAIN rx /\ Carries(j + 1, q)
    BY <1>1, TakeHead DEF TypeOK, Carries
  <2>2. k \in Nat /\ k + 1 \in DOMAIN rx /\ Carries(k + 1, q)
    BY <2>1
  <2>3. \A j \in DOMAIN rx' : Carries(j, q)' => j = k
    BY <2>1, <2>2 DEF QueueInv
  <2>4. ~Carries(1, q)
    <3>1. 1 \in DOMAIN rx /\ k + 1 # 1
      BY <1>1, <2>2, LenProperties, TakeHead DEF TypeOK
    <3>. QED  BY <2>2, <3>1 DEF QueueInv
  <2>. QED  BY <1>1, <2>2, <2>3, <2>4 DEF QueueInv
<1>2. CASE Registration
  BY <1>1, <1>2 DEF Registration, envVars
<1>3. CASE DNSFromBridge
  <2>1. Carries(1, Head(rx).q)
    BY <1>3, HeadDns DEF DNSFromBridge, Carries
  <2>. QED  BY <1>1, <1>3, <2>1 DEF DNSFromBridge, envVars
<1>4. CASE Shutdown \/ ForwarderGone
  BY <1>4 DEF Shutdown, ForwarderGone, End, QueueInv
<1>5. CASE UNCHANGED <<rx, req, forwarded>>
  BY <1>5 DEF QueueInv, Carries
<1>6. ASSUME NEW s \in Session, Launch(s)
      PROVE  QueueInv'
  <2>1. [type |-> "Register", session |-> s] \in RegisterMsg \cup DnsMsg
    BY DEF RegisterMsg
  <2>2. \A k \in DOMAIN rx' : \A q \in Query : Carries(k, q)' =>
            k \in DOMAIN rx /\ Carries(k, q)
    BY <1>6, <2>1, AppendLast DEF Launch, Carries, TypeOK
  <2>. QED  BY <1>6, <2>2 DEF Launch, QueueInv
<1>7. ASSUME NEW s \in Session, NEW r \in Query, NEW i \in MsgId, Ask(s, r, i)
      PROVE  QueueInv'
  <2>1. [type |-> "Dns", q |-> r] \in RegisterMsg \cup DnsMsg
    BY DEF DnsMsg
  <2>2. [from |-> s, id |-> i] # NoRequest
    BY NoRequestAssumption DEF Request
  <2>3. \A k \in DOMAIN rx' : \A q \in Query : Carries(k, q)' =>
            \/ k \in DOMAIN rx /\ Carries(k, q)
            \/ k = Len(rx) + 1 /\ q = r
    BY <1>7, <2>1, AppendLast DEF Ask, Carries, TypeOK
  <2>4. \A k \in DOMAIN rx : ~Carries(k, r)
    BY <1>7 DEF Ask, QueueInv
  <2>5. r \notin forwarded
    BY <1>7 DEF Ask, NetInv
  <2>6. /\ req'[r] # NoRequest /\ forwarded' = forwarded
        /\ \A q \in Query : q # r => req'[q] = req[q]
    BY <1>7, <2>2 DEF Ask, TypeOK
  <2>. SUFFICES ASSUME NEW k \in DOMAIN rx', NEW q \in Query, Carries(k, q)'
                PROVE  /\ req'[q] # NoRequest
                       /\ q \notin forwarded'
                       /\ \A j \in DOMAIN rx' : Carries(j, q)' => j = k
    BY DEF QueueInv
  <2>7. CASE q = r
    BY <2>3, <2>4, <2>5, <2>6, <2>7
  <2>8. CASE q # r
    BY <2>3, <2>6, <2>8 DEF QueueInv
  <2>. QED  BY <2>7, <2>8
<1>. QED
  BY <1>2, <1>3, <1>4, <1>5, <1>6, <1>7
  DEF Next, Loop, Environment, DNSFromNet, TimeoutEvent, CloseSession, Reply,
      ForwarderEnds, Tick, vars, bridgeVars, envVars

LEMMA NetInvStep ==
    ASSUME TypeOK, QueueInv, NetInv, [Next]_vars
    PROVE  NetInv'
<1>1. CASE DNSFromBridge
  <2>1. Head(rx).q \in Query /\ req[Head(rx).q] # NoRequest
    BY <1>1, HeadDns, TakeHead DEF DNSFromBridge, QueueInv, Carries, TypeOK
  <2>. QED  BY <1>1, <2>1 DEF DNSFromBridge, NetInv, envVars
<1>2. CASE DNSFromNet
  BY <1>2, TakeHead DEF DNSFromNet, NetInv, TypeOK
<1>3. ASSUME NEW s \in Session, NEW r \in Query, NEW i \in MsgId, Ask(s, r, i)
      PROVE  NetInv'
  <2>1. [from |-> s, id |-> i] # NoRequest
    BY NoRequestAssumption DEF Request
  <2>. QED  BY <1>3, <2>1 DEF Ask, NetInv, TypeOK
<1>4. ASSUME NEW q \in Query, Reply(q)
      PROVE  NetInv'
  BY <1>4, AppendLast DEF Reply, NetInv, TypeOK
<1>5. CASE UNCHANGED <<req, forwarded, fwdRx>>
  BY <1>5 DEF NetInv
<1>. QED
  BY <1>1, <1>2, <1>3, <1>4, <1>5
  DEF Next, Loop, Environment, Registration, TimeoutEvent, Shutdown, ForwarderGone,
      End, Launch, CloseSession, ForwarderEnds, Tick, vars, bridgeVars, envVars

(* Register puts a responder under its own session's client id. *)
LEMMA ClientsStep ==
    ASSUME TypeOK, ClientsInv, [Next]_vars
    PROVE  ClientsInv'
<1>1. ASSUME NEW cl \in [Client -> Session \cup {NoSession}], NEW t \in Table,
             EndIteration(cl, t),
             \A c \in Client : cl[c] # NoSession => clientOf[cl[c]] = c
      PROVE  ClientsInv'
  BY <1>1, EndIterationEffect DEF ClientsInv
<1>2. CASE Registration
  <2>. DEFINE s == Head(rx).session
              cl == [clients EXCEPT ![clientOf[s]] = s]
  <2>1. s \in Session /\ messages \in Table
    BY <1>2, HeadRegister DEF Registration, TypeOK
  <2>2. cl \in [Client -> Session \cup {NoSession}]
    BY <2>1 DEF TypeOK
  <2>3. \A c \in Client : cl[c] # NoSession => clientOf[cl[c]] = c
    BY <2>1 DEF ClientsInv, TypeOK
  <2>4. EndIteration(cl, messages)
    BY <1>2 DEF Registration
  <2>. QED  BY <1>1, <2>1, <2>2, <2>3, <2>4
<1>3. CASE Shutdown \/ ForwarderGone
  BY <1>3 DEF Shutdown, ForwarderGone, End, NoClients, ClientsInv
<1>4. CASE UNCHANGED clients
  BY <1>4 DEF ClientsInv
<1>5. CASE DNSFromBridge \/ DNSFromNet \/ TimeoutEvent
  <2>1. clients' = CleanupClients(clients)
    BY <1>5 DEF DNSFromBridge, DNSFromNet, TimeoutEvent, EndIteration
  <2>. QED  BY <2>1 DEF CleanupClients, ClientsInv
<1>. QED
  BY <1>2, <1>3, <1>4, <1>5
  DEF Next, Loop, Environment, Launch, CloseSession, Ask, Reply, ForwarderEnds, Tick,
      vars, bridgeVars, envVars

-----------------------------------------------------------------------------
(* The table and the deliveries.                                           *)

(* What an append to one session's queue changes. *)
LEMMA DeliveryEffect ==
    ASSUME got \in [Session -> Seq(Delivery)], NEW s \in Session, NEW d \in Delivery,
           got' = [got EXCEPT ![s] = Append(@, d)]
    PROVE  /\ \A r \in Session : \A k \in DOMAIN got'[r] :
                 \/ k \in DOMAIN got[r] /\ got'[r][k] = got[r][k]
                 \/ r = s /\ k = Len(got[s]) + 1 /\ got'[r][k] = d
           /\ Len(got[s]) + 1 \notin DOMAIN got[s]
<1>1. got[s] \in Seq(Delivery)
  OBVIOUS
<1>2. got'[s] = Append(got[s], d)
  OBVIOUS
<1>3. \A k \in DOMAIN got'[s] :
          \/ k \in DOMAIN got[s] /\ got'[s][k] = got[s][k]
          \/ k = Len(got[s]) + 1 /\ got'[s][k] = d
  BY <1>1, <1>2, AppendLast
<1>4. \A r \in Session : r # s => got'[r] = got[r]
  OBVIOUS
<1>5. Len(got[s]) + 1 \notin DOMAIN got[s]
  BY <1>1, LenProperties
<1>. QED  BY <1>3, <1>4, <1>5

LEMMA TableStep ==
    ASSUME TypeOK, QueueInv, NetInv, TableInv, MixUpNeedsSharedId, [Next]_vars
    PROVE  TableInv'
<1>1. ASSUME NEW cl \in [Client -> Session \cup {NoSession}], NEW t \in Table,
             EndIteration(cl, t),
             \A i \in MsgId : t[i] # NoEntry =>
                 /\ t[i].q \in forwarded'
                 /\ req'[t[i].q].id = i
                 /\ t[i].client = clientOf[req'[t[i].q].from]
                 /\ t[i].q \notin Answered'
      PROVE  TableInv'
  <2>1. Shrinks(t, messages')
    BY <1>1, EndIterationEffect
  <2>. QED  BY <1>1, <2>1 DEF TableInv, Shrinks
<1>2. clients \in [Client -> Session \cup {NoSession}] /\ messages \in Table
  BY DEF TypeOK
<1>3. CASE Registration
  <2>1. UNCHANGED <<req, forwarded, got>>
    BY <1>3 DEF Registration, envVars
  <2>2. messages' = Expire(messages)
    BY <1>3 DEF Registration, EndIteration
  <2>3. Shrinks(messages, messages')
    BY <1>2, <2>2, ExpireShrinks
  <2>. QED  BY <2>1, <2>3 DEF TableInv, Shrinks, Answered
<1>4. CASE DNSFromBridge
  <2>. DEFINE q == Head(rx).q
              t == Register(messages, Id(q), clientOf[req[q].from], q)
  <2>1. UNCHANGED <<req, got>> /\ forwarded \subseteq forwarded'
    BY <1>4 DEF DNSFromBridge, envVars
  <2>2. \A i \in MsgId : messages[i] # NoEntry =>
            /\ messages[i].q \in forwarded'
            /\ req'[messages[i].q].id = i
            /\ messages[i].client = clientOf[req'[messages[i].q].from]
            /\ messages[i].q \notin Answered'
    BY <2>1 DEF TableInv, Answered
  <2>3. CASE fwdUp
    <3>1. q \in Query /\ req[q] # NoRequest /\ q \notin forwarded
      BY <1>4, HeadDns, TakeHead DEF DNSFromBridge, QueueInv, Carries, TypeOK
    <3>2. t \in Table /\ Id(q) \in MsgId /\ clientOf[req[q].from] \in Client
      BY <1>4, <3>1, RequestStep
    <3>3. q \in forwarded' /\ EndIteration(clients, t)
      BY <1>4, <2>3 DEF DNSFromBridge
    <3>4. q \notin Answered
      BY <3>1 DEF Answered, MixUpNeedsSharedId
    <3>5. q \notin Answered'
      BY <2>1, <3>4 DEF Answered
    <3>6. \A i \in MsgId :
              \/ t[i] = messages[i]
              \/ /\ i = Id(q) /\ messages[i] = NoEntry
                 /\ t[i] = NewEntry(clientOf[req[q].from], q)
      BY ONLY <1>2, <3>1, <3>2, RegisterAdds
    <3>7. ASSUME NEW i \in MsgId, i = Id(q), t[i] = NewEntry(clientOf[req[q].from], q)
          PROVE  /\ t[i].q \in forwarded'
                 /\ req'[t[i].q].id = i
                 /\ t[i].client = clientOf[req'[t[i].q].from]
                 /\ t[i].q \notin Answered'
      <4>1. t[i].q = q /\ t[i].client = clientOf[req[q].from]
        BY <3>7 DEF NewEntry
      <4>2. req'[q].id = i /\ req' = req
        BY <2>1, <3>7 DEF Id
      <4>. HIDE DEF t, q
      <4>. QED  BY <3>3, <3>5, <4>1, <4>2
    <3>8. \A i \in MsgId : t[i] # NoEntry =>
              /\ t[i].q \in forwarded'
              /\ req'[t[i].q].id = i
              /\ t[i].client = clientOf[req'[t[i].q].from]
              /\ t[i].q \notin Answered'
      <4>. HIDE DEF t, q
      <4>. QED  BY <2>2, <3>6, <3>7
    <3>. HIDE DEF t
    <3>. QED  BY <1>1, <1>2, <3>2, <3>3, <3>8
  <2>4. CASE ~fwdUp
    <3>1. EndIteration(clients, messages)
      BY <1>4, <2>4 DEF DNSFromBridge
    <3>. QED  BY <1>1, <1>2, <2>2, <3>1
  <2>. QED  BY <2>3, <2>4
<1>5. CASE DNSFromNet
  <2>. DEFINE a == Head(fwdRx)
              i == Id(a)
              e == messages[i]
              t == Remove(messages, i)
  <2>1. i \in MsgId
    BY <1>5, RepliedId
  <2>2. /\ t \in Table /\ EndIteration(clients, t)
        /\ \/ got' = got
           \/ \E s \in Session : /\ e # NoEntry
                                 /\ got' = [got EXCEPT ![s] =
                                               Append(@, [for |-> e.q, reply |-> a])]
    BY <1>5, <2>1, NetStep
  <2>3. UNCHANGED <<req, forwarded>> /\ a \in Query
    BY <1>5, TakeHead DEF DNSFromNet, TypeOK
  <2>4. t[i] = NoEntry /\ \A j \in MsgId : t[j] # NoEntry => t[j] = messages[j]
    BY <1>2, <2>1, RemoveShrinks DEF Shrinks
  <2>5. \A q \in Query : q \in Answered' => q \in Answered \/ (e # NoEntry /\ q = e.q)
    <3>1. CASE got' = got
      BY <3>1 DEF Answered
    <3>2. CASE got' # got
      <4>1. PICK s \in Session :
                e # NoEntry /\ got' = [got EXCEPT ![s] = Append(@, [for |-> e.q, reply |-> a])]
        BY <2>2, <3>2
      <4>2. [for |-> e.q, reply |-> a] \in Delivery
        BY <1>2, <2>1, <2>3, <4>1 DEF Delivery, Table, Entry
      <4>. QED  BY <4>1, <4>2, DeliveryEffect DEF Answered, TypeOK
    <3>. QED  BY <3>1, <3>2
  <2>6. ASSUME NEW j \in MsgId, t[j] # NoEntry
        PROVE  /\ t[j].q \in forwarded'
               /\ req'[t[j].q].id = j
               /\ t[j].client = clientOf[req'[t[j].q].from]
               /\ t[j].q \notin Answered'
    <3>1. j # i /\ t[j] = messages[j] /\ messages[j] # NoEntry
      BY <2>4, <2>6
    <3>2. messages[j].q \in Query
      BY <1>2, <3>1 DEF Table, Entry
    <3>3. e # NoEntry => messages[j].q # e.q
      BY <2>1, <3>1 DEF TableInv
    <3>. HIDE DEF t, e, i
    <3>. QED  BY <2>3, <2>5, <3>1, <3>2, <3>3 DEF TableInv
  <2>. HIDE DEF t
  <2>. QED  BY <1>1, <1>2, <2>2, <2>6
<1>6. CASE TimeoutEvent
  <2>1. UNCHANGED <<req, forwarded, got>> /\ Shrinks(messages, messages')
    BY <1>2, <1>6, ExpireShrinks DEF TimeoutEvent, EndIteration, envVars
  <2>. QED  BY <2>1 DEF TableInv, Shrinks, Answered
<1>7. CASE Shutdown \/ ForwarderGone
  BY <1>7 DEF Shutdown, ForwarderGone, End, EmptyTable, TableInv
<1>8. ASSUME NEW s \in Session, NEW r \in Query, NEW i \in MsgId, Ask(s, r, i)
      PROVE  TableInv'
  <2>1. UNCHANGED <<messages, forwarded, got>> /\ req[r] = NoRequest
        /\ \A q \in Query : q # r => req'[q] = req[q]
    BY <1>8 DEF Ask, TypeOK
  <2>2. \A q \in forwarded : req'[q] = req[q]
    BY <2>1 DEF NetInv, TypeOK
  <2>. QED  BY <2>1, <2>2 DEF TableInv, Answered
<1>9. CASE Tick
  <2>1. UNCHANGED <<req, forwarded, got>> /\ messages' = Elapse(messages)
    BY <1>9 DEF Tick, envVars
  <2>. QED  BY <1>2, <2>1, ElapseAges DEF TableInv, Answered
<1>10. CASE UNCHANGED <<messages, req, forwarded, got>>
  BY <1>10 DEF TableInv, Answered
<1>. QED
  BY <1>3, <1>4, <1>5, <1>6, <1>7, <1>8, <1>9, <1>10
  DEF Next, Loop, Environment, Launch, CloseSession, Reply, ForwarderEnds,
      vars, bridgeVars, envVars

(* Both requests of a delivery held, or hold, the same id.                  *)
LEMMA MixUpStep ==
    ASSUME TypeOK, QueueInv, NetInv, ClientsInv, TableInv, MixUpNeedsSharedId,
           [Next]_vars
    PROVE  MixUpNeedsSharedId'
<1>1. CASE DNSFromNet
  <2>. DEFINE a == Head(fwdRx)
              i == Id(a)
              e == messages[i]
  <2>1. a \in forwarded /\ i \in MsgId /\ req[a].id = i
    BY <1>1, RepliedId DEF Id
  <2>2. UNCHANGED <<req, forwarded>>
    BY <1>1 DEF DNSFromNet
  <2>3. CASE got' = got
    BY <2>2, <2>3 DEF MixUpNeedsSharedId
  <2>4. CASE got' # got
    <3>1. PICK s \in Session :
              /\ e # NoEntry /\ e.client \in Client /\ s = clients[e.client]
              /\ got' = [got EXCEPT ![s] = Append(@, [for |-> e.q, reply |-> a])]
      BY <1>1, <2>1, <2>4, NetStep
    <3>2. e.q \in forwarded /\ req[e.q].id = i /\ e.client = clientOf[req[e.q].from]
      BY <2>1, <3>1 DEF TableInv
    <3>3. clientOf[s] = e.client
      BY <3>1, NoSessionAssumption DEF ClientsInv
    <3>4. [for |-> e.q, reply |-> a] \in Delivery
      BY <2>1, <3>2 DEF Delivery, TypeOK
    <3>5. /\ s \in Session /\ got \in [Session -> Seq(Delivery)]
          /\ got' = [got EXCEPT ![s] = Append(@, [for |-> e.q, reply |-> a])]
      BY <3>1 DEF TypeOK
    <3>6. \A r \in Session : \A k \in DOMAIN got'[r] :
              \/ k \in DOMAIN got[r] /\ got'[r][k] = got[r][k]
              \/ r = s /\ k = Len(got[s]) + 1 /\ got'[r][k] = [for |-> e.q, reply |-> a]
      BY ONLY <3>4, <3>5, DeliveryEffect
    <3>7. ASSUME NEW r \in Session, NEW k \in DOMAIN got'[r]
          PROVE  /\ {got'[r][k].for, got'[r][k].reply} \subseteq forwarded'
                 /\ req'[got'[r][k].for].id = req'[got'[r][k].reply].id
                 /\ clientOf[req'[got'[r][k].for].from] = clientOf[r]
      <4>1. CASE k \in DOMAIN got[r] /\ got'[r][k] = got[r][k]
        BY <2>2, <4>1 DEF MixUpNeedsSharedId
      <4>2. CASE r = s /\ got'[r][k] = [for |-> e.q, reply |-> a]
        <5>1. got'[r][k].for = e.q /\ got'[r][k].reply = a
          BY <4>2
        <5>. HIDE DEF a, e
        <5>. QED  BY <2>1, <2>2, <3>2, <3>3, <4>2, <5>1
      <4>. QED  BY <3>6, <4>1, <4>2
    <3>. QED  BY <3>7 DEF MixUpNeedsSharedId
  <2>. QED  BY <2>3, <2>4
<1>2. CASE DNSFromBridge
  BY <1>2 DEF DNSFromBridge, MixUpNeedsSharedId, envVars
<1>3. ASSUME NEW s \in Session, NEW r \in Query, NEW i \in MsgId, Ask(s, r, i)
      PROVE  MixUpNeedsSharedId'
  BY <1>3 DEF Ask, MixUpNeedsSharedId, NetInv, TypeOK
<1>4. CASE UNCHANGED <<req, forwarded, got>>
  BY <1>4 DEF MixUpNeedsSharedId
<1>. QED
  BY <1>1, <1>2, <1>3, <1>4
  DEF Next, Loop, Environment, Registration, TimeoutEvent, Shutdown, ForwarderGone,
      End, Launch, CloseSession, Reply, ForwarderEnds, Tick, vars, bridgeVars, envVars

(* The entry a reply takes off the table was not answered before (TableInv). *)
LEMMA AnsweredOnceStep ==
    ASSUME TypeOK, NetInv, TableInv, AnsweredOnce, [Next]_vars
    PROVE  AnsweredOnce'
<1>1. CASE DNSFromNet /\ got' # got
  <2>. DEFINE a == Head(fwdRx)
              e == messages[Id(a)]
  <2>1. a \in Query /\ Id(a) \in MsgId
    BY <1>1, RepliedId DEF TypeOK
  <2>2. PICK s \in Session :
            /\ e # NoEntry
            /\ got' = [got EXCEPT ![s] = Append(@, [for |-> e.q, reply |-> a])]
    BY <1>1, <2>1, NetStep
  <2>3. e.q \in Query /\ e.q \notin Answered
    BY <2>1, <2>2 DEF TableInv, TypeOK
  <2>4. [for |-> e.q, reply |-> a] \in Delivery
    BY <2>1, <2>3 DEF Delivery
  <2>5. \A r \in Session : \A k \in DOMAIN got'[r] :
            \/ k \in DOMAIN got[r] /\ got'[r][k] = got[r][k]
            \/ r = s /\ k = Len(got[s]) + 1 /\ got'[r][k] = [for |-> e.q, reply |-> a]
    BY <2>2, <2>4, DeliveryEffect DEF TypeOK
  <2>6. \A r \in Session : \A k \in DOMAIN got[r] : got[r][k].for # e.q
    BY <2>3 DEF Answered
  <2>. QED  BY <2>5, <2>6 DEF AnsweredOnce, Relay!AnsweredOnce
<1>2. CASE got' = got
  BY <1>2 DEF AnsweredOnce, Relay!AnsweredOnce
<1>. QED
  BY <1>1, <1>2
  DEF Next, Loop, Environment, Registration, DNSFromBridge, TimeoutEvent, Shutdown,
      ForwarderGone, End, Launch, CloseSession, Ask, Reply, ForwarderEnds, Tick,
      vars, bridgeVars, envVars

-----------------------------------------------------------------------------
(* Age of the entries.                                                     *)

(* Every iteration leaves entries younger than Timeout and idle at 0; a tick *)
(* adds one to both sides.                                                   *)
LEMMA AgeStep ==
    ASSUME TypeOK, QueueInv, NetInv, AgeInv, [Next]_vars
    PROVE  AgeInv'
<1>1. ASSUME idle' = 0,
             \A i \in MsgId : messages'[i] # NoEntry => messages'[i].age < Timeout
      PROVE  AgeInv'
  BY <1>1, TimeoutAssumption, TypeStep DEF AgeInv, TypeOK, Table, Entry
<1>2. ASSUME NEW cl \in [Client -> Session \cup {NoSession}], NEW t \in Table,
             EndIteration(cl, t)
      PROVE  AgeInv'
  BY <1>1, <1>2, EndIterationEffect
<1>3. clients \in [Client -> Session \cup {NoSession}] /\ messages \in Table
  BY DEF TypeOK
<1>4. CASE Registration
  <2>1. Head(rx).session \in Session
    BY <1>4, HeadRegister DEF Registration
  <2>2. [clients EXCEPT ![clientOf[Head(rx).session]] = Head(rx).session]
            \in [Client -> Session \cup {NoSession}]
    BY <1>3, <2>1
  <2>. QED  BY <1>2, <1>3, <1>4, <2>2 DEF Registration
<1>5. CASE DNSFromBridge
  <2>. DEFINE q == Head(rx).q
  <2>1. q \in Query /\ req[q] # NoRequest
    BY <1>5, HeadDns, TakeHead DEF DNSFromBridge, QueueInv, Carries, TypeOK
  <2>2. Register(messages, Id(q), clientOf[req[q].from], q) \in Table
    BY <1>5, <2>1, RequestStep
  <2>3. \E t \in Table : EndIteration(clients, t)
    BY <1>3, <1>5, <2>2 DEF DNSFromBridge
  <2>. QED  BY <1>2, <1>3, <2>3
<1>6. CASE DNSFromNet
  <2>1. \E t \in Table : EndIteration(clients, t)
    BY <1>6, RepliedId, NetStep
  <2>. QED  BY <1>2, <1>3, <2>1
<1>7. CASE TimeoutEvent
  BY <1>2, <1>3, <1>7 DEF TimeoutEvent
<1>8. CASE Shutdown \/ ForwarderGone
  BY <1>1, <1>8 DEF Shutdown, ForwarderGone, End, EmptyTable
<1>9. CASE Tick
  <2>1. ASSUME NEW i \in MsgId, messages'[i] # NoEntry
        PROVE  messages'[i].age < Timeout + idle'
    <3>1. messages[i] # NoEntry /\ messages'[i].age = messages[i].age + 1
      BY <1>3, <1>9, <2>1, ElapseAges DEF Tick
    <3>2. messages[i].age \in Nat /\ messages[i].age < Timeout + idle
      BY <1>3, <3>1 DEF AgeInv, Table, Entry
    <3>3. idle' = idle + 1 /\ idle \in Nat
      BY <1>9, SweepAssumption DEF Tick, TypeOK
    <3>. QED  BY <3>1, <3>2, <3>3, TimeoutAssumption
  <2>. QED  BY <2>1 DEF AgeInv
<1>10. CASE UNCHANGED <<messages, idle>>
  BY <1>10 DEF AgeInv
<1>. QED
  BY <1>4, <1>5, <1>6, <1>7, <1>8, <1>9, <1>10
  DEF Next, Loop, Environment, Launch, CloseSession, Ask, Reply, ForwarderEnds,
      vars, bridgeVars, envVars

-----------------------------------------------------------------------------
(* Sessions and their responders.                                          *)

LEMMA DownStep ==
    ASSUME TypeOK, DownInv, [Next]_vars
    PROVE  DownInv'
<1>1. CASE UNCHANGED vars
  BY <1>1 DEF DownInv, vars, bridgeVars
<1>2. CASE Shutdown \/ ForwarderGone
  BY <1>2 DEF Shutdown, ForwarderGone, End, DownInv
<1>3. CASE up /\ up' = up
  BY <1>3 DEF DownInv
<1>. QED
  BY <1>1, <1>2, <1>3
  DEF Next, Loop, Environment, Registration, DNSFromBridge, DNSFromNet, TimeoutEvent,
      Launch, CloseSession, Ask, Reply, ForwarderEnds, Tick, vars, bridgeVars

LEMMA LaunchStep ==
    ASSUME TypeOK, LaunchInv, [Next]_vars
    PROVE  LaunchInv'
<1>. DEFINE Known(s) == session[s] # "new"
<1>1. ASSUME NEW s \in Session, Known(s)
      PROVE  session'[s] # "new"
  BY <1>1
  DEF TypeOK, Next, Loop, Environment, Registration, DNSFromBridge, DNSFromNet,
      TimeoutEvent, Shutdown, ForwarderGone, End, Launch, CloseSession, Ask, Reply,
      ForwarderEnds, Tick, vars, bridgeVars, envVars
<1>2. \A s \in Session : \A k \in DOMAIN rx' : Registers(k, s)' => session'[s] # "new"
  <2>1. CASE rx' = rx
    BY <1>1, <2>1 DEF LaunchInv, Registers
  <2>2. CASE rx # <<>> /\ rx' = Tail(rx)
    BY <1>1, <2>2, TakeHead DEF LaunchInv, Registers, TypeOK
  <2>3. CASE rx' = <<>>
    BY <2>3
  <2>4. ASSUME NEW t \in Session, Launch(t)
        PROVE  \A s \in Session : \A k \in DOMAIN rx' :
                   Registers(k, s)' => session'[s] # "new"
    <3>1. [type |-> "Register", session |-> t] \in RegisterMsg \cup DnsMsg
      BY DEF RegisterMsg
    <3>2. session'[t] = "open"
      BY <2>4 DEF Launch, TypeOK
    <3>3. \A s \in Session : \A k \in DOMAIN rx' : Registers(k, s)' =>
              s = t \/ (k \in DOMAIN rx /\ Registers(k, s))
      BY <2>4, <3>1, AppendLast DEF Launch, Registers, TypeOK
    <3>. QED  BY <1>1, <3>2, <3>3 DEF LaunchInv
  <2>5. ASSUME NEW t \in Session, NEW q \in Query, NEW i \in MsgId, Ask(t, q, i)
        PROVE  \A s \in Session : \A k \in DOMAIN rx' :
                   Registers(k, s)' => session'[s] # "new"
    <3>1. [type |-> "Dns", q |-> q] \in RegisterMsg \cup DnsMsg
      BY DEF DnsMsg
    <3>2. \A s \in Session : \A k \in DOMAIN rx' : Registers(k, s)' =>
              k \in DOMAIN rx /\ Registers(k, s)
      BY <2>5, <3>1, AppendLast DEF Ask, Registers, TypeOK
    <3>. QED  BY <1>1, <3>2 DEF LaunchInv
  <2>. QED
    BY <2>1, <2>2, <2>3, <2>4, <2>5
    DEF Next, Loop, Environment, Registration, DNSFromBridge, DNSFromNet, TimeoutEvent,
        Shutdown, ForwarderGone, End, CloseSession, Reply, ForwarderEnds, Tick,
        vars, bridgeVars, envVars
<1>3. \A c \in Client : clients'[c] # NoSession => session'[clients'[c]] # "new"
  <2>1. CASE Registration
    <3>. DEFINE s == Head(rx).session
    <3>1. s \in Session /\ session[s] # "new"
      BY <2>1, HeadRegister, TakeHead DEF Registration, LaunchInv, Registers, TypeOK
    <3>2. clients' = CleanupClients([clients EXCEPT ![clientOf[s]] = s])
      BY <2>1 DEF Registration, EndIteration
    <3>3. \A c \in Client : clients'[c] # NoSession => clients'[c] \in {s, clients[c]}
      BY <3>2 DEF CleanupClients, TypeOK
    <3>4. \A c \in Client : clients[c] # NoSession => clients[c] \in Session
      BY DEF TypeOK
    <3>. QED  BY <1>1, <3>1, <3>3, <3>4 DEF LaunchInv
  <2>2. CASE clients' \in {clients, CleanupClients(clients), NoClients}
    <3>1. \A c \in Client : clients'[c] # NoSession => clients'[c] = clients[c]
      BY <2>2 DEF CleanupClients, NoClients
    <3>2. \A c \in Client : clients[c] # NoSession => clients[c] \in Session
      BY DEF TypeOK
    <3>. QED  BY <1>1, <3>1, <3>2 DEF LaunchInv
  <2>. QED
    BY <2>1, <2>2
    DEF Next, Loop, Environment, DNSFromBridge, DNSFromNet, TimeoutEvent, Shutdown,
        ForwarderGone, End, EndIteration, Launch, CloseSession, Ask, Reply,
        ForwarderEnds, Tick, vars, bridgeVars, envVars
<1>4. \A q \in Query : req'[q] # NoRequest => session'[req'[q].from] # "new"
  <2>1. ASSUME NEW t \in Session, NEW q \in Query, NEW i \in MsgId, Ask(t, q, i)
        PROVE  \A r \in Query : req'[r] # NoRequest => session'[req'[r].from] # "new"
    BY <2>1 DEF Ask, LaunchInv, TypeOK
  <2>2. CASE req' = req
    BY <1>1, <2>2 DEF LaunchInv, TypeOK, Request
  <2>. QED
    BY <2>1, <2>2
    DEF Next, Loop, Environment, Registration, DNSFromBridge, DNSFromNet, TimeoutEvent,
        Shutdown, ForwarderGone, End, Launch, CloseSession, Reply, ForwarderEnds, Tick,
        vars, bridgeVars, envVars
<1>. QED  BY <1>2, <1>3, <1>4 DEF LaunchInv

(* The messages behind the head move up by one. *)
LEMMA HeadTakesOver ==
    ASSUME TypeOK, NEW s \in Session, rx # <<>>, rx' = Tail(rx)
    PROVE  \A j \in DOMAIN rx' : j \in Nat /\ j + 1 \in DOMAIN rx
              /\ (TakesOver(j, s)' => TakesOver(j + 1, s))
<1>1. \A j \in DOMAIN rx' : j \in Nat /\ j + 1 \in DOMAIN rx /\ rx'[j] = rx[j + 1]
  BY TakeHead DEF TypeOK
<1>. QED  BY <1>1 DEF TakesOver, Registers

(* A session that awaits its registration keeps awaiting it while nothing is *)
(* registered that was not, and the queue loses a head that is none of its   *)
(* messages; or the head is its Register, and no later one replaces it.      *)
LEMMA AwaitsAfterHead ==
    ASSUME TypeOK, NEW s \in Session, Awaits(s), rx # <<>>,
           rx' = Tail(rx), req' = req,
           \A q \in Registered(messages') : q \in Registered(messages) \/ Carries(1, q),
           Registered(messages') \subseteq Query
    PROVE  \/ Awaits(s)'
           \/ Registers(1, s) /\ \A j \in DOMAIN rx' : ~TakesOver(j, s)'
<1>1. PICK k \in DOMAIN rx :
          /\ Registers(k, s)
          /\ \A j \in DOMAIN rx : TakesOver(j, s) => j <= k
          /\ \A j \in DOMAIN rx : \A q \in Query :
                 Carries(j, q) /\ req[q].from = s => k < j
          /\ \A q \in Registered(messages) : req[q].from # s
  BY DEF Awaits
<1>2. k \in Nat /\ 1 \in DOMAIN rx
  BY <1>1, LenProperties, TakeHead DEF TypeOK
<1>3. \A j \in DOMAIN rx' : j \in Nat /\ j > 0 /\ (TakesOver(j, s)' => j + 1 <= k)
  BY <1>1, HeadTakesOver, TakeHead, LenProperties DEF TypeOK
<1>4. CASE k = 1
  BY <1>1, <1>3, <1>4
<1>5. CASE k # 1
  <2>1. k - 1 \in DOMAIN rx' /\ Registers(k - 1, s)'
    BY <1>1, <1>2, <1>5, TakeHead DEF TypeOK, Registers
  <2>2. \A j \in DOMAIN rx' : TakesOver(j, s)' => j <= k - 1
    BY <1>2, <1>3
  <2>3. ASSUME NEW j \in DOMAIN rx', NEW q \in Query, Carries(j, q)', req'[q].from = s
        PROVE  k - 1 < j
    <3>1. j \in Nat /\ j + 1 \in DOMAIN rx /\ Carries(j + 1, q)
      BY <2>3, TakeHead DEF TypeOK, Carries
    <3>2. k < j + 1
      BY <1>1, <2>3, <3>1
    <3>. QED  BY <1>2, <3>1, <3>2
  <2>4. ASSUME NEW q \in Registered(messages')
        PROVE  req'[q].from # s
    <3>1. CASE q \in Registered(messages)
      BY <1>1, <3>1
    <3>2. CASE Carries(1, q)
      BY <1>1, <1>2, <2>4, <3>2, LenProperties DEF TypeOK
    <3>. QED  BY <2>4, <3>1, <3>2
  <2>. QED  BY <2>1, <2>2, <2>3, <2>4 DEF Awaits
<1>. QED  BY <1>4, <1>5

(* Iterations that leave the queue alone and only drop entries. *)
LEMMA AwaitsKept ==
    ASSUME NEW s \in Session, Awaits(s), rx' = rx, req' = req,
           Registered(messages') \subseteq Registered(messages)
    PROVE  Awaits(s)'
  BY DEF Awaits, TakesOver, Registers, Carries

LEMMA RoutedKept ==
    ASSUME NEW s \in Session, Routed(s), rx' = rx,
           clients'[clientOf[s]] = clients[clientOf[s]]
    PROVE  Routed(s)'
  BY DEF Routed, TakesOver, Registers

LEMMA RegisteredTyped ==
    ASSUME NEW t \in Table
    PROVE  Registered(t) \subseteq Query
  BY DEF Registered, Table, Entry

(* cleanup_clients leaves an open session its responder. *)
LEMMA CleanupSpares ==
    ASSUME NEW s \in Session, session[s] = "open", clients[clientOf[s]] = s,
           clients' = CleanupClients(clients)
    PROVE  clients'[clientOf[s]] = s
  BY ClientOfAssumption DEF CleanupClients, Closed

LEMMA LatestStep ==
    ASSUME TypeOK, LatestInv, [Next]_vars
    PROVE  LatestInv'
<1>1. ASSUME NEW u \in Session, Launch(u)
      PROVE  LatestInv'
  BY <1>1, ClientOfAssumption DEF Launch, LatestInv, TypeOK
<1>2. CASE UNCHANGED latest
  BY <1>2 DEF LatestInv
<1>. QED
  BY <1>1, <1>2
  DEF Next, Loop, Environment, Registration, DNSFromBridge, DNSFromNet, TimeoutEvent,
      Shutdown, ForwarderGone, End, CloseSession, Ask, Reply, ForwarderEnds, Tick,
      vars, bridgeVars, envVars

(* Register(s) is ahead of the requests of s and behind the Registers of its *)
(* predecessors; only its own end, or a successor's, takes a responder away. *)
LEMMA RouteStep ==
    ASSUME TypeOK, TypeOK', QueueInv, NetInv, ClientsInv, TableInv, LaunchInv,
           RouteInv, [Next]_vars
    PROVE  RouteInv'
<1>. USE DEF RouteInv
<1>1. clients \in [Client -> Session \cup {NoSession}] /\ messages \in Table
      /\ session \in [Session -> {"new", "open", "closed"}]
      /\ latest \in [Client -> Session \cup {NoSession}]
  BY DEF TypeOK
<1>2. CASE Registration
  <2>. DEFINE t == Head(rx).session
              cl == [clients EXCEPT ![clientOf[t]] = t]
  <2>1. t \in Session /\ rx # <<>> /\ rx[1] = [type |-> "Register", session |-> t]
        /\ 1 \in DOMAIN rx
    BY <1>2, HeadRegister, TakeHead DEF Registration, TypeOK
  <2>2. cl \in [Client -> Session \cup {NoSession}] /\ EndIteration(cl, messages)
    BY <1>1, <1>2, <2>1 DEF Registration
  <2>3. /\ Shrinks(messages, messages')
        /\ \A c \in Client : cl[c] # NoSession /\ session[cl[c]] # "closed" =>
               clients'[c] = cl[c]
    BY <1>1, <2>2, EndIterationEffect
  <2>4. UNCHANGED <<session, latest, req>> /\ rx' = Tail(rx) /\ up
    BY <1>2 DEF Registration, envVars
  <2>5. Registered(messages') \subseteq Registered(messages)
    BY <2>3, ShrinkingRegistered
  <2>6. Registered(messages') \subseteq Query
    BY <1>1, <2>5, RegisteredTyped
  <2>. SUFFICES ASSUME NEW s \in Session, session[s] = "open", IsLatest(s)
                PROVE  Routed(s)' \/ Awaits(s)'
    BY <2>4 DEF IsLatest
  <2>7. clientOf[s] \in Client /\ s # NoSession
    BY ClientOfAssumption, NoSessionAssumption
  <2>8. CASE Routed(s)
    <3>1. clientOf[t] # clientOf[s]
      BY <2>1, <2>8 DEF Routed, TakesOver, Registers
    <3>2. cl[clientOf[s]] = s
      BY <1>1, <2>7, <2>8, <3>1 DEF Routed
    <3>. HIDE DEF cl
    <3>3. clients'[clientOf[s]] = s
      BY <2>3, <2>7, <3>2
    <3>. QED  BY <2>1, <2>4, <2>8, <3>3, HeadTakesOver DEF Routed
  <2>9. CASE Awaits(s)
    <3>1. CASE Registers(1, s) /\ \A j \in DOMAIN rx' : ~TakesOver(j, s)'
      <4>1. s = t
        BY <2>1, <3>1 DEF Registers
      <4>2. cl[clientOf[s]] = s
        BY <1>1, <2>7, <4>1
      <4>. HIDE DEF cl
      <4>3. clients'[clientOf[s]] = s
        BY <2>3, <2>7, <4>2
      <4>. QED  BY <3>1, <4>3 DEF Routed
    <3>. QED  BY <2>1, <2>4, <2>5, <2>6, <2>9, <3>1, AwaitsAfterHead
  <2>. QED  BY <1>2, <2>4, <2>8, <2>9
<1>3. CASE DNSFromBridge
  <2>. DEFINE q == Head(rx).q
  <2>1. q \in Query /\ rx # <<>> /\ rx[1] = [type |-> "Dns", q |-> q]
    BY <1>3, HeadDns DEF DNSFromBridge
  <2>2. req[q] # NoRequest
    BY <2>1, TakeHead DEF QueueInv, Carries, TypeOK
  <2>3. UNCHANGED <<session, latest, req>> /\ rx' = Tail(rx) /\ up
    BY <1>3 DEF DNSFromBridge, envVars
  <2>4. clients' = CleanupClients(clients)
    BY <1>3 DEF DNSFromBridge, EndIteration
  <2>5. \A r \in Registered(messages') : r \in Registered(messages) \/ r = q
    <3>1. PICK t \in {messages, Register(messages, Id(q), clientOf[req[q].from], q)} :
              messages' = Expire(t)
      BY <1>3 DEF DNSFromBridge, EndIteration
    <3>2. Id(q) \in MsgId /\ clientOf[req[q].from] \in Client
          /\ Register(messages, Id(q), clientOf[req[q].from], q) \in Table
      BY <1>3, <2>1, <2>2, RequestStep
    <3>3. t \in Table
      BY <1>1, <3>1, <3>2
    <3>4. Registered(messages') \subseteq Registered(t)
      BY <3>1, <3>3, ExpireShrinks, ShrinkingRegistered
    <3>5. \A i \in MsgId : t[i] = messages[i] \/ t[i] = NewEntry(clientOf[req[q].from], q)
      BY <1>1, <2>1, <3>1, <3>2, RegisterAdds
    <3>6. NewEntry(clientOf[req[q].from], q).q = q
      BY DEF NewEntry
    <3>7. \A r \in Registered(t) : r \in Registered(messages) \/ r = q
      BY <3>5, <3>6 DEF Registered
    <3>. QED  BY <3>4, <3>7
  <2>6. Registered(messages') \subseteq Query
    BY RegisteredTyped DEF TypeOK
  <2>. SUFFICES ASSUME NEW s \in Session, session[s] = "open", IsLatest(s)
                PROVE  Routed(s)' \/ Awaits(s)'
    BY <2>3 DEF IsLatest
  <2>7. CASE Routed(s)
    BY <2>1, <2>3, <2>4, <2>7, CleanupSpares, HeadTakesOver DEF Routed
  <2>8. CASE Awaits(s)
    <3>1. ~Registers(1, s) /\ Carries(1, q)
      BY <2>1 DEF Registers, Carries
    <3>2. \A r \in Registered(messages') : r \in Registered(messages) \/ Carries(1, r)
      BY <2>5, <3>1
    <3>. QED  BY <2>1, <2>3, <2>6, <2>8, <3>1, <3>2, AwaitsAfterHead
  <2>. QED  BY <2>3, <2>7, <2>8
<1>4. CASE DNSFromNet \/ TimeoutEvent
  <2>1. UNCHANGED <<session, latest, req, rx>> /\ up
    BY <1>4 DEF DNSFromNet, TimeoutEvent, envVars
  <2>2. clients' = CleanupClients(clients)
    BY <1>4 DEF DNSFromNet, TimeoutEvent, EndIteration
  <2>3. Registered(messages') \subseteq Registered(messages)
    <3>1. CASE DNSFromNet
      <4>1. /\ Remove(messages, Id(Head(fwdRx))) \in Table
            /\ Shrinks(messages, Remove(messages, Id(Head(fwdRx))))
        BY <1>1, <3>1, RepliedId, RemoveShrinks
      <4>2. messages' = Expire(Remove(messages, Id(Head(fwdRx))))
        BY <3>1 DEF DNSFromNet, EndIteration
      <4>3. Shrinks(messages, messages')
        BY <4>1, <4>2, ExpireShrinks DEF Shrinks
      <4>. QED  BY <4>3, ShrinkingRegistered
    <3>2. CASE TimeoutEvent
      <4>1. Shrinks(messages, messages')
        BY <1>1, <3>2, ExpireShrinks DEF TimeoutEvent, EndIteration
      <4>. QED  BY <4>1, ShrinkingRegistered
    <3>. QED  BY <1>4, <3>1, <3>2
  <2>. SUFFICES ASSUME NEW s \in Session, session[s] = "open", IsLatest(s)
                PROVE  Routed(s)' \/ Awaits(s)'
    BY <2>1 DEF IsLatest
  <2>4. CASE Routed(s)
    BY <2>1, <2>2, <2>4, CleanupSpares, RoutedKept DEF Routed
  <2>5. CASE Awaits(s)
    BY <2>1, <2>3, <2>5, AwaitsKept
  <2>. QED  BY <2>1, <2>4, <2>5
<1>5. CASE Shutdown \/ ForwarderGone
  BY <1>5 DEF Shutdown, ForwarderGone, End
<1>6. ASSUME NEW u \in Session, Launch(u)
      PROVE  RouteInv'
  <2>1. [type |-> "Register", session |-> u] \in RegisterMsg \cup DnsMsg
    BY DEF RegisterMsg
  <2>2. /\ Len(rx) + 1 \in DOMAIN rx'
        /\ rx'[Len(rx) + 1] = [type |-> "Register", session |-> u]
        /\ \A k \in DOMAIN rx : k \in Nat /\ k <= Len(rx)
              /\ k \in DOMAIN rx' /\ rx'[k] = rx[k]
        /\ \A k \in DOMAIN rx' : k = Len(rx) + 1 \/ k \in DOMAIN rx
    BY <1>6, <2>1, AppendLast DEF Launch, TypeOK
  <2>3. UNCHANGED <<req, messages, clients, up>> /\ up /\ session[u] = "new"
        /\ session' = [session EXCEPT ![u] = "open"]
        /\ latest' = [latest EXCEPT ![clientOf[u]] = u]
    BY <1>6 DEF Launch
  <2>4. \A j \in DOMAIN rx' : \A q \in Query : Carries(j, q)' =>
            j \in DOMAIN rx /\ Carries(j, q)
    BY <2>2 DEF Carries
  <2>. SUFFICES ASSUME NEW s \in Session, session'[s] = "open", IsLatest(s)'
                PROVE  Routed(s)' \/ Awaits(s)'
    OBVIOUS
  <2>5. CASE s = u
    <3>1. \A q \in Query : req[q] # NoRequest => req[q].from # s
      BY <2>3, <2>5 DEF LaunchInv
    <3>2. \A j \in DOMAIN rx' : \A q \in Query : Carries(j, q)' => req'[q].from # s
      BY <2>3, <2>4, <3>1 DEF QueueInv
    <3>3. \A q \in Registered(messages) : q \in Query /\ req[q] # NoRequest
      BY <1>1, RegisteredTyped DEF Registered, TableInv, NetInv
    <3>4. \A q \in Registered(messages') : req'[q].from # s
      BY <2>3, <3>1, <3>3
    <3>5. PICK k \in DOMAIN rx' : k = Len(rx) + 1 /\ rx'[k] = [type |-> "Register", session |-> s]
      BY <2>2, <2>5
    <3>6. Len(rx) \in Nat
      BY LenProperties DEF TypeOK
    <3>7. \A j \in DOMAIN rx' : j <= k
      BY <2>2, <3>5, <3>6
    <3>8. Registers(k, s)'
      BY <3>5 DEF Registers
    <3>. QED  BY <3>2, <3>4, <3>7, <3>8 DEF Awaits
  <2>6. CASE s # u
    <3>1. clientOf[u] # clientOf[s] /\ session[s] = "open" /\ IsLatest(s)
      BY <1>1, <2>3, <2>6, ClientOfAssumption DEF IsLatest
    <3>2. \A j \in DOMAIN rx' : TakesOver(j, s)' => j \in DOMAIN rx /\ TakesOver(j, s)
      BY <2>2, <3>1 DEF TakesOver, Registers
    <3>3. CASE Awaits(s)
      BY <2>2, <2>3, <2>4, <3>2, <3>3 DEF Awaits, Registers
    <3>4. CASE Routed(s)
      BY <2>3, <3>2, <3>4 DEF Routed
    <3>. QED  BY <2>3, <3>1, <3>3, <3>4
  <2>. QED  BY <2>5, <2>6
<1>7. ASSUME NEW u \in Session, CloseSession(u)
      PROVE  RouteInv'
  <2>1. UNCHANGED <<rx, req, messages, clients, latest, up>> /\ up
        /\ session' = [session EXCEPT ![u] = "closed"]
    BY <1>7 DEF CloseSession, bridgeVars
  <2>. SUFFICES ASSUME NEW s \in Session, session'[s] = "open", IsLatest(s)'
                PROVE  Routed(s)' \/ Awaits(s)'
    OBVIOUS
  <2>2. session[s] = "open" /\ IsLatest(s)
    BY <1>1, <2>1 DEF IsLatest
  <2>3. CASE Awaits(s)
    BY <2>1, <2>3, AwaitsKept
  <2>4. CASE Routed(s)
    BY <2>1, <2>4, RoutedKept
  <2>. QED  BY <2>1, <2>2, <2>3, <2>4
<1>8. ASSUME NEW u \in Session, NEW r \in Query, NEW i \in MsgId, Ask(u, r, i)
      PROVE  RouteInv'
  <2>1. [type |-> "Dns", q |-> r] \in RegisterMsg \cup DnsMsg
    BY DEF DnsMsg
  <2>2. /\ rx'[Len(rx) + 1] = [type |-> "Dns", q |-> r]
        /\ \A k \in DOMAIN rx : k \in Nat /\ k < Len(rx) + 1
              /\ k \in DOMAIN rx' /\ rx'[k] = rx[k]
        /\ \A k \in DOMAIN rx' : k = Len(rx) + 1 \/ k \in DOMAIN rx
    BY <1>8, <2>1, AppendLast, LenProperties DEF Ask, TypeOK
  <2>3. UNCHANGED <<session, latest, messages, clients, up>> /\ up
        /\ \A q \in Query : q # r => req'[q] = req[q]
    BY <1>8 DEF Ask, TypeOK
  <2>4. \A k \in DOMAIN rx : ~Carries(k, r)
    BY <1>8 DEF Ask, QueueInv
  <2>5. \A q \in Registered(messages) : q \in Query /\ q # r
    BY <1>1, <1>8, RegisteredTyped DEF Ask, Registered, TableInv, NetInv
  <2>. SUFFICES ASSUME NEW s \in Session, session[s] = "open", IsLatest(s)
                PROVE  Routed(s)' \/ Awaits(s)'
    BY <2>3 DEF IsLatest
  <2>6. \A j \in DOMAIN rx' : TakesOver(j, s)' => j \in DOMAIN rx /\ TakesOver(j, s)
    BY <2>2 DEF TakesOver, Registers
  <2>7. CASE Awaits(s)
    <3>1. PICK k \in DOMAIN rx :
              /\ Registers(k, s)
              /\ \A j \in DOMAIN rx : TakesOver(j, s) => j <= k
              /\ \A j \in DOMAIN rx : \A q \in Query :
                     Carries(j, q) /\ req[q].from = s => k < j
              /\ \A q \in Registered(messages) : req[q].from # s
      BY <2>7 DEF Awaits
    <3>2. k \in DOMAIN rx' /\ Registers(k, s)' /\ k < Len(rx) + 1
      BY <2>2, <3>1 DEF Registers
    <3>3. \A j \in DOMAIN rx' : \A q \in Query : Carries(j, q)' /\ req'[q].from = s =>
              k < j
      <4>1. SUFFICES ASSUME NEW j \in DOMAIN rx', NEW q \in Query,
                            Carries(j, q)', req'[q].from = s
                     PROVE  k < j
        OBVIOUS
      <4>2. CASE j = Len(rx) + 1
        BY <3>2, <4>2
      <4>3. CASE j \in DOMAIN rx
        <5>1. Carries(j, q) /\ q # r
          BY <2>2, <2>4, <4>1, <4>3 DEF Carries
        <5>. QED  BY <2>3, <3>1, <4>1, <4>3, <5>1
      <4>. QED  BY <2>2, <4>2, <4>3
    <3>4. \A q \in Registered(messages') : req'[q].from # s
      BY <2>3, <2>5, <3>1
    <3>. QED  BY <2>6, <3>1, <3>2, <3>3, <3>4 DEF Awaits
  <2>8. CASE Routed(s)
    BY <2>3, <2>6, <2>8 DEF Routed
  <2>. QED  BY <2>3, <2>7, <2>8
<1>9. CASE Tick
  <2>1. UNCHANGED <<rx, req, session, latest, clients, up>> /\ up
        /\ messages' = Elapse(messages)
    BY <1>9 DEF Tick, envVars
  <2>2. Registered(messages') = Registered(messages)
    BY <1>1, <2>1, ElapseRegistered
  <2>. SUFFICES ASSUME NEW s \in Session, session[s] = "open", IsLatest(s)
                PROVE  Routed(s)' \/ Awaits(s)'
    BY <2>1 DEF IsLatest
  <2>3. CASE Awaits(s)
    BY <2>1, <2>2, <2>3, AwaitsKept
  <2>4. CASE Routed(s)
    BY <2>1, <2>4, RoutedKept
  <2>. QED  BY <2>1, <2>3, <2>4
<1>10. CASE UNCHANGED <<rx, req, session, latest, clients, messages, up>>
  <2>. SUFFICES ASSUME up, NEW s \in Session, session[s] = "open", IsLatest(s)
                PROVE  Routed(s)' \/ Awaits(s)'
    BY <1>10 DEF IsLatest
  <2>1. CASE Awaits(s)
    BY <1>10, <2>1, AwaitsKept
  <2>2. CASE Routed(s)
    BY <1>10, <2>2, RoutedKept
  <2>. QED  BY <1>10, <2>1, <2>2
<1>. QED
  BY <1>2, <1>3, <1>4, <1>5, <1>6, <1>7, <1>8, <1>9, <1>10
  DEF Next, Loop, Environment, Reply, ForwarderEnds, vars, bridgeVars, envVars

-----------------------------------------------------------------------------
(* The invariant and what follows from it.                                 *)

LEMMA InvInit == Init => IInv
<1>. SUFFICES ASSUME Init PROVE IInv
  OBVIOUS
<1>1. TypeOK
  BY TypeInit
<1>2. QueueInv /\ NetInv /\ ClientsInv /\ TableInv /\ AgeInv /\ LaunchInv /\ LatestInv
      /\ DownInv
  BY DEF Init, QueueInv, NetInv, ClientsInv, TableInv, AgeInv, LaunchInv, LatestInv, DownInv,
         NoClients, EmptyTable
<1>3. MixUpNeedsSharedId /\ AnsweredOnce
  BY DEF Init, MixUpNeedsSharedId, AnsweredOnce, Relay!AnsweredOnce
<1>4. RouteInv
  BY DEF Init, RouteInv
<1>. QED  BY <1>1, <1>2, <1>3, <1>4 DEF IInv

LEMMA InvStep == IInv /\ [Next]_vars => IInv'
<1>. SUFFICES ASSUME IInv, [Next]_vars PROVE IInv'
  OBVIOUS
<1>. USE DEF IInv
<1>1. TypeOK'                        BY TypeStep
<1>2. QueueInv'                      BY QueueStep
<1>3. NetInv'                        BY NetInvStep
<1>4. ClientsInv'                    BY ClientsStep
<1>5. TableInv'                      BY TableStep
<1>6. MixUpNeedsSharedId'            BY MixUpStep
<1>7. AnsweredOnce'                  BY AnsweredOnceStep
<1>8. AgeInv'                        BY AgeStep
<1>9. LaunchInv'                     BY LaunchStep
<1>10. RouteInv'                     BY <1>1, RouteStep
<1>11. DownInv'                      BY DownStep
<1>12. LatestInv'                    BY LatestStep
<1>. QED
  BY <1>1, <1>2, <1>3, <1>4, <1>5, <1>6, <1>7, <1>8, <1>9, <1>10, <1>11, <1>12

(* IInv holds in every state of the bridge and its environment. *)
THEOREM Invariance == Spec => []IInv
  BY InvInit, InvStep, PTL DEF Spec

(* The bridge's maps, queues and histories keep their types. *)
THEOREM TypeCorrect == Spec => []TypeOK
<1>1. IInv => TypeOK
  BY DEF IInv
<1>. QED  BY <1>1, Invariance, PTL

(* No request is answered twice, whatever replies arrive (messages.remove). *)
THEOREM AnsweredOnceHolds == Spec => []AnsweredOnce
<1>1. IInv => AnsweredOnce
  BY DEF IInv
<1>. QED  BY <1>1, Invariance, PTL

(* Only a shared id mixes up two answers, and only a forwarded request's.    *)
THEOREM MixUpHolds == Spec => []MixUpNeedsSharedId
<1>1. IInv => MixUpNeedsSharedId
  BY DEF IInv
<1>. QED  BY <1>1, Invariance, PTL

(* No entry outlives its timeout by a sweep: its age is below Timeout + idle. *)
THEOREM ExpiryBoundHolds == Spec => []ExpiryBound
<1>1. IInv => ExpiryBound
  <2>. SUFFICES ASSUME IInv, NEW i \in MsgId, messages[i] # NoEntry
                PROVE  messages[i].age < Timeout + Sweep
    BY DEF ExpiryBound
  <2>1. messages[i].age \in Nat /\ messages[i].age < Timeout + idle
    BY DEF IInv, AgeInv, TypeOK, Table, Entry
  <2>2. idle \in Nat /\ idle <= Sweep
    BY SweepAssumption DEF IInv, TypeOK
  <2>. QED  BY <2>1, <2>2, TimeoutAssumption, SweepAssumption
<1>. QED  BY <1>1, Invariance, PTL

(* The latest session of a client id finds its responder for every request   *)
(* of that client in the table, once its Register is handled, and until then *)
(* none of the requests is its own; whatever sessions the id had before.     *)
THEOREM RoutedWhileOpenHolds == Spec => []RoutedWhileOpen
<1>1. IInv => RoutedWhileOpen
  <2>. SUFFICES ASSUME IInv, NEW i \in MsgId, messages[i] # NoEntry,
                       NEW s, s = latest[messages[i].client],
                       s # NoSession, session[s] = "open"
                PROVE  \/ clients[messages[i].client] = s
                       \/ /\ \E k \in DOMAIN rx :
                                 rx[k] = [type |-> "Register", session |-> s]
                          /\ req[messages[i].q].from # s
    BY DEF RoutedWhileOpen
  <2>1. up
    BY DEF IInv, DownInv, EmptyTable
  <2>2. messages[i] \in Entry /\ messages[i].q \in Registered(messages)
    BY DEF IInv, TypeOK, Table, Registered
  <2>3. s \in Session /\ clientOf[s] = messages[i].client
    BY <2>2 DEF IInv, LatestInv, TypeOK, Entry
  <2>4. Routed(s) \/ Awaits(s)
    BY <2>1, <2>3 DEF IInv, RouteInv, IsLatest
  <2>. QED  BY <2>2, <2>3, <2>4 DEF Routed, Awaits, Registers
<1>. QED  BY <1>1, Invariance, PTL

(* A collision neither takes the id from its holder nor renews its timer.    *)
THEOREM OwnerKeepsIdHolds == Spec => OwnerKeepsId
<1>. DEFINE Keeps == \A i \in MsgId :
                messages[i] # NoEntry /\ messages'[i] # NoEntry =>
                    /\ messages'[i].q = messages[i].q
                    /\ messages'[i].age >= messages[i].age
<1>1. IInv /\ [Next]_vars => [Keeps]_vars
  <2>. SUFFICES ASSUME IInv, [Next]_vars PROVE Keeps
    OBVIOUS
  <2>1. messages \in Table
    BY DEF IInv, TypeOK
  <2>2. ASSUME NEW t \in Table, messages' = Expire(t),
               \A i \in MsgId : messages[i] # NoEntry /\ t[i] # NoEntry =>
                   t[i] = messages[i]
        PROVE  Keeps
    <3>1. \A i \in MsgId : messages[i] # NoEntry /\ messages'[i] # NoEntry =>
              messages'[i] = messages[i]
      BY <2>2, ExpireShrinks DEF Shrinks
    <3>. QED  BY <2>1, <3>1 DEF Table, Entry
  <2>3. CASE DNSFromBridge
    <3>. DEFINE q == Head(rx).q
    <3>1. q \in Query /\ req[q] # NoRequest
      BY <2>3, HeadDns, TakeHead DEF DNSFromBridge, IInv, QueueInv, Carries, TypeOK
    <3>2. /\ Register(messages, Id(q), clientOf[req[q].from], q) \in Table
          /\ Id(q) \in MsgId /\ clientOf[req[q].from] \in Client /\ q \in Query
      BY <2>3, <3>1, RequestStep DEF IInv
    <3>3. \A i \in MsgId : messages[i] # NoEntry =>
              Register(messages, Id(q), clientOf[req[q].from], q)[i] = messages[i]
      BY <2>1, <3>2, RegisterAdds
    <3>4. \/ messages' = Expire(messages)
          \/ messages' = Expire(Register(messages, Id(q), clientOf[req[q].from], q))
      BY <2>3 DEF DNSFromBridge, EndIteration
    <3>. QED  BY <2>1, <2>2, <3>2, <3>3, <3>4
  <2>4. CASE DNSFromNet
    <3>1. messages' = Expire(Remove(messages, Id(Head(fwdRx))))
      BY <2>4 DEF DNSFromNet, EndIteration
    <3>2. /\ Remove(messages, Id(Head(fwdRx))) \in Table
          /\ Shrinks(messages, Remove(messages, Id(Head(fwdRx))))
      BY <2>1, <2>4, RepliedId, RemoveShrinks DEF IInv
    <3>. QED  BY <2>2, <3>1, <3>2 DEF Shrinks
  <2>5. CASE Registration \/ TimeoutEvent
    <3>1. messages' = Expire(messages)
      BY <2>5 DEF Registration, TimeoutEvent, EndIteration
    <3>. QED  BY <2>1, <2>2, <3>1
  <2>6. CASE Shutdown \/ ForwarderGone
    BY <2>6 DEF Shutdown, ForwarderGone, End, EmptyTable
  <2>7. CASE Tick
    <3>1. messages' = Elapse(messages)
      BY <2>7 DEF Tick
    <3>2. \A i \in MsgId : messages[i] # NoEntry => messages[i].age \in Nat
      BY <2>1 DEF Table, Entry
    <3>. QED  BY <2>1, <3>1, <3>2, ElapseAges
  <2>8. CASE UNCHANGED messages
    BY <2>1, <2>8 DEF Table, Entry
  <2>. QED
    BY <2>3, <2>4, <2>5, <2>6, <2>7, <2>8
    DEF Next, Loop, Environment, Launch, CloseSession, Ask, Reply, ForwarderEnds,
        vars, bridgeVars
<1>. QED  BY <1>1, Invariance, PTL DEF Spec, OwnerKeepsId

-----------------------------------------------------------------------------
(* Refinement of QueryRelay.                                               *)

LEMMA RelayInit == Init => Relay!Init
<1>. SUFFICES ASSUME Init PROVE Relay!Init
  OBVIOUS
<1>1. Pending = {}
  BY DEF Init, Pending, Queued, Registered, EmptyTable
<1>. QED  BY <1>1 DEF Init, Relay!Init

(* A head taken off the queue leaves the others, and only requests that were *)
(* queued or registered, or the head's, are so after an iteration.           *)
LEMMA QueuedAfterHead ==
    ASSUME TypeOK, rx # <<>>, rx' = Tail(rx)
    PROVE  Queued' \subseteq Queued
<1>1. \A k \in DOMAIN rx' : k + 1 \in DOMAIN rx /\ rx'[k] = rx[k + 1]
  BY TakeHead DEF TypeOK
<1>. QED  BY <1>1 DEF Queued

LEMMA RelayStep ==
    ASSUME IInv, [Next]_vars
    PROVE  [Relay!Next]_Relay!vars
<1>. USE DEF IInv
<1>1. clients \in [Client -> Session \cup {NoSession}] /\ messages \in Table
  BY DEF TypeOK
<1>2. ASSUME UNCHANGED <<req, got>>, Queued' \subseteq Queued,
             Registered(messages') \subseteq Pending
      PROVE  [Relay!Next]_Relay!vars
  <2>1. Pending' \subseteq Pending
    BY <1>2 DEF Pending
  <2>. QED  BY <1>2, <2>1 DEF Relay!Next, Relay!GiveUp
<1>3. Registered(Expire(messages)) \subseteq Registered(messages)
  BY <1>1, ExpireShrinks, ShrinkingRegistered
<1>4. CASE Registration
  <2>1. Queued' \subseteq Queued
    BY <1>4, QueuedAfterHead DEF Registration
  <2>2. messages' = Expire(messages) /\ UNCHANGED <<req, got>>
    BY <1>4 DEF Registration, EndIteration, envVars
  <2>. QED  BY <1>2, <1>3, <2>1, <2>2 DEF Pending
<1>5. CASE DNSFromBridge
  <2>. DEFINE q == Head(rx).q
              t == Register(messages, Id(q), clientOf[req[q].from], q)
  <2>1. q \in Query /\ rx[1] = [type |-> "Dns", q |-> q] /\ 1 \in DOMAIN rx
    BY <1>5, HeadDns, TakeHead DEF DNSFromBridge, TypeOK
  <2>2. q \in Queued /\ req[q] # NoRequest
    BY <2>1 DEF Queued, QueueInv, Carries
  <2>3. t \in Table /\ Id(q) \in MsgId /\ clientOf[req[q].from] \in Client
    BY <1>5, <2>1, <2>2, RequestStep
  <2>4. Queued' \subseteq Queued /\ UNCHANGED <<req, got>>
    BY <1>5, QueuedAfterHead DEF DNSFromBridge, envVars
  <2>5. Registered(Expire(t)) \subseteq Pending
    <3>1. \A i \in MsgId : t[i] = messages[i] \/ t[i] = NewEntry(clientOf[req[q].from], q)
      BY <1>1, <2>1, <2>3, RegisterAdds
    <3>2. NewEntry(clientOf[req[q].from], q).q = q
      BY DEF NewEntry
    <3>3. Registered(t) \subseteq Registered(messages) \cup {q}
      BY <3>1, <3>2 DEF Registered
    <3>4. Registered(Expire(t)) \subseteq Registered(t)
      BY <2>3, ExpireShrinks, ShrinkingRegistered
    <3>. QED  BY <2>2, <3>3, <3>4 DEF Pending
  <2>6. messages' = Expire(messages) \/ messages' = Expire(t)
    BY <1>5 DEF DNSFromBridge, EndIteration
  <2>. HIDE DEF t
  <2>. QED  BY <1>2, <1>3, <2>4, <2>5, <2>6 DEF Pending
<1>6. CASE DNSFromNet
  <2>. DEFINE a == Head(fwdRx)
              i == Id(a)
              e == messages[i]
              t == Remove(messages, i)
  <2>1. a \in forwarded /\ a \in Query /\ req[a] # NoRequest /\ i \in MsgId
    BY <1>6, RepliedId DEF TypeOK, NetInv
  <2>2. UNCHANGED <<rx, req>> /\ Queued' = Queued
    BY <1>6 DEF DNSFromNet, Queued
  <2>3. messages' = Expire(t)
    BY <1>6 DEF DNSFromNet, EndIteration
  <2>4. t \in Table /\ t[i] = NoEntry /\ Shrinks(messages, t)
    BY <1>1, <2>1, RemoveShrinks
  <2>5. Shrinks(t, messages')
    BY <2>3, <2>4, ExpireShrinks
  <2>6. Registered(messages') \subseteq Registered(messages)
    BY <2>4, <2>5, ShrinkingRegistered
  <2>7. CASE got' = got
    BY <1>2, <2>2, <2>6, <2>7 DEF Pending
  <2>8. CASE got' # got
    <3>1. PICK s \in Session :
              /\ e # NoEntry /\ e.client \in Client /\ s = clients[e.client]
              /\ got' = [got EXCEPT ![s] = Append(@, [for |-> e.q, reply |-> a])]
      BY <1>6, <2>1, <2>8, NetStep
    <3>2. e.q \in forwarded /\ e.q \in Query /\ req[e.q] # NoRequest
          /\ req[e.q].id = i /\ e.client = clientOf[req[e.q].from]
      BY <2>1, <3>1 DEF TableInv, NetInv, TypeOK
    <3>3. clientOf[s] = clientOf[req[e.q].from]
      BY <3>1, <3>2, NoSessionAssumption DEF ClientsInv
    <3>4. req[a].id = req[e.q].id
      BY <3>2 DEF Id
    <3>5. e.q \notin Queued
      BY <3>2 DEF Queued, QueueInv, Carries
    <3>6. e.q \in Registered(messages)
      BY <2>1, <3>1 DEF Registered
    <3>7. e.q \notin Registered(messages')
      <4>1. ASSUME NEW j \in MsgId, messages'[j] # NoEntry, messages'[j].q = e.q
            PROVE  FALSE
        <5>1. j # i /\ messages[j] # NoEntry /\ messages[j].q = e.q
          BY <2>4, <2>5, <4>1 DEF Shrinks
        <5>2. req[messages[j].q].id = j
          BY <5>1 DEF TableInv
        <5>. QED  BY <3>2, <5>1, <5>2
      <4>. QED  BY <4>1 DEF Registered
    <3>8. e.q \in Pending /\ Pending' \in SUBSET (Pending \ {e.q})
      BY <2>2, <2>6, <3>5, <3>6, <3>7 DEF Pending
    <3>9. Relay!Deliver(e.q, a, s)
      <4>. HIDE DEF a, e
      <4>. QED  BY <2>1, <2>2, <3>1, <3>2, <3>3, <3>4, <3>8 DEF Relay!Deliver
    <3>. QED  BY <2>1, <3>2, <3>9 DEF Relay!Next
  <2>. QED  BY <2>7, <2>8
<1>7. CASE TimeoutEvent
  <2>1. UNCHANGED <<rx, req, got>> /\ messages' = Expire(messages)
    BY <1>7 DEF TimeoutEvent, EndIteration, envVars
  <2>. QED  BY <1>2, <1>3, <2>1 DEF Queued, Pending
<1>8. CASE Shutdown \/ ForwarderGone
  <2>1. UNCHANGED <<req, got>> /\ rx' = <<>> /\ messages' = EmptyTable
    BY <1>8 DEF Shutdown, ForwarderGone, End, envVars
  <2>2. Queued' = {} /\ Registered(messages') = {}
    BY <2>1 DEF Queued, Registered, EmptyTable
  <2>. QED  BY <1>2, <2>1, <2>2
<1>9. ASSUME NEW u \in Session, Launch(u)
      PROVE  [Relay!Next]_Relay!vars
  <2>1. [type |-> "Register", session |-> u] \in RegisterMsg \cup DnsMsg
    BY DEF RegisterMsg
  <2>2. Queued' \subseteq Queued
    BY <1>9, <2>1, AppendLast DEF Launch, Queued, TypeOK
  <2>. QED  BY <1>2, <1>9, <2>2 DEF Launch, Pending
<1>10. ASSUME NEW u \in Session, NEW r \in Query, NEW i \in MsgId, Ask(u, r, i)
       PROVE  [Relay!Next]_Relay!vars
  <2>1. [type |-> "Dns", q |-> r] \in RegisterMsg \cup DnsMsg
    BY DEF DnsMsg
  <2>2. Queued' = Queued \cup {r}
    <3>1. \A k \in DOMAIN rx : k \in DOMAIN rx' /\ rx'[k] = rx[k]
      BY <1>10, <2>1, AppendLast DEF Ask, TypeOK
    <3>2. \A k \in DOMAIN rx' : k \in DOMAIN rx \/ rx'[k] = [type |-> "Dns", q |-> r]
      BY <1>10, <2>1, AppendLast DEF Ask, TypeOK
    <3>3. \E k \in DOMAIN rx' : rx'[k] = [type |-> "Dns", q |-> r]
      BY <1>10, <2>1, AppendLast DEF Ask, TypeOK
    <3>. QED  BY <3>1, <3>2, <3>3 DEF Queued
  <2>3. Pending' = Pending \cup {r}
    BY <1>10, <2>2 DEF Ask, Pending
  <2>4. Relay!Ask(u, r, i)
    BY <1>10, <2>3 DEF Ask, Relay!Ask
  <2>. QED  BY <2>4 DEF Relay!Next
<1>11. CASE Tick
  <2>1. Registered(messages') = Registered(messages) /\ UNCHANGED <<rx, req, got>>
    BY <1>1, <1>11, ElapseRegistered DEF Tick, envVars
  <2>. QED  BY <1>2, <2>1 DEF Queued, Pending
<1>12. CASE UNCHANGED <<rx, messages, req, got>>
  BY <1>2, <1>12 DEF Queued, Pending
<1>. QED
  BY <1>4, <1>5, <1>6, <1>7, <1>8, <1>9, <1>10, <1>11, <1>12
  DEF Next, Loop, Environment, CloseSession, Reply, ForwarderEnds,
      vars, bridgeVars, envVars

(* The bridge is a QueryRelay between sessions: every iteration asks, gives  *)
(* up or delivers as that specification allows.                              *)
THEOREM RefinementHolds == Spec => ImplementsRelay
  BY RelayInit, RelayStep, Invariance, PTL DEF Spec, ImplementsRelay, Relay!Spec

-----------------------------------------------------------------------------
(* The UDP forwarder.                                                      *)

(* What is queued or under way was forwarded by the bridge. *)
AskedInv ==
    /\ \A k \in DOMAIN fwdTx : fwdTx[k] \in forwarded
    /\ \A q \in Query : unanswered[q] > 0 => q \in forwarded

UInv == UdpTypeOK /\ AskedInv

LEMMA UInvInit == UdpInit => UInv
<1>. SUFFICES ASSUME UdpInit PROVE UInv
  OBVIOUS
<1>1. fwdTx \in Seq(Query) /\ unanswered \in [Query -> 0..Hosts]
  BY EmptySeq, HostsAssumption DEF UdpInit
<1>. QED  BY <1>1 DEF UdpInit, Init, UInv, UdpTypeOK, AskedInv

(* Only DNSFromBridge changes `forwarded`, and it adds to it. *)
LEMMA OthersKeepForwarded ==
    ASSUME OtherSteps
    PROVE  UNCHANGED <<fwdUp, forwarded, udpVars>>
  BY DEF OtherSteps, Registration, DNSFromNet, TimeoutEvent, Shutdown, ForwarderGone, End,
         Launch, CloseSession, Ask, Tick, udpVars, envVars, bridgeVars

LEMMA UInvStep ==
    ASSUME TypeOK, UInv, [UdpNext]_<<vars, udpVars>>
    PROVE  UInv'
<1>. USE DEF UInv
<1>1. CASE Resolve
  BY <1>1 DEF Resolve, UdpTypeOK, AskedInv, vars, envVars
<1>2. CASE SendToHosts
  <2>1. /\ fwdTx \in Seq(Query) /\ fwdTx # <<>>
    BY <1>2 DEF SendToHosts, UdpTypeOK
  <2>2. /\ Head(fwdTx) \in Query /\ Head(fwdTx) \in forwarded
        /\ fwdTx' \in Seq(Query)
        /\ \A k \in DOMAIN fwdTx' : fwdTx'[k] \in forwarded
    BY <1>2, <2>1, TakeHead DEF SendToHosts, AskedInv
  <2>3. PICK n \in 0..Hosts : unanswered' = [unanswered EXCEPT ![Head(fwdTx)] = n]
    BY <1>2 DEF SendToHosts
  <2>4. UNCHANGED <<fwd, fwdUp, forwarded>>
    BY <1>2 DEF SendToHosts, vars, envVars
  <2>. QED  BY <2>2, <2>3, <2>4 DEF UdpTypeOK, AskedInv
<1>3. CASE SocketError
  BY <1>3, EmptySeq, HostsAssumption DEF SocketError, UdpTypeOK, AskedInv
<1>4. CASE Forwarding
  <2>1. /\ rx \in Seq(RegisterMsg \cup DnsMsg) /\ rx # <<>> /\ Head(rx).type = "Dns"
        /\ UNCHANGED <<fwd, fwdUp, unanswered>>
    BY <1>4 DEF Forwarding, DNSFromBridge, TypeOK, envVars
  <2>2. Head(rx).q \in Query
    BY <2>1, TakeHead DEF RegisterMsg, DnsMsg
  <2>3. forwarded' = IF fwdUp THEN forwarded \cup {Head(rx).q} ELSE forwarded
    BY <1>4 DEF Forwarding, DNSFromBridge
  <2>4. fwdTx' \in Seq(Query) /\ \A k \in DOMAIN fwdTx' : fwdTx'[k] \in forwarded'
    BY <1>4, <2>2, <2>3, AppendLast DEF Forwarding, UdpTypeOK, AskedInv
  <2>. QED  BY <2>1, <2>3, <2>4 DEF UdpTypeOK, AskedInv
<1>5. CASE OtherSteps
  BY <1>5, OthersKeepForwarded DEF udpVars, UdpTypeOK, AskedInv
<1>6. ASSUME NEW q \in Query, Answer(q)
      PROVE  UInv'
  <2>1. unanswered[q] - 1 \in 0..Hosts
    BY <1>6, HostsAssumption DEF Answer, UdpTypeOK
  <2>. QED  BY <1>6, <2>1, HostsAssumption DEF Answer, UdpTypeOK, AskedInv
<1>7. CASE UNCHANGED <<vars, udpVars>>
  BY <1>7 DEF vars, udpVars, envVars, UdpTypeOK, AskedInv
<1>. QED
  BY <1>1, <1>2, <1>3, <1>4, <1>5, <1>6, <1>7 DEF UdpNext

(* A step of the two is a step of EgressBridge, or none. *)
LEMMA EgressStep ==
    ASSUME UInv, [UdpNext]_<<vars, udpVars>>
    PROVE  [Next]_vars
<1>1. CASE Resolve \/ SendToHosts
  BY <1>1 DEF Resolve, SendToHosts
<1>2. CASE SocketError
  <2>1. ForwarderEnds
    BY <1>2 DEF SocketError, ForwarderEnds, UInv, UdpTypeOK
  <2>. QED  BY <2>1 DEF Next, Environment
<1>3. CASE Forwarding \/ OtherSteps
  BY <1>3 DEF Forwarding, OtherSteps, Next, Loop, Environment
<1>4. ASSUME NEW q \in Query, Answer(q)
      PROVE  [Next]_vars
  <2>1. q \in forwarded /\ fwdUp
    BY <1>4 DEF Answer, UInv, UdpTypeOK, AskedInv
  <2>2. Reply(q)
    BY <1>4, <2>1 DEF Answer, Reply
  <2>. QED  BY <2>2 DEF Next, Environment
<1>. QED
  BY <1>1, <1>2, <1>3, <1>4 DEF UdpNext

(* Both invariants hold of the two together. *)
LEMMA UdpInvariance == UdpSpec => Init /\ [][Next]_vars /\ [](IInv /\ UInv)
<1>1. UdpInit => Init /\ IInv /\ UInv
  BY InvInit, UInvInit DEF UdpInit
<1>2. IInv /\ UInv /\ [UdpNext]_<<vars, udpVars>> => [Next]_vars /\ IInv' /\ UInv'
  <2>. SUFFICES ASSUME IInv, UInv, [UdpNext]_<<vars, udpVars>>
                PROVE  [Next]_vars /\ IInv' /\ UInv'
    OBVIOUS
  <2>1. [Next]_vars
    BY EgressStep
  <2>2. IInv'
    BY <2>1, InvStep
  <2>3. UInv'
    BY UInvStep DEF IInv
  <2>. QED  BY <2>1, <2>2, <2>3
<1>. QED  BY <1>1, <1>2, PTL DEF UdpSpec

(* The bridge with the UDP forwarder implements EgressBridge.                *)
THEOREM UdpForwarderRefines == UdpSpec => ImplementsEgress
  BY UdpInvariance, PTL DEF ImplementsEgress, Spec

(* The forwarder holds the bridge's channels exactly as long as it runs.     *)
THEOREM UdpTypeCorrect == UdpSpec => []UdpTypeOK
<1>1. IInv /\ UInv => UdpTypeOK
  BY DEF UInv
<1>. QED  BY <1>1, UdpInvariance, PTL

(* No request is answered twice, however many hosts were asked: what was     *)
(* shown for EgressBridge holds with this forwarder.                         *)
THEOREM UdpAnsweredOnce == UdpSpec => []AnsweredOnce
  BY UdpForwarderRefines, AnsweredOnceHolds DEF ImplementsEgress

(* The agent's bridge with the UDP forwarder keeps the promises of a relay:  *)
(* each answer goes to the session that asked, under its id, and at most one *)
(* for each request.                                                         *)
THEOREM UdpImplementsRelay == UdpSpec => ImplementsRelay
  BY UdpForwarderRefines, RefinementHolds DEF ImplementsEgress
=============================================================================
