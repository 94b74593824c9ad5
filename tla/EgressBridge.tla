---------------------------- MODULE EgressBridge ----------------------------
(***************************************************************************)
(* The agent's egress bridge (src/dns/egress_bridge.rs): one task that     *)
(* takes DNS requests from the sessions of many clients, hands them to the *)
(* forwarder, and routes each reply back to the client whose request holds *)
(* the reply's 16-bit id.                                                  *)
(*                                                                         *)
(* An iteration of Bridge::run is one action: the event that tokio::select *)
(* picked, its handler, and the two cleanups that close every iteration.   *)
(* Nothing in a handler waits (the channels are unbounded), so no other    *)
(* event of the bridge falls between the steps of one.                     *)
(*                                                                         *)
(* A DNS message is named by the request q it carries, and a reply to q is *)
(* named q too: both carry the id of q.                                    *)
(***************************************************************************)
EXTENDS RequestTable, Sequences

CONSTANTS
    Session,     \* session instances of the server, each with its own responder
    clientOf,    \* the id string a session registers under: [Session -> Client]
    NoSession,   \* no responder is registered for a client
    NoRequest,   \* a request nobody has made yet
    Sweep,       \* the sleep(3s) of the loop, in ticks
    MaxReplies   \* bound: replies the network may produce in all

ASSUME ClientOfAssumption == clientOf \in [Session -> Client]
ASSUME SweepAssumption == Sweep \in Nat \ {0}
ASSUME MaxRepliesAssumption == MaxReplies \in Nat
ASSUME NoSessionAssumption == NoSession \notin Session

Request == [from : Session, id : MsgId]

ASSUME NoRequestAssumption == NoRequest \notin Request

\* BridgeMessage: what sessions put on the bridge's channel.
RegisterMsg == [type : {"Register"}, session : Session]
DnsMsg == [type : {"Dns"}, q : Query]

\* A reply handed to a responder: `for` is the request taken off the table.
Delivery == [for : Query, reply : Query]

VARIABLES
    (* the bridge *)
    up,         \* Bridge::run is still looping
    rx,         \* BridgeMessages not received yet
    clients,    \* client id -> the session whose responder is registered
    messages,   \* DNS id -> the request that holds it
    idle,       \* ticks since the last iteration: the sleep(3s) in progress
    (* its environment *)
    fwdUp,      \* the forwarder task holds its ends of both channels
    fwdRx,      \* replies the forwarder queued for the bridge
    session,    \* life of each session: "new", "open", "closed"
    latest,     \* history: the session launched last under each client id
    req,        \* the request behind each q, NoRequest before it is made
    replies,    \* replies the network produced so far
    (* history *)
    forwarded,  \* requests handed to the forwarder
    got         \* replies put in each session's responder channel

bridgeVars == <<up, rx, clients, messages, idle>>
envVars == <<fwdUp, fwdRx, session, latest, req, replies>>
vars == <<bridgeVars, envVars, forwarded, got>>

TypeOK ==
    /\ up \in BOOLEAN
    /\ rx \in Seq(RegisterMsg \cup DnsMsg)
    /\ clients \in [Client -> Session \cup {NoSession}]
    /\ messages \in Table
    /\ idle \in 0..Sweep
    /\ fwdUp \in BOOLEAN
    /\ fwdRx \in Seq(Query)
    /\ session \in [Session -> {"new", "open", "closed"}]
    /\ latest \in [Client -> Session \cup {NoSession}]
    /\ req \in [Query -> Request \cup {NoRequest}]
    /\ replies \in 0..MaxReplies
    /\ forwarded \in SUBSET Query
    /\ got \in [Session -> Seq(Delivery)]

NoClients == [c \in Client |-> NoSession]

Init ==
    /\ up = TRUE
    /\ rx = <<>>
    /\ clients = NoClients
    /\ messages = EmptyTable
    /\ idle = 0
    /\ fwdUp = TRUE
    /\ fwdRx = <<>>
    /\ session = [s \in Session |-> "new"]
    /\ latest = NoClients
    /\ req = [q \in Query |-> NoRequest]
    /\ replies = 0
    /\ forwarded = {}
    /\ got = [s \in Session |-> <<>>]

-----------------------------------------------------------------------------
(* The bridge's event loop.                                                *)

\* one byte read in the place of two: different ids look the same
IdOneByteMutant(q) == CHOOSE i \in MsgId : TRUE

(* DNSMessage::id of a request, or of a reply to it. *)
Id(q) == req[q].id

(* sender.is_closed(): the session dropped the receiver of its responder. *)
Closed(s) == session[s] = "closed"

CleanupClients(cl) ==
    [c \in Client |-> IF cl[c] # NoSession /\ Closed(cl[c]) THEN NoSession ELSE cl[c]]

(* The end of every iteration that does not break; sleep(3s) starts anew. *)
EndIteration(cl, table) ==
    /\ clients' = CleanupClients(cl)
    /\ messages' = Expire(table)
    /\ idle' = 0

\* the responder of an earlier session kept: entry(..).or_insert(..)
RegistrationKeepMutant ==
    /\ up /\ rx # <<>>
    /\ Head(rx).type = "Register"
    /\ LET s == Head(rx).session
       IN  EndIteration([clients EXCEPT ![clientOf[s]] = IF @ = NoSession THEN s ELSE @],
                        messages)
    /\ rx' = Tail(rx)
    /\ UNCHANGED <<up, envVars, forwarded, got>>

(* A responder replaces the one an earlier session registered under its id. *)
Registration ==
    /\ up /\ rx # <<>>
    /\ Head(rx).type = "Register"
    /\ LET s == Head(rx).session
       IN  EndIteration([clients EXCEPT ![clientOf[s]] = s], messages)
    /\ rx' = Tail(rx)
    /\ UNCHANGED <<up, envVars, forwarded, got>>

(* A request is forwarded first and registered only if that worked. *)
DNSFromBridge ==
    /\ up /\ rx # <<>>
    /\ Head(rx).type = "Dns"
    /\ LET q == Head(rx).q
       IN  IF fwdUp
           THEN /\ forwarded' = forwarded \cup {q}
                /\ EndIteration(clients,
                       Register(messages, Id(q), clientOf[req[q].from], q))
           ELSE /\ UNCHANGED forwarded
                /\ EndIteration(clients, messages)
    /\ rx' = Tail(rx)
    /\ UNCHANGED <<up, envVars, got>>

(* client.send(msg) reaches the responder registered under c, if it lives. *)
Send(c, for, reply) ==
    LET s == clients[c]
    IN  got' = IF s # NoSession /\ ~Closed(s)
               THEN [got EXCEPT ![s] = Append(@, [for |-> for, reply |-> reply])]
               ELSE got

(* A reply settles the request that holds its id, whoever asked it. *)
DNSFromNet ==
    /\ up /\ fwdRx # <<>>
    /\ LET a == Head(fwdRx)
           i == Id(a)
           e == messages[i]
       IN  /\ IF e = NoEntry THEN UNCHANGED got ELSE Send(e.client, e.q, a)
           /\ EndIteration(clients, Remove(messages, i))
    /\ fwdRx' = Tail(fwdRx)
    /\ UNCHANGED <<up, rx, fwdUp, session, latest, req, replies, forwarded>>

(* The sleep(3s) branch: an iteration for the cleanups alone. *)
TimeoutEvent ==
    /\ up /\ idle = Sweep
    /\ EndIteration(clients, messages)
    /\ UNCHANGED <<up, rx, envVars, forwarded, got>>

(* Leaving the loop drops the channel, the responders and the table. *)
End ==
    /\ up' = FALSE
    /\ rx' = <<>>
    /\ clients' = NoClients
    /\ messages' = EmptyTable
    /\ idle' = 0
    /\ UNCHANGED <<envVars, forwarded, got>>

(* Bridge::shutdown fires the oneshot at any time.  (rx.next() = None, the *)
(* third way out, needs every sender gone; run_server drops its Server and *)
(* so the last sender only after bridge.shutdown().)                       *)
Shutdown == up /\ End

(* forwarder.next() = None: the forwarder ended and its replies are drained. *)
ForwarderGone ==
    /\ up /\ ~fwdUp /\ fwdRx = <<>>
    /\ End

-----------------------------------------------------------------------------
(* The environment: the server's sessions, the forwarder, the clock.  It is *)
(* followed for as long as the bridge runs.                                 *)

(* Session::launch puts Register on the channel before the session runs. *)
Launch(s) ==
    /\ up /\ session[s] = "new"
    /\ session' = [session EXCEPT ![s] = "open"]
    /\ latest' = [latest EXCEPT ![clientOf[s]] = s]
    /\ rx' = Append(rx, [type |-> "Register", session |-> s])
    /\ UNCHANGED <<up, clients, messages, idle, fwdUp, fwdRx, req, replies,
                   forwarded, got>>

(* Session::run passes a client's request on. *)
Ask(s, q, i) ==
    /\ up /\ session[s] = "open"
    /\ req[q] = NoRequest
    /\ req' = [req EXCEPT ![q] = [from |-> s, id |-> i]]
    /\ rx' = Append(rx, [type |-> "Dns", q |-> q])
    /\ UNCHANGED <<up, clients, messages, idle, fwdUp, fwdRx, session, latest,
                   replies, forwarded, got>>

(* A session ends, for any reason, and drops its receiver. *)
CloseSession(s) ==
    /\ up /\ session[s] = "open"
    /\ session' = [session EXCEPT ![s] = "closed"]
    /\ UNCHANGED <<bridgeVars, fwdUp, fwdRx, latest, req, replies, forwarded, got>>

(* The upstream server answers: in any order, late, more than once (the UDP *)
(* forwarder asks every address of the host), or never.                     *)
Reply(q) ==
    /\ up /\ fwdUp
    /\ q \in forwarded
    /\ replies < MaxReplies
    /\ replies' = replies + 1
    /\ fwdRx' = Append(fwdRx, q)
    /\ UNCHANGED <<bridgeVars, fwdUp, session, latest, req, forwarded, got>>

(* The forwarder task ends: it drops both its channel ends. *)
ForwarderEnds ==
    /\ up /\ fwdUp
    /\ fwdUp' = FALSE
    /\ UNCHANGED <<bridgeVars, fwdRx, session, latest, req, replies, forwarded, got>>

(* Time passes, up to the moment the sleep is over: timers fire on time. *)
Tick ==
    /\ up /\ idle < Sweep
    /\ idle' = idle + 1
    /\ messages' = Elapse(messages)
    /\ UNCHANGED <<up, rx, clients, envVars, forwarded, got>>

Loop == Registration \/ DNSFromBridge \/ DNSFromNet \/ TimeoutEvent \/ Shutdown
        \/ ForwarderGone

Environment ==
    \/ \E s \in Session : Launch(s) \/ CloseSession(s)
    \/ \E s \in Session, q \in Query, i \in MsgId : Ask(s, q, i)
    \/ \E q \in Query : Reply(q)
    \/ ForwarderEnds \/ Tick

Next == Loop \/ Environment

Spec == Init /\ [][Next]_vars

(* tokio::select! polls its branches in random order, so a branch that stays *)
(* ready is taken; and time passes.                                          *)
Fairness ==
    /\ WF_vars(Registration) /\ WF_vars(DNSFromBridge) /\ WF_vars(DNSFromNet)
    /\ WF_vars(TimeoutEvent) /\ WF_vars(ForwarderGone)
    /\ WF_vars(Tick)

FairSpec == Spec /\ Fairness

-----------------------------------------------------------------------------
(* Properties.                                                             *)

(* The requests that may still be answered: queued, or holding their id. *)
Queued == {q \in Query : \E k \in DOMAIN rx : rx[k] = [type |-> "Dns", q |-> q]}
Pending == Queued \cup Registered(messages)

Relay == INSTANCE QueryRelay WITH Receiver <- Session, pending <- Pending

(* The bridge implements QueryRelay: at most one answer per request, to the  *)
(* client that asked, under the id it asked with (handlers DNSFromNet and    *)
(* DNSFromBridge).                                                           *)
ImplementsRelay == Relay!Spec

(* However many replies arrive, from several upstream addresses or late, no  *)
(* request is answered twice (messages.remove on the first).                 *)
AnsweredOnce == Relay!AnsweredOnce

(* An answer to another question reaches a client only if both questions    *)
(* were forwarded under the same id: collisions and id reuse are the only   *)
(* source of mixed-up answers.                                              *)
MixUpNeedsSharedId ==
    \A s \in Session : \A k \in DOMAIN got[s] :
        LET d == got[s][k]
        IN  /\ {d.for, d.reply} \subseteq forwarded
            /\ req[d.for].id = req[d.reply].id
            /\ clientOf[req[d.for].from] = clientOf[s]

(* No entry outlives its timeout by more than one sweep: a reply can be late *)
(* by less than Sweep ticks, and a request lost upstream frees its id.       *)
ExpiryBound ==
    \A i \in MsgId : messages[i] # NoEntry => messages[i].age < Timeout + Sweep

(* The request that holds an id keeps it, and its timer runs on, until it is *)
(* settled or expires: a collision neither takes the id nor renews the timer. *)
OwnerKeepsId ==
    [][\A i \in MsgId :
          messages[i] # NoEntry /\ messages'[i] # NoEntry =>
              /\ messages'[i].q = messages[i].q
              /\ messages'[i].age >= messages[i].age]_vars

(* However often sessions came and went under a client id, the one launched  *)
(* last gets, while it is open, the replies to every request in the table of *)
(* that client, its predecessors' included: its responder replaced theirs,   *)
(* no late cleanup of theirs took it away, and its Register is ahead of its  *)
(* own requests on the channel.                                              *)
RoutedWhileOpen ==
    \A i \in MsgId : messages[i] # NoEntry =>
        LET e == messages[i]
            s == latest[e.client]
        IN  s # NoSession /\ session[s] = "open" =>
                \/ clients[e.client] = s
                \/ /\ \E k \in DOMAIN rx : rx[k] = [type |-> "Register", session |-> s]
                   /\ req[e.q].from # s

(* Every request is settled: answered, given up by collision or by timeout,  *)
(* or dropped with the bridge.                                               *)
EventuallySettled == \A q \in Query : q \in Pending ~> q \notin Pending
=============================================================================
