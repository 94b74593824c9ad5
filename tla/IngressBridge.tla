---------------------------- MODULE IngressBridge ----------------------------
(***************************************************************************)
(* The sidecar's ingress bridge (src/dns/ingress_bridge.rs): one task that *)
(* takes DNS requests from a UDP socket, passes them to the channel client *)
(* and sends each reply to the address whose request holds the reply's id. *)
(*                                                                         *)
(* As in EgressBridge, an iteration of Bridge::run is one action: the      *)
(* event, its handler and the cleanup that closes the iteration.  The      *)
(* channels are unbounded; send_to is taken as one step, since a datagram  *)
(* is handed to the kernel or refused.                                     *)
(*                                                                         *)
(* A datagram of two bytes or more is named by a q of Query.  A client     *)
(* that retransmits, or a datagram the network duplicates, is another q    *)
(* with the same address and id.  A reply to q is named q too.             *)
(***************************************************************************)
EXTENDS RequestTable, Sequences

CONSTANTS
    NoRequest,   \* a datagram nobody has sent yet
    Sweep,       \* the sleep(3s) of the loop, in ticks
    MaxReplies   \* bound: replies the channel client may produce in all

ASSUME SweepAssumption == Sweep \in Nat \ {0}
ASSUME MaxRepliesAssumption == MaxReplies \in Nat

Request == [from : Client, id : MsgId]

ASSUME NoRequestAssumption == NoRequest \notin Request

\* A reply sent to an address: `for` is the request taken off the table.
Delivery == [for : Query, reply : Query]

VARIABLES
    (* the bridge *)
    up,         \* Bridge::run is still looping
    mtxState,   \* DNS id -> the request that holds it (mtx_state)
    idle,       \* ticks since the last iteration: the sleep(3s) in progress
    (* its environment *)
    net,        \* datagrams on their way to, or in, the socket's buffer
    clientUp,   \* the channel client holds its ends of both channels
    dnsRx,      \* replies the channel client queued for the bridge
    req,        \* source address and id of each datagram
    replies,    \* replies the channel client produced so far
    (* history *)
    forwarded,  \* requests put on the channel to the client
    got         \* replies sent to each address

bridgeVars == <<up, mtxState, idle>>
envVars == <<net, clientUp, dnsRx, req, replies>>
vars == <<bridgeVars, envVars, forwarded, got>>

TypeOK ==
    /\ up \in BOOLEAN
    /\ mtxState \in Table
    /\ idle \in 0..Sweep
    /\ net \in SUBSET Query
    /\ clientUp \in BOOLEAN
    /\ dnsRx \in Seq(Query)
    /\ req \in [Query -> Request \cup {NoRequest}]
    /\ replies \in 0..MaxReplies
    /\ forwarded \in SUBSET Query
    /\ got \in [Client -> Seq(Delivery)]

Init ==
    /\ up = TRUE
    /\ mtxState = EmptyTable
    /\ idle = 0
    /\ net = {}
    /\ clientUp = TRUE
    /\ dnsRx = <<>>
    /\ req = [q \in Query |-> NoRequest]
    /\ replies = 0
    /\ forwarded = {}
    /\ got = [c \in Client |-> <<>>]

-----------------------------------------------------------------------------
(* The bridge's event loop.                                                *)

(* DNSMessage::id of a request, or of a reply to it. *)
Id(q) == req[q].id

(* The end of every iteration that does not break; sleep(3s) starts anew. *)
EndIteration(table) ==
    /\ mtxState' = Expire(table)
    /\ idle' = 0

(* dns_tx.send(msg); an error is logged and the handler goes on. *)
PassOn(q) == forwarded' = IF clientUp THEN forwarded \cup {q} ELSE forwarded

(* A datagram arrives.  It is registered even if it could not be passed on. *)
DNSFromNet(q) ==
    /\ up /\ q \in net
    /\ PassOn(q)
    /\ EndIteration(Register(mtxState, Id(q), req[q].from, q))
    /\ net' = net \ {q}
    /\ UNCHANGED <<up, clientUp, dnsRx, req, replies, got>>

(* A datagram too short to hold an id: try_new fails. *)
InvalidDatagram ==
    /\ up
    /\ EndIteration(mtxState)
    /\ UNCHANGED <<up, envVars, forwarded, got>>

(* A reply settles the request that holds its id, whoever asked it; send_to *)
(* may fail, and the entry is gone all the same.                            *)
DNSFromBridge ==
    /\ up /\ dnsRx # <<>>
    /\ LET a == Head(dnsRx)
           e == mtxState[Id(a)]
       IN  /\ \/ /\ e # NoEntry
                 /\ got' = [got EXCEPT ![e.client] =
                               Append(@, [for |-> e.q, reply |-> a])]
              \/ UNCHANGED got
           /\ EndIteration(Remove(mtxState, Id(a)))
    /\ dnsRx' = Tail(dnsRx)
    /\ UNCHANGED <<up, net, clientUp, req, replies, forwarded>>

(* The sleep(3s) branch: an iteration for the cleanup alone. *)
TimeoutEvent ==
    /\ up /\ idle = Sweep
    /\ EndIteration(mtxState)
    /\ UNCHANGED <<up, envVars, forwarded, got>>

(* Leaving the loop drops the socket, the channels and the table. *)
End ==
    /\ up' = FALSE
    /\ mtxState' = EmptyTable
    /\ idle' = 0
    /\ net' = {}
    /\ UNCHANGED <<clientUp, dnsRx, req, replies, forwarded, got>>

(* Bridge::shutdown fires the oneshot, or recv_from fails: at any time. *)
ShutdownOrSocketError == up /\ End

\* a loop that ignores the end of the channel and waits on its other branches
ClientGoneMutant ==
    /\ up /\ ~clientUp /\ dnsRx = <<>>
    /\ EndIteration(mtxState)
    /\ UNCHANGED <<up, envVars, forwarded, got>>

(* dns_rx.next() = None: the channel client ended, its replies are drained. *)
ClientGone ==
    /\ up /\ ~clientUp /\ dnsRx = <<>>
    /\ End

-----------------------------------------------------------------------------
(* The environment, for as long as the bridge runs: applications, the      *)
(* channel client, the clock.                                              *)

(* An application sends a request to the socket. *)
Ask(c, q, i) ==
    /\ up /\ req[q] = NoRequest
    /\ req' = [req EXCEPT ![q] = [from |-> c, id |-> i]]
    /\ net' = net \cup {q}
    /\ UNCHANGED <<bridgeVars, clientUp, dnsRx, replies, forwarded, got>>

(* UDP: a datagram may be lost, and none waits for another. *)
Lose(q) ==
    /\ up /\ q \in net
    /\ net' = net \ {q}
    /\ UNCHANGED <<bridgeVars, clientUp, dnsRx, req, replies, forwarded, got>>

(* The channel client returns a reply: in any order, late, more than once. *)
Reply(q) ==
    /\ up /\ clientUp
    /\ q \in forwarded
    /\ replies < MaxReplies
    /\ replies' = replies + 1
    /\ dnsRx' = Append(dnsRx, q)
    /\ UNCHANGED <<bridgeVars, net, clientUp, req, forwarded, got>>

(* The channel client ends: it drops both its channel ends. *)
ClientEnds ==
    /\ up /\ clientUp
    /\ clientUp' = FALSE
    /\ UNCHANGED <<bridgeVars, net, dnsRx, req, replies, forwarded, got>>

(* Time passes, up to the moment the sleep is over: timers fire on time. *)
Tick ==
    /\ up /\ idle < Sweep
    /\ idle' = idle + 1
    /\ mtxState' = Elapse(mtxState)
    /\ UNCHANGED <<up, envVars, forwarded, got>>

Loop ==
    \/ \E q \in Query : DNSFromNet(q)
    \/ InvalidDatagram \/ DNSFromBridge \/ TimeoutEvent
    \/ ShutdownOrSocketError \/ ClientGone

Environment ==
    \/ \E c \in Client, q \in Query, i \in MsgId : Ask(c, q, i)
    \/ \E q \in Query : Lose(q) \/ Reply(q)
    \/ ClientEnds \/ Tick

Next == Loop \/ Environment

Spec == Init /\ [][Next]_vars

(* tokio::select! polls its branches in random order, so a branch that stays *)
(* ready is taken; and time passes.                                          *)
Fairness ==
    /\ \A q \in Query : WF_vars(DNSFromNet(q))
    /\ WF_vars(DNSFromBridge) /\ WF_vars(TimeoutEvent) /\ WF_vars(ClientGone)
    /\ WF_vars(Tick)

FairSpec == Spec /\ Fairness

-----------------------------------------------------------------------------
(* Properties.                                                             *)

(* The requests that may still be answered: in flight, or holding their id. *)
Pending == net \cup Registered(mtxState)

SelfClient == [c \in Client |-> c]

Relay == INSTANCE QueryRelay WITH
             Receiver <- Client, clientOf <- SelfClient, pending <- Pending

(* The bridge implements QueryRelay: at most one answer per datagram, to the *)
(* address it came from, under its id (handlers DNSFromNet, DNSFromBridge).  *)
ImplementsRelay == Relay!Spec

(* No datagram is answered twice, however many replies come back for it or   *)
(* for another request under its id (mtx_state.remove on the first).         *)
AnsweredOnce == Relay!AnsweredOnce

(* What an address is sent answers a request of its own, or a request of     *)
(* another address under the same id: collisions and id reuse are the only   *)
(* source of mixed-up answers.                                               *)
MixUpNeedsSharedId ==
    \A c \in Client : \A k \in DOMAIN got[c] :
        LET d == got[c][k]
        IN  /\ d.reply \in forwarded
            /\ req[d.for].id = req[d.reply].id
            /\ req[d.for].from = c

(* No entry outlives its timeout by a sweep: a datagram that was registered  *)
(* and never sent on, or never answered, gives its id back by then.          *)
ExpiryBound ==
    \A i \in MsgId : mtxState[i] # NoEntry => mtxState[i].age < Timeout + Sweep

(* The request that holds an id keeps it, and its timer runs on, until it is *)
(* settled or expires: a collision neither takes the id nor renews the timer. *)
OwnerKeepsId ==
    [][\A i \in MsgId :
          mtxState[i] # NoEntry /\ mtxState'[i] # NoEntry =>
              /\ mtxState'[i].q = mtxState[i].q
              /\ mtxState'[i].age >= mtxState[i].age]_vars

(* The bridge does not outlive the channel client it serves (dns_rx.next()   *)
(* is None), so that run_client can bind the address anew.                   *)
DiesWithClient == ~clientUp ~> ~up

(* Every request is settled: answered, lost, given up by collision or by     *)
(* timeout, or dropped with the bridge.                                      *)
EventuallySettled == \A q \in Query : q \in Pending ~> q \notin Pending

\* This step sends the answer to q.
Answers(q) ==
    \E c \in Client : got'[c] # got[c] /\ got'[c][Len(got'[c])].for = q

(* What the test `timeout` says of the bridge: no message is delivered after *)
(* the timeout of its request (ingress_bridge.rs, "check that no message     *)
(* will be delivered after timeout").                                        *)
NoReplyAfterTimeout ==
    [][\A i \in MsgId :
          mtxState[i] # NoEntry /\ Answers(mtxState[i].q) =>
              mtxState[i].age < Timeout]_vars
=============================================================================
