---------------------------- MODULE UdpForwarder ----------------------------
(***************************************************************************)
(* The egress bridge with the UDP forwarder behind it                      *)
(* (src/dns/forwarder/udp.rs, Forwarder::run) in the place of the forwarder *)
(* that EgressBridge assumes: it resolves the name of the upstream host,   *)
(* while requests queue up, then sends each to every address it found and  *)
(* returns whatever comes back.  It is shown to be a forwarder as          *)
(* EgressBridge assumes it.                                                *)
(***************************************************************************)
EXTENDS EgressBridge

CONSTANT Hosts   \* IPv4 addresses the name resolves to

ASSUME HostsAssumption == Hosts \in Nat \ {0}

VARIABLES
    fwd,          \* "resolving", "serving", "ended"
    fwdTx,        \* requests the bridge queued: from_bridge
    unanswered    \* for each request, datagrams whose answer is under way

udpVars == <<fwd, fwdTx, unanswered>>

(* The channels are held as long as the task runs, and only what the bridge  *)
(* forwarded is on its way.                                                  *)
UdpTypeOK ==
    /\ fwd \in {"resolving", "serving", "ended"}
    /\ fwdUp <=> fwd # "ended"
    /\ fwdTx \in Seq(Query)
    /\ unanswered \in [Query -> 0..Hosts]

UdpInit ==
    /\ Init
    /\ fwd = "resolving" /\ fwdTx = <<>> /\ unanswered = [q \in Query |-> 0]

(* lookup_host returns addresses; it is called again until it does. *)
Resolve ==
    /\ up /\ fwd = "resolving"
    /\ fwd' = "serving"
    /\ UNCHANGED <<fwdTx, unanswered, vars>>

(* A request of the bridge goes to every address, once.  send_to may fail    *)
(* for some, and datagrams get lost, both ways.                              *)
SendToHosts ==
    /\ up /\ fwd = "serving" /\ fwdTx # <<>>
    /\ fwdTx' = Tail(fwdTx)
    /\ \E n \in 0..Hosts : unanswered' = [unanswered EXCEPT ![Head(fwdTx)] = n]
    /\ UNCHANGED <<fwd, vars>>

\* the send to the bridge inside a loop over the hosts
AnswerMutant(q) ==
    /\ up /\ fwd = "serving" /\ unanswered[q] > 0
    /\ replies < MaxReplies
    /\ unanswered' = [unanswered EXCEPT ![q] = @ - 1]
    /\ replies' = replies + 1
    /\ fwdRx' = fwdRx \o [k \in 1..Hosts |-> q]
    /\ UNCHANGED <<fwd, fwdTx, bridgeVars, fwdUp, session, latest, req, forwarded, got>>

(* An answer is put on the channel to the bridge, whoever it is from.  What  *)
(* is too short for a DNS message is dropped.                                *)
Answer(q) ==
    /\ up /\ fwd = "serving" /\ unanswered[q] > 0
    /\ replies < MaxReplies
    /\ unanswered' = [unanswered EXCEPT ![q] = @ - 1]
    /\ replies' = replies + 1
    /\ fwdRx' = Append(fwdRx, q)
    /\ UNCHANGED <<fwd, fwdTx, bridgeVars, fwdUp, session, latest, req, forwarded, got>>

(* recv_from fails, and the task ends.  (It is told to end, and sees the end *)
(* of from_bridge, only after the bridge: run_server, dns/service.rs.)       *)
SocketError ==
    /\ up /\ fwd = "serving"
    /\ fwd' = "ended" /\ fwdUp' = FALSE
    /\ fwdTx' = <<>> /\ unanswered' = [q \in Query |-> 0]
    /\ UNCHANGED <<bridgeVars, fwdRx, session, latest, req, replies, forwarded, got>>

(* What the bridge forwards is queued here. *)
Forwarding ==
    /\ DNSFromBridge
    /\ fwdTx' = IF fwdUp THEN Append(fwdTx, Head(rx).q) ELSE fwdTx
    /\ UNCHANGED <<fwd, unanswered>>

(* The rest of EgressBridge, all but what stood for the forwarder there. *)
OtherSteps ==
    /\ \/ Registration \/ DNSFromNet \/ TimeoutEvent \/ Shutdown \/ ForwarderGone
       \/ \E s \in Session : Launch(s) \/ CloseSession(s)
       \/ \E s \in Session, q \in Query, i \in MsgId : Ask(s, q, i)
       \/ Tick
    /\ UNCHANGED udpVars

UdpNext ==
    \/ Resolve \/ SendToHosts \/ SocketError \/ Forwarding \/ OtherSteps
    \/ \E q \in Query : Answer(q)

UdpSpec == UdpInit /\ [][UdpNext]_<<vars, udpVars>>

(* Of the forwarder nothing is asked: its host may never resolve or answer. *)
UdpFairSpec == UdpSpec /\ Fairness

-----------------------------------------------------------------------------
(* The forwarder is as EgressBridge assumes: it returns replies to requests  *)
(* it was handed, for as long as it holds the channels, in any order and as  *)
(* often as there are hosts.  What is shown of EgressBridge for any number   *)
(* of replies holds with this forwarder.                                     *)
ImplementsEgress == Spec
=============================================================================
