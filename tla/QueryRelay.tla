----------------------------- MODULE QueryRelay -----------------------------
(***************************************************************************)
(* What a DNS bridge promises, whatever its tables, timers and queues:     *)
(* a request is answered at most once; the answer goes to a receiver of    *)
(* the client that asked, and carries the id it asked under.  Requests may *)
(* also be given up at any time (timeout, id collision, lost channel).     *)
(*                                                                         *)
(* EgressBridge and IngressBridge are shown to implement this module.      *)
(***************************************************************************)
EXTENDS Naturals, Sequences

CONSTANTS
    Query,      \* requests
    MsgId,      \* DNS message ids
    Client,     \* client identities
    Receiver,   \* where answers are delivered
    clientOf,   \* the client a receiver belongs to: [Receiver -> Client]
    NoRequest   \* marks a request not made yet

VARIABLES
    req,        \* who asked and under which id, per request
    pending,    \* requests that may still be answered
    got         \* got[r]: what receiver r was handed, oldest first

vars == <<req, pending, got>>

Request == [from : Receiver, id : MsgId]

\* The bridge took request `for` off its books and handed over answer `reply`.
Delivery == [for : Query, reply : Query]

TypeOK ==
    /\ req \in [Query -> Request \cup {NoRequest}]
    /\ pending \subseteq Query
    /\ got \in [Receiver -> Seq(Delivery)]

Init ==
    /\ req = [q \in Query |-> NoRequest]
    /\ pending = {}
    /\ got = [r \in Receiver |-> <<>>]

(* r makes request q; it may be lost on the spot. *)
Ask(r, q, i) ==
    /\ req[q] = NoRequest
    /\ req' = [req EXCEPT ![q] = [from |-> r, id |-> i]]
    /\ pending' \in {pending, pending \cup {q}}
    /\ UNCHANGED got

(* Pending requests are given up. *)
GiveUp ==
    /\ pending' \in SUBSET pending
    /\ UNCHANGED <<req, got>>

(* Request q is settled by handing the answer to question a to r. *)
Deliver(q, a, r) ==
    /\ q \in pending
    /\ req[q] # NoRequest /\ req[a] # NoRequest
    /\ req[a].id = req[q].id
    /\ clientOf[r] = clientOf[req[q].from]
    /\ got' = [got EXCEPT ![r] = Append(@, [for |-> q, reply |-> a])]
    /\ pending' \in SUBSET (pending \ {q})
    /\ UNCHANGED req

Next ==
    \/ \E r \in Receiver, q \in Query, i \in MsgId : Ask(r, q, i)
    \/ GiveUp
    \/ \E q, a \in Query, r \in Receiver : Deliver(q, a, r)

Spec == Init /\ [][Next]_vars

(* No request is answered twice, at one receiver or at two. *)
AnsweredOnce ==
    \A r1, r2 \in Receiver : \A k1 \in DOMAIN got[r1], k2 \in DOMAIN got[r2] :
        got[r1][k1].for = got[r2][k2].for => r1 = r2 /\ k1 = k2
=============================================================================
