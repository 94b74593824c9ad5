----------------------------- MODULE TcpTunnel -----------------------------
(***************************************************************************)
(* A TCP connection carried from an application to a service: the sidecar  *)
(* accepts it and connects to the agent's unix socket, the agent accepts   *)
(* that and connects to the service (src/tcp/service.rs), and in each of   *)
(* the two sessions a pair of pumps copies bytes (src/tcp/fwd.rs):         *)
(*                                                                         *)
(*   "up"    app --1--> sidecar --2--> agent --3--> service                *)
(*   "down"  app <--3-- sidecar <--2-- agent <--1-- service                *)
(*                                                                         *)
(* A session ends both its pumps as soon as one has ended, and a pump that *)
(* writes to a full socket notices nothing meanwhile.                      *)
(*                                                                         *)
(* The accept loops are modelled as far as this one connection can tell:   *)
(* other connections are accepted, and the loops end.  Bytes are numbered  *)
(* in the order they are sent.                                             *)
(***************************************************************************)
EXTENDS Naturals, Sequences

CONSTANTS
    Capacity,   \* bytes in transit on a hop: [Hop -> Nat]
    MaxBytes    \* bound: bytes each end sends: [Dir -> Nat]

Node == {"sidecar", "agent"}
Dir == {"up", "down"}
Hop == 1..3

ASSUME CapacityAssumption == Capacity \in [Hop -> Nat \ {0}]
ASSUME MaxBytesAssumption == MaxBytes \in [Dir -> Nat]

Opposite(d) == IF d = "up" THEN "down" ELSE "up"

(* The hop that node n reads in direction d; it writes the next one.       *)
In(n, d) == IF (n = "sidecar") = (d = "up") THEN 1 ELSE 2
Out(n, d) == In(n, d) + 1

(* fwd1 of run_unix_tcp_forwarding reads the TCP socket, fwd2 the unix one. *)
Fwd1(n) == CHOOSE d \in Dir : In(n, d) = 1
Fwd2(n) == Opposite(Fwd1(n))

VARIABLES
    service,   \* the accept loop of each node: "accepting", "ended"
    session,   \* "none", "queued" in the listener, "connecting", "forwarding",
               \* "stopping1", "stopping2" (awaiting a pump it told), "ended"
    held,      \* the session is in the loop's `sessions`
    told,      \* the session's shutdown was sent
    pump,      \* pump[n][d]: "none", "reading", "writing", "ended"
    buf,       \* bytes a pump read and has not written
    hop,       \* hop[d][h]: bytes in transit, eof: the writer is done,
               \* gone: the reader closed its socket
    sent,      \* bytes sent by the source of a direction
    received   \* bytes its other end has read

nodeVars == <<service, session, held, told>>
vars == <<nodeVars, pump, buf, hop, sent, received>>

Pipe == [data : Seq(Nat), eof : BOOLEAN, gone : BOOLEAN]

TypeOK ==
    /\ service \in [Node -> {"accepting", "ended"}]
    /\ session \in [Node -> {"none", "queued", "connecting", "forwarding",
                             "stopping1", "stopping2", "ended"}]
    /\ held \in [Node -> BOOLEAN] /\ told \in [Node -> BOOLEAN]
    /\ \A n \in Node : held[n] => session[n] \notin {"none", "queued"}
    /\ pump \in [Node -> [Dir -> {"none", "reading", "writing", "ended"}]]
    /\ buf \in [Node -> [Dir -> Seq(Nat)]]
    /\ \A n \in Node, d \in Dir : buf[n][d] # <<>> => pump[n][d] = "writing"
    /\ hop \in [Dir -> [Hop -> Pipe]]
    /\ \A d \in Dir, h \in Hop : Len(hop[d][h].data) <= Capacity[h]
    /\ sent \in [Dir -> Nat]
    /\ received \in [Dir -> Seq(Nat)]

NewPipe == [data |-> <<>>, eof |-> FALSE, gone |-> FALSE]

(* The application has connected to the sidecar. *)
Init ==
    /\ service = [n \in Node |-> "accepting"]
    /\ session = [n \in Node |-> IF n = "sidecar" THEN "queued" ELSE "none"]
    /\ held = [n \in Node |-> FALSE] /\ told = [n \in Node |-> FALSE]
    /\ pump = [n \in Node |-> [d \in Dir |-> "none"]]
    /\ buf = [n \in Node |-> [d \in Dir |-> <<>>]]
    /\ hop = [d \in Dir |-> [h \in Hop |-> NewPipe]]
    /\ sent = [d \in Dir |-> 0]
    /\ received = [d \in Dir |-> <<>>]

-----------------------------------------------------------------------------
(* Sockets.                                                                *)

Prefixes(s) == {SubSeq(s, 1, k) : k \in 0..Len(s)}

(* Closing the socket on which a party reads hop (d, i) and writes hop       *)
(* (Opposite(d), o).  If it is TCP and has bytes nobody read, the peer is    *)
(* sent a reset, which overtakes what was written.                           *)
ClosedSocket(pipes, d, i, o) ==
    {[pipes EXCEPT ![d][i].gone = TRUE,
                   ![Opposite(d)][o].eof = TRUE, ![Opposite(d)][o].data = kept] :
        kept \in IF o # 2 /\ pipes[d][i].data # <<>>
                 THEN Prefixes(pipes[Opposite(d)][o].data)
                 ELSE {pipes[Opposite(d)][o].data}}

(* The socket a session was accepted on: it reads what comes "up". *)
CloseAccepted(n) == hop' \in ClosedSocket(hop, "up", In(n, "up"), Out(n, "down"))

-----------------------------------------------------------------------------
(* The accept loops: run_client of the sidecar, run_server of the agent.   *)

Accept(n) ==
    /\ service[n] = "accepting" /\ session[n] = "queued"
    /\ session' = [session EXCEPT ![n] = "connecting"]
    /\ held' = [held EXCEPT ![n] = TRUE]
    /\ UNCHANGED <<service, told, pump, buf, hop, sent, received>>

\* the two lists of sessions_cleanup mixed up: it shuts the others down
AcceptAnotherMutant(n) ==
    /\ service[n] = "accepting" /\ held[n] /\ session[n] # "ended" /\ ~told[n]
    /\ told' = [told EXCEPT ![n] = TRUE]
    /\ held' = [held EXCEPT ![n] = FALSE]
    /\ UNCHANGED <<service, session, pump, buf, hop, sent, received>>

(* Any accept is followed by sessions_cleanup, which takes out what is done. *)
AcceptAnother(n) ==
    /\ service[n] = "accepting" /\ held[n] /\ session[n] = "ended"
    /\ held' = [held EXCEPT ![n] = FALSE]
    /\ UNCHANGED <<service, session, told, pump, buf, hop, sent, received>>

(* The loop is told to end, or its listener fails.  Dropping `sessions` tells *)
(* each; nobody awaits them.  A connection not accepted is closed.            *)
ServiceEnds(n) ==
    /\ service[n] = "accepting"
    /\ service' = [service EXCEPT ![n] = "ended"]
    /\ told' = [told EXCEPT ![n] = @ \/ held[n]]
    /\ held' = [held EXCEPT ![n] = FALSE]
    /\ IF session[n] = "queued"
       THEN session' = [session EXCEPT ![n] = "ended"] /\ CloseAccepted(n)
       ELSE UNCHANGED <<session, hop>>
    /\ UNCHANGED <<pump, buf, sent, received>>

-----------------------------------------------------------------------------
(* A session: run_client_session, run_server_session.                      *)

StartFwds(n) == pump' = [pump EXCEPT ![n] = [d \in Dir |-> "reading"]]

(* connect: to the agent's socket file, or to the service. *)
Connected(n) ==
    /\ session[n] = "connecting"
    /\ n = "sidecar" => service["agent"] = "accepting"
    /\ session' = [m \in Node |-> IF m = n THEN "forwarding"
                                  ELSE IF n = "sidecar" THEN "queued" ELSE session[m]]
    /\ StartFwds(n)
    /\ UNCHANGED <<service, held, told, buf, hop, sent, received>>

(* The connection is refused, or the shutdown comes first. *)
NotConnected(n) ==
    /\ session[n] = "connecting"
    /\ session' = [session EXCEPT ![n] = "ended"]
    /\ CloseAccepted(n)
    /\ UNCHANGED <<service, held, told, pump, buf, sent, received>>

\* the session waits for fwd1 alone
StopFwd1Mutant(n) ==
    /\ session[n] = "forwarding"
    /\ told[n] \/ pump[n][Fwd1(n)] = "ended"
    /\ session' = [session EXCEPT ![n] = "stopping1"]
    /\ UNCHANGED <<service, held, told, pump, buf, hop, sent, received>>

(* select!: a pump has ended, or the shutdown has come; fwd1 is told. *)
StopFwd1(n) ==
    /\ session[n] = "forwarding"
    /\ told[n] \/ \E d \in Dir : pump[n][d] = "ended"
    /\ session' = [session EXCEPT ![n] = "stopping1"]
    /\ UNCHANGED <<service, held, told, pump, buf, hop, sent, received>>

(* fwd1 has ended, and fwd2 is told. *)
StopFwd2(n) ==
    /\ session[n] = "stopping1" /\ pump[n][Fwd1(n)] = "ended"
    /\ session' = [session EXCEPT ![n] = "stopping2"]
    /\ UNCHANGED <<service, held, told, pump, buf, hop, sent, received>>

SessionEnds(n) ==
    /\ session[n] = "stopping2" /\ pump[n][Fwd2(n)] = "ended"
    /\ session' = [session EXCEPT ![n] = "ended"]
    /\ UNCHANGED <<service, held, told, pump, buf, hop, sent, received>>

-----------------------------------------------------------------------------
(* The pumps.                                                              *)

(* A pump drops the two halves it holds: the half it writes ends the stream, *)
(* and a socket is closed once both pumps have dropped their halves of it.   *)
PumpEnds(n, d) ==
    /\ pump' = [pump EXCEPT ![n][d] = "ended"]
    /\ buf' = [buf EXCEPT ![n][d] = <<>>]
    /\ LET done == [hop EXCEPT ![d][Out(n, d)].eof = TRUE]
           e == Opposite(d)
       IN  IF pump[n][e] # "ended" THEN hop' = done
           ELSE \E half \in ClosedSocket(done, d, In(n, d), Out(n, e)) :
                    hop' \in ClosedSocket(half, e, In(n, e), Out(n, d))

Read(n, d) ==
    LET pipe == hop[d][In(n, d)]
    IN  /\ pump[n][d] = "reading" /\ pipe.data # <<>>
        /\ buf' = [buf EXCEPT ![n][d] = pipe.data]
        /\ hop' = [hop EXCEPT ![d][In(n, d)].data = <<>>]
        /\ pump' = [pump EXCEPT ![n][d] = "writing"]
        /\ UNCHANGED <<nodeVars, sent, received>>

(* read returns 0 or an error, or the shutdown wins. *)
StopReading(n, d) ==
    /\ pump[n][d] = "reading"
    /\ \/ hop[d][In(n, d)].eof /\ hop[d][In(n, d)].data = <<>>
       \/ session[n] = "stopping1" /\ d = Fwd1(n)
       \/ session[n] = "stopping2"
    /\ PumpEnds(n, d)
    /\ UNCHANGED <<nodeVars, sent, received>>

\* write in the place of write_all: what did not fit is left in the buffer
WriteMutant(n, d) ==
    LET o == Out(n, d)
    IN  /\ pump[n][d] = "writing"
        /\ ~hop[d][o].gone /\ Len(hop[d][o].data) < Capacity[o]
        /\ hop' = [hop EXCEPT ![d][o].data = Append(@, Head(buf[n][d]))]
        /\ buf' = [buf EXCEPT ![n][d] = Tail(@)]
        /\ pump' = [pump EXCEPT ![n][d] = "reading"]
        /\ UNCHANGED <<nodeVars, sent, received>>

(* write_all puts byte after byte into the socket while there is room.  What *)
(* is written to a TCP peer that closed may still be taken, and vanishes.    *)
Write(n, d) ==
    LET o == Out(n, d)
    IN  /\ pump[n][d] = "writing"
        /\ \/ /\ ~hop[d][o].gone /\ Len(hop[d][o].data) < Capacity[o]
              /\ hop' = [hop EXCEPT ![d][o].data = Append(@, Head(buf[n][d]))]
           \/ hop[d][o].gone /\ o = 3 /\ UNCHANGED hop
        /\ buf' = [buf EXCEPT ![n][d] = Tail(@)]
        /\ pump' = [pump EXCEPT ![n][d] = IF Len(buf[n][d]) = 1 THEN "reading" ELSE @]
        /\ UNCHANGED <<nodeVars, sent, received>>

WriteFails(n, d) ==
    /\ pump[n][d] = "writing" /\ hop[d][Out(n, d)].gone
    /\ PumpEnds(n, d)
    /\ UNCHANGED <<nodeVars, sent, received>>

-----------------------------------------------------------------------------
(* The two ends: the application, and the service once it is connected.    *)

Live(d) == d = "up" \/ pump["agent"]["up"] # "none"

Send(d) ==
    /\ Live(d) /\ ~hop[d][1].eof /\ ~hop[d][1].gone
    /\ sent[d] < MaxBytes[d] /\ Len(hop[d][1].data) < Capacity[1]
    /\ sent' = [sent EXCEPT ![d] = @ + 1]
    /\ hop' = [hop EXCEPT ![d][1].data = Append(@, sent[d] + 1)]
    /\ UNCHANGED <<nodeVars, pump, buf, received>>

Receive(d) ==
    /\ hop[d][3].data # <<>> /\ ~hop[d][3].gone
    /\ received' = [received EXCEPT ![d] = Append(@, Head(hop[d][3].data))]
    /\ hop' = [hop EXCEPT ![d][3].data = Tail(@)]
    /\ UNCHANGED <<nodeVars, pump, buf, sent>>

(* The source of d sends no more: it shuts its socket down one way. *)
HalfClose(d) ==
    /\ Live(d) /\ ~hop[d][1].eof
    /\ hop' = [hop EXCEPT ![d][1].eof = TRUE]
    /\ UNCHANGED <<nodeVars, pump, buf, sent, received>>

(* The source of d, which reads the other direction, closes its socket. *)
Close(d) ==
    /\ Live(d) /\ ~hop[Opposite(d)][3].gone
    /\ hop' \in ClosedSocket(hop, Opposite(d), 3, 1)
    /\ UNCHANGED <<nodeVars, pump, buf, sent, received>>

Pump(n, d) == Read(n, d) \/ StopReading(n, d) \/ Write(n, d) \/ WriteFails(n, d)

Session(n) ==
    Connected(n) \/ NotConnected(n) \/ StopFwd1(n) \/ StopFwd2(n) \/ SessionEnds(n)

Next ==
    \/ \E n \in Node :
          Accept(n) \/ AcceptAnother(n) \/ ServiceEnds(n) \/ Session(n)
    \/ \E n \in Node, d \in Dir : Pump(n, d)
    \/ \E d \in Dir : Send(d) \/ Receive(d) \/ HalfClose(d) \/ Close(d)

Spec == Init /\ [][Next]_vars

(* Tasks that can run do; connect returns; both ends go on reading, as long  *)
(* as they have not closed.  Nobody needs to send, close, or shut down.      *)
Fairness ==
    /\ \A n \in Node : WF_vars(Accept(n)) /\ WF_vars(Session(n))
    /\ \A n \in Node, d \in Dir : WF_vars(Pump(n, d))
    /\ \A d \in Dir : WF_vars(Receive(d))

FairSpec == Spec /\ Fairness

-----------------------------------------------------------------------------
(* Properties.                                                             *)

(* Nothing is reordered, doubled, or lost with bytes behind it delivered. *)
InOrder(d) ==
    /\ Len(received[d]) <= sent[d]
    /\ \A k \in DOMAIN received[d] : received[d][k] = k

(* Whether anything else could have ended the tunnel: the other end sent or  *)
(* closed, a session was told to end.                                        *)
Quiet(d) ==
    /\ sent[Opposite(d)] = 0 /\ ~hop[Opposite(d)][1].eof /\ ~hop[d][3].gone
    /\ \A n \in Node : service[n] = "accepting"

(* What an end receives is what the other sent, in order; and if it sees the *)
(* end of the stream, and did nothing itself, it has everything: closing at  *)
(* once after the last byte loses none, although a pump that ends takes the  *)
(* session, its other pump and both sockets with it, on either side.         *)
AtEof(d) == hop[d][3].eof /\ hop[d][3].data = <<>>

BytesIntact ==
    \A d \in Dir : InOrder(d) /\ (AtEof(d) /\ Quiet(d) => Len(received[d]) = sent[d])

(* When an end stops sending, or a session is told to end, all four pumps and *)
(* both sessions end: neither side keeps a tunnel the other has left.         *)
Over ==
    \/ \E d \in Dir : hop[d][1].eof \/ hop[d][3].gone
    \/ \E n \in Node : told[n] \/ session[n] = "ended"

TearsDown == Over ~> \A n \in Node : session[n] \in {"none", "ended"}
=============================================================================
