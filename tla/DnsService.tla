----------------------------- MODULE DnsService -----------------------------
(***************************************************************************)
(* The life of a DNS service: run_server of the agent, which owns an       *)
(* egress bridge, a forwarder (the UDP one here) and a session for each    *)
(* connection, and run_client of the sidecars, each of which owns an       *)
(* ingress bridge and the channel client of one connection                 *)
(* (src/dns/service.rs, Server of src/dns/server.rs).                      *)
(*                                                                         *)
(* The parts are tasks that find out of each other's end through channels  *)
(* and sockets, each in its own time.  What they do with messages is the   *)
(* subject of EgressBridge, IngressBridge and DnsChannel.                  *)
(***************************************************************************)
EXTENDS Naturals, Sequences

CONSTANTS
    Sidecar,     \* DNS clients of sidecars, on the one socket of the agent
    Conn,        \* connections; one is used again when nothing refers to it
    Id,          \* the random ids sessions are kept under
    None,        \* no connection, no session
    MaxFaults    \* bound: crashes of the agent, ends of its server, errors of the
                 \* sidecars' UDP sockets and of channels

ASSUME NoneAssumption == None \notin Conn
ASSUME BoundAssumption == MaxFaults \in Nat

VARIABLES
    (* sidecars *)
    client,    \* run_client: "starting", "retrying", "running", "stopping", "ended"
    ingress,   \* the ingress bridge runs
    chan,      \* the connection of the channel client, None when that has ended
    (* connections *)
    near,      \* the sidecar's end is open
    far,       \* the agent's end: "queued", "open" (a session runs), "closed"
    (* the agent *)
    server,    \* run_server: "down", "accepting", "replacing", "draining",
               \* "ending" (bridge, then forwarder)
    queue,     \* connections the listener holds
    sessions,  \* Server::sessions: id -> connection
    awaited,   \* the session whose end the server awaits
    told,      \* sessions told to end
    bridge,    \* the egress bridge: "up", "told", "down"
    fwd,       \* the UDP forwarder: "resolving", "serving", "told", "down"
    faults     \* faults so far

sidecarVars == <<client, ingress, chan>>
serverVars == <<server, queue, sessions, awaited>>
agentVars == <<serverVars, told, bridge, fwd, faults>>
vars == <<sidecarVars, near, far, agentVars>>

TypeOK ==
    /\ client \in [Sidecar -> {"starting", "retrying", "running", "stopping", "ended"}]
    /\ ingress \in [Sidecar -> BOOLEAN]
    /\ chan \in [Sidecar -> Conn \cup {None}]
    /\ \A c \in Sidecar : client[c] \in {"starting", "retrying", "ended"} =>
           ~ingress[c] /\ chan[c] = None
    /\ near \in [Conn -> BOOLEAN]
    /\ far \in [Conn -> {"queued", "open", "closed"}]
    /\ server \in {"down", "accepting", "replacing", "draining", "ending"}
    /\ queue \in Seq(Conn)
    /\ sessions \in [Id -> Conn \cup {None}]
    /\ awaited \in Conn \cup {None}
    /\ told \in SUBSET Conn
    /\ bridge \in {"up", "told", "down"}
    /\ fwd \in {"resolving", "serving", "told", "down"}
    /\ faults \in 0..MaxFaults

NoSessions == [i \in Id |-> None]

Init ==
    /\ client = [c \in Sidecar |-> "starting"]
    /\ ingress = [c \in Sidecar |-> FALSE]
    /\ chan = [c \in Sidecar |-> None]
    /\ near = [k \in Conn |-> FALSE] /\ far = [k \in Conn |-> "closed"]
    /\ server = "down" /\ queue = <<>>
    /\ sessions = NoSessions /\ awaited = None /\ told = {}
    /\ bridge = "down" /\ fwd = "down" /\ faults = 0

Unused(k) ==
    /\ ~near[k] /\ far[k] = "closed"
    /\ awaited # k /\ \A i \in Id : sessions[i] # k

-----------------------------------------------------------------------------
(* run_client of a sidecar.                                                *)

(* start_client_services: the listener takes the connection, then the bridge *)
(* binds the address, then the channel client starts.                        *)
Start(c) ==
    /\ client[c] = "starting" /\ server # "down" /\ ~ingress[c]
    /\ \E k \in Conn : Unused(k)
    /\ LET k == CHOOSE k \in Conn : Unused(k)
       IN  /\ chan' = [chan EXCEPT ![c] = k]
           /\ near' = [near EXCEPT ![k] = TRUE]
           /\ far' = [far EXCEPT ![k] = "queued"]
           /\ queue' = Append(queue, k)
    /\ client' = [client EXCEPT ![c] = "running"]
    /\ ingress' = [ingress EXCEPT ![c] = TRUE]
    /\ UNCHANGED <<server, sessions, awaited, told, bridge, fwd, faults>>

(* No server listens, or the address is taken by a bridge of one's own (and    *)
(* the connection just made is dropped, which happens in no behaviour here). *)
StartFails(c) ==
    /\ client[c] = "starting" /\ (server = "down" \/ ingress[c])
    /\ client' = [client EXCEPT ![c] = "retrying"]
    /\ UNCHANGED <<ingress, chan, near, far, agentVars>>

\* state is left Invalid, whose arm of the match panics
RetryMutant(c) ==
    /\ client[c] = "retrying"
    /\ client' = [client EXCEPT ![c] = "invalid"]
    /\ UNCHANGED <<ingress, chan, near, far, agentVars>>

(* The five seconds after a failure are over. *)
Retry(c) ==
    /\ client[c] = "retrying"
    /\ client' = [client EXCEPT ![c] = "starting"]
    /\ UNCHANGED <<ingress, chan, near, far, agentVars>>

\* the bridge is dropped without being shut down
RestartMutant(c) ==
    /\ client[c] = "running" /\ chan[c] = None
    /\ client' = [client EXCEPT ![c] = "starting"]
    /\ UNCHANGED <<ingress, chan, near, far, agentVars>>

(* The look every five seconds finds that the channel client is done: the    *)
(* bridge is shut down and awaited.                                          *)
Restart(c) ==
    /\ client[c] = "running" /\ chan[c] = None
    /\ client' = [client EXCEPT ![c] = "starting"]
    /\ ingress' = [ingress EXCEPT ![c] = FALSE]
    /\ UNCHANGED <<chan, near, far, agentVars>>

CloseNear(c) ==
    /\ near' = [k \in Conn |-> near[k] /\ k # chan[c]]
    /\ chan' = [chan EXCEPT ![c] = None]

(* Told to end, seen in both waits of five seconds: first the channel client *)
(* is shut down and awaited, then the bridge.                                *)
Stop(c) ==
    /\ client[c] \in {"retrying", "running"}
    /\ client' = [client EXCEPT ![c] = IF @ = "running" THEN "stopping" ELSE "ended"]
    /\ UNCHANGED <<ingress, chan, near, far, agentVars>>

Stopped(c) ==
    /\ client[c] = "stopping" /\ chan[c] = None
    /\ client' = [client EXCEPT ![c] = "ended"]
    /\ ingress' = [ingress EXCEPT ![c] = FALSE]
    /\ UNCHANGED <<chan, near, far, agentVars>>

(* The channel client ends: the agent closed, its bridge is gone, or told. *)
ChannelEnds(c) ==
    /\ chan[c] # None
    /\ far[chan[c]] = "closed" \/ ~ingress[c] \/ client[c] = "stopping"
    /\ CloseNear(c)
    /\ UNCHANGED <<client, ingress, far, agentVars>>

(* An error of a frame or of a write ends it too. *)
ChannelFails(c) ==
    /\ chan[c] # None /\ faults < MaxFaults
    /\ CloseNear(c)
    /\ faults' = faults + 1
    /\ UNCHANGED <<client, ingress, far, serverVars, told, bridge, fwd>>

(* The ingress bridge ends with its channel client. *)
IngressEnds(c) ==
    /\ ingress[c] /\ chan[c] = None
    /\ ingress' = [ingress EXCEPT ![c] = FALSE]
    /\ UNCHANGED <<client, chan, near, far, agentVars>>

IngressFails(c) ==
    /\ ingress[c] /\ faults < MaxFaults
    /\ ingress' = [ingress EXCEPT ![c] = FALSE]
    /\ faults' = faults + 1
    /\ UNCHANGED <<client, chan, near, far, serverVars, told, bridge, fwd>>

-----------------------------------------------------------------------------
(* run_server of the agent.                                                *)

(* start_server_services. *)
Launch ==
    /\ server = "down"
    /\ server' = "accepting" /\ bridge' = "up" /\ fwd' = "resolving"
    /\ UNCHANGED <<sidecarVars, near, far, queue, sessions, awaited, told, faults>>

Done(k) == far[k] # "open"

\* the filter of cleanup the wrong way round: the running sessions go
CleanupMutant(map) ==
    [i \in Id |-> IF map[i] # None /\ far'[map[i]] # "open" THEN map[i] ELSE None]

(* Server::cleanup drops the sessions that are done. *)
Cleanup(map) ==
    [i \in Id |-> IF map[i] # None /\ far'[map[i]] = "open" THEN map[i] ELSE None]

(* accept, Session::launch and Server::accept.  Registering fails when the   *)
(* bridge is gone, and the connection is dropped.  A session under the same  *)
(* id is told to end, and awaited before anything else.                      *)
Accept(i) ==
    /\ server = "accepting" /\ queue # <<>>
    /\ LET k == Head(queue)
           old == sessions[i]
       IN  \/ /\ bridge = "down"
              /\ far' = [far EXCEPT ![k] = "closed"]
              /\ sessions' = Cleanup(sessions)
              /\ UNCHANGED <<server, awaited, told>>
           \/ /\ bridge # "down" /\ old = None
              /\ far' = [far EXCEPT ![k] = "open"]
              /\ sessions' = Cleanup([sessions EXCEPT ![i] = k])
              /\ UNCHANGED <<server, awaited, told>>
           \/ /\ bridge # "down" /\ old # None
              /\ far' = [far EXCEPT ![k] = "open"]
              /\ sessions' = [sessions EXCEPT ![i] = k]
              /\ server' = "replacing" /\ awaited' = old /\ told' = told \cup {old}
    /\ queue' = Tail(queue)
    /\ UNCHANGED <<sidecarVars, near, bridge, fwd, faults>>

Replaced ==
    /\ server = "replacing" /\ Done(awaited)
    /\ server' = "accepting" /\ awaited' = None
    /\ UNCHANGED far
    /\ sessions' = Cleanup(sessions)
    /\ UNCHANGED <<sidecarVars, near, queue, told, bridge, fwd, faults>>

(* Told to end, or an error of the listener: the loop is left. *)
EndServer ==
    /\ server = "accepting" /\ faults < MaxFaults
    /\ server' = "draining" /\ faults' = faults + 1
    /\ UNCHANGED <<sidecarVars, near, far, queue, sessions, awaited, told, bridge, fwd>>

(* Server::shutdown: one session after the other. *)
Drain(i) ==
    /\ server = "draining" /\ awaited = None /\ sessions[i] # None
    /\ awaited' = sessions[i] /\ told' = told \cup {sessions[i]}
    /\ sessions' = [sessions EXCEPT ![i] = None]
    /\ UNCHANGED <<sidecarVars, near, far, server, queue, bridge, fwd, faults>>

Drained ==
    /\ server = "draining" /\ awaited # None /\ Done(awaited)
    /\ awaited' = None
    /\ UNCHANGED <<sidecarVars, near, far, server, queue, sessions, told, bridge, fwd, faults>>

(* bridge.shutdown, then fwd.shutdown, then the listener goes, with the      *)
(* connections it holds.                                                     *)
EndBridge ==
    /\ server = "draining" /\ awaited = None /\ sessions = NoSessions
    /\ server' = "ending"
    /\ bridge' = IF bridge = "up" THEN "told" ELSE bridge
    /\ UNCHANGED <<sidecarVars, near, far, queue, sessions, awaited, told, fwd, faults>>

EndForwarder ==
    /\ server = "ending" /\ bridge = "down" /\ fwd \notin {"told", "down"}
    /\ fwd' = "told"
    /\ UNCHANGED <<sidecarVars, near, far, serverVars, told, bridge, faults>>

CloseAll(conns) == far' = [k \in Conn |-> IF k \in conns THEN "closed" ELSE far[k]]

ServerEnded ==
    /\ server = "ending" /\ bridge = "down" /\ fwd = "down"
    /\ server' = "down" /\ queue' = <<>>
    /\ CloseAll({k \in Conn : far[k] = "queued"})
    /\ UNCHANGED <<sidecarVars, near, sessions, awaited, told, bridge, fwd, faults>>

(* The process dies: every socket is closed, and nothing is left. *)
Crash ==
    /\ server # "down" /\ faults < MaxFaults
    /\ server' = "down" /\ queue' = <<>> /\ sessions' = NoSessions /\ awaited' = None
    /\ CloseAll({k \in Conn : far[k] \in {"queued", "open"}})
    /\ bridge' = "down" /\ fwd' = "down" /\ told' = {} /\ faults' = faults + 1
    /\ UNCHANGED <<sidecarVars, near>>

(* Session::run ends: the sidecar closed, it was told, or the bridge is gone.  *)
(* It sees the last two between two handlers; that a write of it comes to an *)
(* end is assumed here, and what if not is in DnsChannel and ServiceRunner.  *)
SessionEnds(k) ==
    /\ far[k] = "open"
    /\ ~near[k] \/ k \in told \/ bridge = "down"
    /\ far' = [far EXCEPT ![k] = "closed"] /\ told' = told \ {k}
    /\ UNCHANGED <<sidecarVars, near, serverVars, bridge, fwd, faults>>

(* Or a frame is not one, or a write fails. *)
SessionFails(k) ==
    /\ far[k] = "open" /\ faults < MaxFaults
    /\ far' = [far EXCEPT ![k] = "closed"] /\ told' = told \ {k}
    /\ faults' = faults + 1
    /\ UNCHANGED <<sidecarVars, near, serverVars, bridge, fwd>>

(* The egress bridge ends: told, or its forwarder is gone. *)
BridgeEnds ==
    /\ bridge = "told" \/ (bridge = "up" /\ fwd = "down")
    /\ bridge' = "down"
    /\ UNCHANGED <<sidecarVars, near, far, serverVars, told, fwd, faults>>

-----------------------------------------------------------------------------
(* Forwarder::run of the UDP forwarder.                                    *)

(* lookup_host finds addresses.  When it finds none or fails it is called    *)
(* again after a pause, which only a shutdown cuts short: a stuttering step. *)
Resolve ==
    /\ fwd = "resolving"
    /\ fwd' = "serving"
    /\ UNCHANGED <<sidecarVars, near, far, serverVars, told, bridge, faults>>

(* recv_from fails, once in a while after send_to was refused. *)
ForwarderFails ==
    /\ fwd = "serving"
    /\ fwd' = "down"
    /\ UNCHANGED <<sidecarVars, near, far, serverVars, told, bridge, faults>>

(* Told to end, or, once it serves, from_bridge.next() is None. *)
ForwarderEnds ==
    /\ fwd = "told" \/ (fwd = "serving" /\ bridge = "down")
    /\ fwd' = "down"
    /\ UNCHANGED <<sidecarVars, near, far, serverVars, told, bridge, faults>>

-----------------------------------------------------------------------------
Client(c) ==
    \/ Start(c) \/ StartFails(c) \/ Retry(c) \/ Restart(c) \/ Stopped(c)

Server ==
    \/ Launch \/ Replaced \/ Drained \/ EndBridge \/ EndForwarder \/ ServerEnded
    \/ \E i \in Id : Accept(i) \/ Drain(i)

Forwarder == Resolve \/ ForwarderEnds

Next ==
    \/ \E c \in Sidecar :
          \/ Client(c) \/ Stop(c) \/ ChannelEnds(c) \/ ChannelFails(c)
          \/ IngressEnds(c) \/ IngressFails(c)
    \/ Server \/ Forwarder \/ BridgeEnds
    \/ EndServer \/ Crash \/ ForwarderFails
    \/ \E k \in Conn : SessionEnds(k) \/ SessionFails(k)

Spec == Init /\ [][Next]_vars

(* Tasks that can run do; the agent is started anew whenever it is down; the *)
(* upstream's name resolves in the end.  Errors, crashes and ends need not   *)
(* happen.                                                                   *)
Fairness ==
    /\ \A c \in Sidecar : WF_vars(Client(c)) /\ WF_vars(ChannelEnds(c)) /\ WF_vars(IngressEnds(c))
    /\ WF_vars(Server) /\ WF_vars(Forwarder) /\ WF_vars(BridgeEnds)
    /\ \A k \in Conn : WF_vars(SessionEnds(k))

FairSpec == Spec /\ Fairness

-----------------------------------------------------------------------------
(* Properties.                                                             *)

(* Every running session is in the map, or the server awaits its end; and    *)
(* nothing of a server is left when it is down.  The map is what a shutdown  *)
(* goes by, so a session that falls out of it, when an id is used twice or   *)
(* in a cleanup, would run for ever.                                         *)
NothingStray ==
    /\ \A k \in Conn : far[k] = "open" =>
           awaited = k \/ \E i \in Id : sessions[i] = k
    /\ server = "down" => bridge = "down" /\ fwd = "down" /\ sessions = NoSessions

(* Again and again a sidecar has a channel to a session of a bridge that     *)
(* runs, whatever crashed, failed, or took its id, unless it was told to     *)
(* stop, or the forwarder of the agent failed: then the server goes on       *)
(* accepting connections, and drops each.  Assumed is that a session or a    *)
(* channel client which is told is not blocked in a write for good.          *)
Connected(c) ==
    /\ ingress[c] /\ chan[c] # None
    /\ far[chan[c]] = "open" /\ bridge = "up"

Stopping(c) == client[c] \in {"stopping", "ended"}
ForwarderFailed == server # "down" /\ fwd = "down"

Reconnects == \A c \in Sidecar : []<>(Connected(c) \/ Stopping(c) \/ ForwarderFailed)
=============================================================================
