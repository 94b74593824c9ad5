-------------------------- MODULE DnsServiceProofs --------------------------
(***************************************************************************)
(* The safety of DnsService for any number of sidecars, connections, ids   *)
(* and faults.                                                             *)
(***************************************************************************)
EXTENDS DnsService, SequenceTheorems, TLAPS

(* A session is awaited only where the server stops to await one, and a      *)
(* server that is through with its sessions has none left.                   *)
PhaseInv ==
    /\ server \notin {"replacing", "draining"} => awaited = None
    /\ server \in {"down", "ending"} => sessions = NoSessions
    /\ server = "down" => bridge = "down" /\ fwd = "down"

(* What keeps a session from being forgotten. *)
Accounted == \A k \in Conn : far[k] = "open" => awaited = k \/ \E i \in Id : sessions[i] = k

IInv == TypeOK /\ PhaseInv /\ Accounted

-----------------------------------------------------------------------------
LEMMA InvInit == Init => IInv
  BY EmptySeq, BoundAssumption
  DEF Init, IInv, TypeOK, PhaseInv, Accounted, NoSessions

(* A map of sessions stays one when it is cleaned up. *)
LEMMA CleanupType ==
    ASSUME NEW map \in [Id -> Conn \cup {None}]
    PROVE  Cleanup(map) \in [Id -> Conn \cup {None}]
  BY DEF Cleanup

LEMMA TakeQueue ==
    ASSUME queue \in Seq(Conn), queue # <<>>
    PROVE  Head(queue) \in Conn /\ Tail(queue) \in Seq(Conn)
  BY HeadTailProperties

(* Steps of a sidecar leave the agent's side alone, but for the connection   *)
(* that it opens.                                                            *)
LEMMA SidecarStep ==
    ASSUME IInv, NEW c \in Sidecar,
           \/ Client(c) \/ Stop(c) \/ ChannelEnds(c) \/ ChannelFails(c)
           \/ IngressEnds(c) \/ IngressFails(c)
    PROVE  IInv'
<1>. USE DEF IInv, TypeOK
<1>1. CASE Start(c)
  <2>. DEFINE k == CHOOSE j \in Conn : Unused(j)
  <2>1. k \in Conn
    BY <1>1 DEF Start
  <2>2. /\ chan' = [chan EXCEPT ![c] = k] /\ near' = [near EXCEPT ![k] = TRUE]
        /\ far' = [far EXCEPT ![k] = "queued"] /\ queue' = Append(queue, k)
        /\ client' = [client EXCEPT ![c] = "running"]
        /\ ingress' = [ingress EXCEPT ![c] = TRUE]
        /\ UNCHANGED <<server, sessions, awaited, told, bridge, fwd, faults>>
    BY <1>1 DEF Start
  <2>. HIDE DEF k
  <2>3. queue' \in Seq(Conn)
    BY <2>1, <2>2, AppendProperties
  <2>4. TypeOK'
    BY <2>1, <2>2, <2>3
  <2>. QED  BY <2>1, <2>2, <2>4 DEF PhaseInv, Accounted, NoSessions
<1>2. CASE StartFails(c) \/ Retry(c) \/ Restart(c) \/ Stopped(c) \/ Stop(c) \/ IngressEnds(c)
  <2>1. UNCHANGED <<near, far, agentVars>>
    BY <1>2 DEF StartFails, Retry, Restart, Stopped, Stop, IngressEnds
  <2>2. TypeOK'
    BY <1>2, <2>1
    DEF StartFails, Retry, Restart, Stopped, Stop, IngressEnds, agentVars, serverVars
  <2>. QED  BY <2>1, <2>2 DEF PhaseInv, Accounted, NoSessions, agentVars, serverVars
<1>3. CASE ChannelEnds(c) \/ ChannelFails(c)
  <2>1. /\ UNCHANGED <<client, ingress, far, serverVars, told, bridge, fwd>>
        /\ CloseNear(c)
    BY <1>3 DEF ChannelEnds, ChannelFails, agentVars
  <2>2. faults' \in 0..MaxFaults
    BY <1>3, BoundAssumption DEF ChannelEnds, ChannelFails, agentVars
  <2>3. TypeOK'
    BY <2>1, <2>2 DEF CloseNear, serverVars
  <2>. QED  BY <2>1, <2>3 DEF PhaseInv, Accounted, NoSessions, serverVars
<1>4. CASE IngressFails(c)
  <2>1. TypeOK'
    BY <1>4, BoundAssumption DEF IngressFails, serverVars
  <2>. QED  BY <1>4, <2>1 DEF IngressFails, PhaseInv, Accounted, NoSessions, serverVars
<1>. QED  BY <1>1, <1>2, <1>3, <1>4 DEF Client

(* accept: the new session is in the map, and the one it pushes out of it    *)
(* is awaited; a cleanup takes out no session that runs.                     *)
LEMMA AcceptStep ==
    ASSUME IInv, NEW i \in Id, Accept(i)
    PROVE  IInv'
<1>. DEFINE k == Head(queue)
<1>1. /\ k \in Conn /\ queue' \in Seq(Conn)
      /\ server = "accepting" /\ awaited = None
      /\ UNCHANGED <<sidecarVars, near, bridge, fwd, faults>>
  BY TakeQueue DEF Accept, IInv, TypeOK, PhaseInv
<1>2. CASE /\ bridge = "down" /\ far' = [far EXCEPT ![k] = "closed"]
           /\ sessions' = Cleanup(sessions) /\ UNCHANGED <<server, awaited, told>>
  <2>1. TypeOK'
    BY <1>1, <1>2, CleanupType DEF IInv, TypeOK, sidecarVars
  <2>2. Accounted'
    BY <1>1, <1>2, NoneAssumption DEF IInv, TypeOK, Accounted, Cleanup
  <2>. QED  BY <1>1, <1>2, <2>1, <2>2 DEF IInv, PhaseInv
<1>3. CASE /\ bridge # "down" /\ sessions[i] = None /\ far' = [far EXCEPT ![k] = "open"]
           /\ sessions' = Cleanup([sessions EXCEPT ![i] = k])
           /\ UNCHANGED <<server, awaited, told>>
  <2>1. [sessions EXCEPT ![i] = k] \in [Id -> Conn \cup {None}]
    BY <1>1 DEF IInv, TypeOK
  <2>2. TypeOK'
    BY <1>1, <1>3, <2>1, CleanupType DEF IInv, TypeOK, sidecarVars
  <2>3. Accounted'
    BY <1>1, <1>3, NoneAssumption DEF IInv, TypeOK, Accounted, Cleanup
  <2>. QED  BY <1>1, <1>3, <2>2, <2>3 DEF IInv, PhaseInv
<1>4. CASE /\ bridge # "down" /\ sessions[i] # None /\ far' = [far EXCEPT ![k] = "open"]
           /\ sessions' = [sessions EXCEPT ![i] = k] /\ server' = "replacing"
           /\ awaited' = sessions[i] /\ told' = told \cup {sessions[i]}
  <2>1. TypeOK'
    BY <1>1, <1>4 DEF IInv, TypeOK, sidecarVars
  <2>2. Accounted'
    BY <1>1, <1>4, NoneAssumption DEF IInv, TypeOK, Accounted
  <2>. QED  BY <1>1, <1>4, <2>1, <2>2 DEF IInv, PhaseInv
<1>. QED  BY <1>2, <1>3, <1>4 DEF Accept

LEMMA ServerStep ==
    ASSUME IInv, Server
    PROVE  IInv'
<1>1. CASE Launch
  BY <1>1 DEF Launch, IInv, TypeOK, PhaseInv, Accounted, NoSessions, sidecarVars
<1>2. CASE Replaced
  <2>1. sessions' \in [Id -> Conn \cup {None}]
    BY <1>2, CleanupType DEF Replaced, IInv, TypeOK
  <2>2. Accounted'
    BY <1>2, NoneAssumption DEF Replaced, Done, IInv, TypeOK, Accounted, Cleanup
  <2>. QED  BY <1>2, <2>1, <2>2 DEF Replaced, IInv, TypeOK, PhaseInv, sidecarVars
<1>3. CASE Drained
  BY <1>3 DEF Drained, Done, IInv, TypeOK, PhaseInv, Accounted, NoSessions, sidecarVars
<1>4. CASE EndBridge \/ EndForwarder
  BY <1>4 DEF EndBridge, EndForwarder, IInv, TypeOK, PhaseInv, Accounted, NoSessions,
              sidecarVars, serverVars
<1>5. CASE ServerEnded
  <2>1. queue' \in Seq(Conn)
    BY <1>5, EmptySeq DEF ServerEnded
  <2>. QED
    BY <1>5, <2>1 DEF ServerEnded, CloseAll, IInv, TypeOK, PhaseInv, Accounted, NoSessions,
                      sidecarVars
<1>6. ASSUME NEW i \in Id, Drain(i)
      PROVE  IInv'
  <2>1. TypeOK'
    BY <1>6 DEF Drain, IInv, TypeOK, sidecarVars
  <2>2. Accounted'
    BY <1>6, NoneAssumption DEF Drain, IInv, TypeOK, Accounted
  <2>. QED  BY <1>6, <2>1, <2>2 DEF Drain, IInv, PhaseInv
<1>. QED
  BY <1>1, <1>2, <1>3, <1>4, <1>5, <1>6, AcceptStep DEF Server

(* Tasks that end, and the process that dies. *)
LEMMA EndingStep ==
    ASSUME IInv,
           \/ Forwarder \/ BridgeEnds \/ EndServer \/ Crash \/ ForwarderFails
           \/ \E k \in Conn : SessionEnds(k) \/ SessionFails(k)
    PROVE  IInv'
<1>1. CASE Forwarder \/ BridgeEnds \/ ForwarderFails
  BY <1>1 DEF Forwarder, Resolve, ForwarderEnds, BridgeEnds, ForwarderFails, IInv, TypeOK,
              PhaseInv, Accounted, NoSessions, sidecarVars, serverVars
<1>2. CASE EndServer
  BY <1>2, BoundAssumption
  DEF EndServer, IInv, TypeOK, PhaseInv, Accounted, NoSessions, sidecarVars
<1>3. CASE Crash
  <2>1. queue' \in Seq(Conn) /\ sessions' \in [Id -> Conn \cup {None}]
    BY <1>3, EmptySeq DEF Crash, NoSessions
  <2>2. TypeOK'
    BY <1>3, <2>1, BoundAssumption DEF Crash, CloseAll, IInv, TypeOK, sidecarVars
  <2>. QED
    BY <1>3, <2>2 DEF Crash, CloseAll, IInv, TypeOK, PhaseInv, Accounted, NoSessions
<1>4. ASSUME NEW k \in Conn, SessionEnds(k) \/ SessionFails(k)
      PROVE  IInv'
  BY <1>4, BoundAssumption
  DEF SessionEnds, SessionFails, IInv, TypeOK, PhaseInv, Accounted, NoSessions, sidecarVars,
      serverVars
<1>. QED  BY <1>1, <1>2, <1>3, <1>4

LEMMA InvStep == IInv /\ [Next]_vars => IInv'
<1>. SUFFICES ASSUME IInv, [Next]_vars PROVE IInv'
  OBVIOUS
<1>1. CASE UNCHANGED vars
  BY <1>1 DEF vars, sidecarVars, agentVars, serverVars, IInv, TypeOK, PhaseInv, Accounted,
              NoSessions
<1>. QED  BY <1>1, SidecarStep, ServerStep, EndingStep DEF Next

LEMMA Invariance == Spec => []IInv
  BY InvInit, InvStep, PTL DEF Spec

(* A sidecar that does not run has neither bridge nor channel, and no state  *)
(* of run_client is the Invalid one, whose arm panics.                       *)
THEOREM TypeCorrect == Spec => []TypeOK
<1>1. IInv => TypeOK
  BY DEF IInv
<1>. QED  BY <1>1, Invariance, PTL

(* However often ids collide, and wherever the server ends or dies: every    *)
(* running session is in the map or awaited, and a server that is down has   *)
(* neither bridge, forwarder nor sessions.                                   *)
THEOREM NothingStrayHolds == Spec => []NothingStray
<1>1. IInv => NothingStray
  BY DEF IInv, PhaseInv, Accounted, NothingStray
<1>. QED  BY <1>1, Invariance, PTL

-----------------------------------------------------------------------------
(* What the server awaits has been told to end, or is over; and once it      *)
(* waits for the bridge, the bridge was told.                                *)
AwaitsOnlyTold ==
    /\ server = "replacing" => awaited # None
    /\ awaited # None => awaited \in told \/ Done(awaited)
    /\ server = "ending" => bridge # "up"

LEMMA AwaitsStep ==
    ASSUME IInv, AwaitsOnlyTold, [Next]_vars
    PROVE  AwaitsOnlyTold'
<1>. USE NoneAssumption DEF IInv, TypeOK, PhaseInv
<1>1. ASSUME NEW c \in Sidecar, Start(c) PROVE AwaitsOnlyTold'
  <2>. DEFINE k == CHOOSE j \in Conn : Unused(j)
  <2>1. /\ k \in Conn /\ awaited # k /\ far' = [far EXCEPT ![k] = "queued"]
        /\ UNCHANGED <<server, awaited, told, bridge>>
    BY <1>1 DEF Start, Unused
  <2>. HIDE DEF k
  <2>. QED  BY <2>1 DEF AwaitsOnlyTold, Done
<1>2. ASSUME NEW c \in Sidecar,
             \/ StartFails(c) \/ Retry(c) \/ Restart(c) \/ Stopped(c) \/ Stop(c)
             \/ ChannelEnds(c) \/ ChannelFails(c) \/ IngressEnds(c) \/ IngressFails(c)
      PROVE  AwaitsOnlyTold'
  <2>1. UNCHANGED <<server, awaited, told, bridge, far>>
    BY <1>2 DEF StartFails, Retry, Restart, Stopped, Stop, ChannelEnds, ChannelFails,
       CloseNear, IngressEnds, IngressFails, agentVars, serverVars
  <2>. QED  BY <2>1 DEF AwaitsOnlyTold, Done
<1>3. ASSUME NEW i \in Id, Accept(i) PROVE AwaitsOnlyTold'
  <2>1. server = "accepting" /\ awaited = None /\ bridge' = bridge
    BY <1>3 DEF Accept
  <2>2. \/ UNCHANGED <<server, awaited>>
        \/ server' = "replacing" /\ awaited' # None /\ awaited' \in told'
    BY <1>3 DEF Accept
  <2>. QED  BY <2>1, <2>2 DEF AwaitsOnlyTold
<1>4. ASSUME NEW i \in Id, Drain(i) PROVE AwaitsOnlyTold'
  BY <1>4 DEF Drain, AwaitsOnlyTold, Done
<1>5. CASE Launch \/ Replaced \/ Drained \/ EndBridge \/ EndForwarder \/ ServerEnded
  <2>1. CASE Launch \/ ServerEnded
    BY <2>1 DEF Launch, ServerEnded, AwaitsOnlyTold
  <2>2. CASE Replaced \/ Drained
    BY <2>2 DEF Replaced, Drained, AwaitsOnlyTold
  <2>3. CASE EndBridge \/ EndForwarder
    BY <2>3 DEF EndBridge, EndForwarder, serverVars, AwaitsOnlyTold, Done
  <2>. QED  BY <1>5, <2>1, <2>2, <2>3
<1>6. CASE Forwarder \/ BridgeEnds \/ ForwarderFails
  <2>1. UNCHANGED <<server, awaited, told, far>> /\ (bridge' = bridge \/ bridge' = "down")
    BY <1>6 DEF Forwarder, Resolve, ForwarderEnds, BridgeEnds, ForwarderFails, serverVars
  <2>. QED  BY <2>1 DEF AwaitsOnlyTold, Done
<1>7. CASE EndServer \/ Crash
  BY <1>7 DEF EndServer, Crash, AwaitsOnlyTold
<1>8. ASSUME NEW k \in Conn, SessionEnds(k) \/ SessionFails(k) PROVE AwaitsOnlyTold'
  BY <1>8 DEF SessionEnds, SessionFails, serverVars, AwaitsOnlyTold, Done
<1>9. CASE UNCHANGED vars
  BY <1>9 DEF vars, sidecarVars, agentVars, serverVars, AwaitsOnlyTold, Done
<1>. QED
  BY <1>1, <1>2, <1>3, <1>4, <1>5, <1>6, <1>7, <1>8, <1>9 DEF Next, Client, Server

(* run_server never waits in vain: every session it awaits, when an id comes *)
(* twice and at its own end, has been told or is over, and so has the bridge *)
(* once the sessions are gone.  This is the part of Reconnects that is about *)
(* the order of the calls.                                                   *)
THEOREM AwaitsOnlyToldHolds == Spec => []AwaitsOnlyTold
<1>1. Init => AwaitsOnlyTold
  BY DEF Init, AwaitsOnlyTold
<1>. QED  BY <1>1, AwaitsStep, Invariance, PTL DEF Spec
=============================================================================
