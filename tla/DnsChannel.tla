----------------------------- MODULE DnsChannel -----------------------------
(***************************************************************************)
(* The channel between a sidecar and an agent: a unix socket with the      *)
(* client task (src/dns/client.rs, Client::run) at one end and a session   *)
(* task (src/dns/server.rs, Session::run) at the other.  The two loops are *)
(* the same: wait for a message of the local bridge, for a frame of the    *)
(* socket, or for the shutdown, and handle it.                             *)
(*                                                                         *)
(* Two things make the loop delicate.  A frame that is half read when      *)
(* another branch wins is dropped with its future (FrameReader).  And a    *)
(* handler that writes to a full socket waits inside the iteration, where  *)
(* the end neither reads nor sees its shutdown.                            *)
(*                                                                         *)
(* The kernel takes a write of at most Whole bytes in one piece: the length, *)
(* and all messages but long ones.  A longer write may go in parts, so that  *)
(* the reader finds a message half there.  The ingress bridge sends at most  *)
(* 1524 bytes and the UDP forwarder 2048, which fit in one piece of the      *)
(* socket's buffers; the TCP forwarder up to 65535, which may not.           *)
(* Capacity counts bytes: a piece waits until there is room for it.          *)
(***************************************************************************)
EXTENDS FrameReader, SequencesExt

CONSTANTS
    Message,      \* DNS messages: sequences of at least two bytes
    Capacity,     \* bytes a direction of the socket holds, by the end that reads
    Whole,        \* bytes of a write that the socket takes in one piece
    MaxMessages   \* bound: messages each bridge hands to its end: [End -> Nat]

End == {"client", "session"}
Peer(p) == IF p = "client" THEN "session" ELSE "client"

ASSUME MessageAssumption == \A m \in Message : m \in Seq(Byte) /\ Len(m) \in 2..MaxLen
ASSUME WholeAssumption == Whole \in Nat /\ Whole >= 2
ASSUME CapacityAssumption == Capacity \in [End -> Nat]

VARIABLES
    state,      \* "select": waiting for an event; "writing"; "ended"; "failed"
    inbox,      \* messages the local bridge queued for this end
    out,        \* the writes left of the send_dns_message in progress
    sock,       \* bytes in the socket, by the end that will read them
    reader,     \* the DNSMessageReader, with the read in progress
    stop,       \* "no"; "shutdown" was called; the local "bridge" is gone
    (* history *)
    sent,       \* messages the local bridge queued, ever
    delivered,  \* messages this end handed to its bridge
    lost        \* this end dropped a read that had taken bytes

vars == <<state, inbox, out, sock, reader, stop, sent, delivered, lost>>

TypeOK ==
    /\ state \in [End -> {"select", "writing", "ended", "failed"}]
    /\ inbox \in [End -> Seq(Message)]
    /\ out \in [End -> Seq(Seq(Byte))]
    /\ \A p \in End : out[p] # <<>> <=> state[p] = "writing"
    /\ sock \in [End -> Seq(Byte)]
    /\ \A p \in End : Len(sock[p]) <= Capacity[p]
    /\ reader \in [End -> Reader]
    /\ stop \in [End -> {"no", "shutdown", "bridge"}]
    /\ sent \in [End -> Seq(Message)]
    /\ delivered \in [End -> Seq(Seq(Byte))]
    /\ lost \in [End -> BOOLEAN]

Init ==
    /\ state = [p \in End |-> "select"]
    /\ inbox = [p \in End |-> <<>>]
    /\ out = [p \in End |-> <<>>]
    /\ sock = [p \in End |-> <<>>]
    /\ reader = [p \in End |-> NewReader]
    /\ stop = [p \in End |-> "no"]
    /\ sent = [p \in End |-> <<>>]
    /\ delivered = [p \in End |-> <<>>]
    /\ lost = [p \in End |-> FALSE]

Running(p) == state[p] \in {"select", "writing"}

-----------------------------------------------------------------------------
(* The bridge at each end, and the owner of each task.                     *)

Queue(p, m) ==
    /\ Running(p) /\ stop[p] # "bridge"
    /\ Len(sent[p]) < MaxMessages[p]
    /\ inbox' = [inbox EXCEPT ![p] = Append(@, m)]
    /\ sent' = [sent EXCEPT ![p] = Append(@, m)]
    /\ UNCHANGED <<state, out, sock, reader, stop, delivered, lost>>

(* Client::shutdown, Session::shutdown, or the bridge drops its channel ends. *)
Stop(p, how) ==
    /\ Running(p) /\ stop[p] = "no"
    /\ stop' = [stop EXCEPT ![p] = how]
    /\ UNCHANGED <<state, inbox, out, sock, reader, sent, delivered, lost>>

-----------------------------------------------------------------------------
(* The loop.                                                               *)

(* The loop breaks: the socket end is closed with the task. *)
Finish(p, how) ==
    /\ state' = [state EXCEPT ![p] = how]
    /\ out' = [out EXCEPT ![p] = <<>>]
    /\ reader' = [reader EXCEPT ![p] = NewReader]

(* select! polls the read: a branch that is polled before another one wins, *)
(* or whenever bytes arrive.  A message ends the iteration.                 *)
PollRead(p) ==
    /\ state[p] = "select" /\ sock[p] # <<>>
    /\ LET poll == Poll(reader[p], sock[p])
       IN  /\ sock' = [sock EXCEPT ![p] = poll.rest]
           /\ IF poll.res = "error" THEN Finish(p, "failed")
              ELSE /\ reader' = [reader EXCEPT ![p] = poll.reader]
                   /\ UNCHANGED <<state, out>>
           /\ delivered' = IF poll.res = "message" /\ stop[p] # "bridge"
                           THEN [delivered EXCEPT ![p] = Append(@, poll.msg)]
                           ELSE delivered
    /\ UNCHANGED <<inbox, stop, sent, lost>>

(* UnexpectedEof: the other end closed the socket, and its bytes are read. *)
ReadEof(p) ==
    /\ state[p] = "select" /\ sock[p] = <<>> /\ ~Running(Peer(p))
    /\ Finish(p, "ended")
    /\ UNCHANGED <<inbox, sock, stop, sent, delivered, lost>>

(* DNSFromBridge: the read in progress is dropped, the handler writes. *)
DNSFromBridge(p) ==
    /\ state[p] = "select" /\ inbox[p] # <<>>
    /\ reader' = [reader EXCEPT ![p] = DropRead(@)]
    /\ out' = [out EXCEPT ![p] = Writes(Head(inbox[p]))]
    /\ state' = [state EXCEPT ![p] = "writing"]
    /\ inbox' = [inbox EXCEPT ![p] = Tail(@)]
    /\ lost' = [lost EXCEPT ![p] = @ \/ reader[p].buf # <<>>]
    /\ UNCHANGED <<sock, stop, sent, delivered>>

(* The write that stands is taken whole or, only if it is long, in part. *)
CanTake(p, k) ==
    /\ k < Len(Head(out[p])) => Len(Head(out[p])) > Whole
    /\ Len(sock[Peer(p)]) + k <= Capacity[Peer(p)]

(* The writes left once the first k bytes are taken. *)
After(writes, k) ==
    IF k = Len(Head(writes)) THEN Tail(writes)
    ELSE <<SubSeq(Head(writes), k + 1, Len(Head(writes)))>> \o Tail(writes)

\* send_dns_message returns after the length
WriteLengthMutant(p) ==
    /\ state[p] = "writing" /\ Running(Peer(p))
    /\ CanTake(p, 2)
    /\ sock' = [sock EXCEPT ![Peer(p)] = @ \o Head(out[p])]
    /\ out' = [out EXCEPT ![p] = Tail(@)]
    /\ state' = [state EXCEPT ![p] = "select"]
    /\ UNCHANGED <<inbox, reader, stop, sent, delivered, lost>>

(* write_all: the socket takes bytes of the write that stands; the handler   *)
(* is done with the last of them.                                            *)
Write(p) ==
    /\ state[p] = "writing" /\ Running(Peer(p))
    /\ \E k \in 1..Len(Head(out[p])) :
          /\ CanTake(p, k)
          /\ sock' = [sock EXCEPT ![Peer(p)] = @ \o SubSeq(Head(out[p]), 1, k)]
          /\ out' = [out EXCEPT ![p] = After(@, k)]
    /\ state' = [state EXCEPT ![p] = IF out'[p] = <<>> THEN "select" ELSE "writing"]
    /\ UNCHANGED <<inbox, reader, stop, sent, delivered, lost>>

(* The other end is gone: write_all fails and the loop breaks. *)
WriteFails(p) ==
    /\ state[p] = "writing" /\ ~Running(Peer(p))
    /\ Finish(p, "ended")
    /\ UNCHANGED <<inbox, sock, stop, sent, delivered, lost>>

\* rx.next() = None taken for an event like any other
ShutdownEventMutant(p) ==
    /\ state[p] = "select" /\ stop[p] = "shutdown"
    /\ Finish(p, "ended")
    /\ UNCHANGED <<inbox, sock, stop, sent, delivered, lost>>

(* The shutdown, or rx.next() = None once the bridge is gone and the queue   *)
(* is empty; both are seen between two handlers only.                        *)
ShutdownEvent(p) ==
    /\ state[p] = "select"
    /\ \/ stop[p] = "shutdown"
       \/ stop[p] = "bridge" /\ inbox[p] = <<>>
    /\ Finish(p, "ended")
    /\ UNCHANGED <<inbox, sock, stop, sent, delivered, lost>>

Loop(p) ==
    PollRead(p) \/ ReadEof(p) \/ DNSFromBridge(p) \/ Write(p) \/ WriteFails(p)
    \/ ShutdownEvent(p)

Next ==
    \E p \in End :
        \/ Loop(p)
        \/ \E m \in Message : Queue(p, m)
        \/ \E how \in {"shutdown", "bridge"} : Stop(p, how)

Spec == Init /\ [][Next]_vars

(* An end that has something to do does something: a ready branch of select! *)
(* is taken, a write that has room goes through.  Which branch is left open. *)
Fairness == \A p \in End : WF_vars(Loop(p))

FairSpec == Spec /\ Fairness

-----------------------------------------------------------------------------
(* Properties.                                                             *)

(* What an end hands to its bridge is what the other bridge queued: in       *)
(* order, whole, without gap or repetition, and no end takes the bytes of a  *)
(* message for a length and dies of it ("not enough data"); however often    *)
(* the read in progress is dropped for another event, unless that read had   *)
(* taken bytes.  And then one of the messages was longer than Whole.         *)
DeliveredInOrder ==
    \A p \in End :
        IF lost[p]
        THEN \E k \in DOMAIN sent[Peer(p)] : Len(sent[Peer(p)][k]) > Whole
        ELSE IsPrefix(delivered[p], sent[Peer(p)]) /\ state[p] # "failed"

(* Both ends wait in send_dns_message for room that only the other could     *)
(* make, and neither reads again, nor sees its shutdown.                     *)
Jammed ==
    \A p \in End :
        state[p] = "writing" /\ \A k \in 1..Len(Head(out[p])) : ~CanTake(p, k)

(* The messages of a bridge reach the other bridge, as long as nobody stops  *)
(* and no read lost bytes; or the two ends block each other for good.  An    *)
(* end that waits for room while the other reads gets it.                    *)
Stopped == \E p \in End : stop[p] # "no" \/ ~Running(p)

Settled == \A p \in End : delivered[p] = sent[Peer(p)]

EventuallyDelivered ==
    ~Settled ~> Settled \/ Stopped \/ Jammed \/ \E p \in End : lost[p]

(* A task told to stop stops, even if it is in the middle of a write, and an *)
(* end does not outlive the other; unless the two ends block each other,     *)
(* when neither sees its shutdown.                                           *)
StopsWhenTold ==
    \A p \in End :
        (stop[p] # "no" \/ ~Running(Peer(p))) ~> ~Running(p) \/ Jammed
=============================================================================
