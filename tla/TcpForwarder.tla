---------------------------- MODULE TcpForwarder ----------------------------
(***************************************************************************)
(* The DNS-over-TCP forwarder (src/dns/forwarder/tcp.rs, Forwarder::run):  *)
(* it connects to the upstream server when a request waits, writes the     *)
(* requests of the egress bridge to the connection and hands the frames it *)
(* reads to the bridge; a broken connection takes it back to waiting.      *)
(*                                                                         *)
(* Requests are numbered in the order the bridge queues them: nothing      *)
(* depends on their bytes.  Replies are byte strings, since the forwarder  *)
(* has to find them in the stream: its reader lives for one iteration of   *)
(* the loop only (tcp.rs:120).                                             *)
(***************************************************************************)
EXTENDS FrameReader, SequencesExt

CONSTANTS
    Message,       \* the replies upstream may give: sequences of two bytes or more
    WholeFrames,   \* each frame of upstream arrives in one piece
    MaxRequests,   \* bound: requests the bridge queues
    MaxBreaks      \* bound: connections the upstream closes

ASSUME MessageAssumption == \A m \in Message : m \in Seq(Byte) /\ Len(m) \in 2..MaxLen
ASSUME WholeFramesAssumption == WholeFrames \in BOOLEAN
ASSUME BoundsAssumption == MaxRequests \in Nat /\ MaxBreaks \in Nat

Request == 1..MaxRequests
NoOne == 0   \* no request is being written

VARIABLES
    (* the forwarder *)
    state,       \* "Waiting", "Connecting", "Connected", "Sending" (in the
                 \* DnsFromBridge handler of Connected), "ended"
    fromBridge,  \* requests queued by the bridge
    cur,         \* the request being written
    reader,      \* the DNSMessageReader of this iteration
    (* its environment *)
    bridgeUp,    \* the egress bridge holds its ends of both channels
    stop,        \* Forwarder::shutdown was called
    made,        \* requests the bridge queued so far
    conn,        \* the connection as upstream sees it: "none", "open", "closed"
    net,         \* frames upstream wrote that did not arrive, in whole or in part
    stream,      \* bytes that arrived and were not read
    due,         \* requests of this connection upstream has not answered
    breaks,      \* connections upstream closed so far
    (* history *)
    asked,       \* requests upstream received, on all connections
    lost,        \* requests lost with a failed write
    replies,     \* replies upstream gave on this connection
    delivered,   \* messages handed to the bridge on this connection
    cut          \* a request won the select! of this connection while its reader
                 \* held part of a frame

fwdVars == <<state, fromBridge, cur, reader>>
linkVars == <<conn, net, stream, due, breaks>>
history == <<asked, lost, replies, delivered, cut>>
vars == <<fwdVars, bridgeUp, stop, made, linkVars, history>>

TypeOK ==
    /\ state \in {"Waiting", "Connecting", "Connected", "Sending", "ended"}
    /\ fromBridge \in Seq(Request)
    /\ cur \in Request \cup {NoOne}
    /\ cur # NoOne <=> state = "Sending"
    /\ reader \in Reader
    /\ bridgeUp \in BOOLEAN /\ stop \in BOOLEAN
    /\ made \in 0..MaxRequests
    /\ conn \in {"none", "open", "closed"}
    /\ conn # "none" <=> state \in {"Connected", "Sending"}
    /\ net \in Seq(Seq(Byte)) /\ stream \in Seq(Byte)
    /\ conn = "none" => net = <<>> /\ stream = <<>>
    /\ due \in 0..MaxRequests /\ breaks \in 0..MaxBreaks
    /\ asked \in Seq(Request) /\ lost \in SUBSET Request
    /\ replies \in Seq(Message) /\ delivered \in Seq(Seq(Byte))
    /\ cut \in BOOLEAN

Init ==
    /\ state = "Waiting" /\ fromBridge = <<>> /\ cur = NoOne /\ reader = NewReader
    /\ bridgeUp = TRUE /\ stop = FALSE /\ made = 0
    /\ conn = "none" /\ net = <<>> /\ stream = <<>> /\ due = 0 /\ breaks = 0
    /\ asked = <<>> /\ lost = {} /\ replies = <<>> /\ delivered = <<>> /\ cut = FALSE

-----------------------------------------------------------------------------
(* The forwarder.                                                          *)

\* a buffered reader that outlives its connection
DropConnectionMutant ==
    /\ conn' = "none" /\ net' = <<>> /\ due' = 0
    /\ reader' = NewReader
    /\ UNCHANGED <<stream, breaks>>

(* The stream is dropped with the state that held it. *)
DropConnection ==
    /\ conn' = "none" /\ net' = <<>> /\ stream' = <<>> /\ due' = 0
    /\ reader' = NewReader
    /\ UNCHANGED breaks

\* next() in the place of peek(): the request that wakes the forwarder is gone
ConnectNowMutant ==
    /\ state = "Waiting" /\ fromBridge # <<>>
    /\ state' = "Connecting"
    /\ fromBridge' = Tail(fromBridge)
    /\ UNCHANGED <<cur, reader, bridgeUp, stop, made, linkVars, history>>

(* Waiting: peek() shows a request and leaves it on the channel. *)
ConnectNow ==
    /\ state = "Waiting" /\ fromBridge # <<>>
    /\ state' = "Connecting"
    /\ UNCHANGED <<fromBridge, cur, reader, bridgeUp, stop, made, linkVars, history>>

(* Connecting: try_connect retries every 5 s until the upstream accepts. *)
Connect ==
    /\ state = "Connecting"
    /\ state' = "Connected"
    /\ conn' = "open"
    /\ replies' = <<>> /\ delivered' = <<>> /\ cut' = FALSE
    /\ UNCHANGED <<fromBridge, cur, reader, bridgeUp, stop, made, net, stream, due,
                   breaks, asked, lost>>

(* Connected: one poll of the read.  A message is handed to the bridge, or,  *)
(* if the bridge is gone, ends the task; an error drops the connection.      *)
DnsFromNet ==
    /\ state = "Connected" /\ stream # <<>>
    /\ LET poll == Poll(reader, stream)
       IN  \/ /\ poll.res = "pending"
              /\ reader' = poll.reader /\ stream' = poll.rest
              /\ UNCHANGED <<state, delivered, conn, net, due, breaks>>
           \/ /\ poll.res = "message" /\ bridgeUp
              /\ reader' = NewReader /\ stream' = poll.rest
              /\ delivered' = Append(delivered, poll.msg)
              /\ UNCHANGED <<state, conn, net, due, breaks>>
           \/ /\ poll.res = "message" /\ ~bridgeUp
              /\ state' = "ended" /\ DropConnection
              /\ UNCHANGED delivered
           \/ /\ poll.res = "error"
              /\ state' = "Waiting" /\ DropConnection
              /\ UNCHANGED delivered
    /\ UNCHANGED <<fromBridge, cur, bridgeUp, stop, made, asked, lost, replies, cut>>

(* Connected: the end of the stream once it is read, in the middle of a frame *)
(* too; or a reset, which discards what was not read.                         *)
Disconnected ==
    /\ state = "Connected" /\ conn = "closed"
    /\ state' = "Waiting" /\ DropConnection
    /\ UNCHANGED <<fromBridge, cur, bridgeUp, stop, made, history>>

(* Connected: a request wins the select!; the read in progress is dropped,   *)
(* and its reader with it.                                                   *)
DnsFromBridge ==
    /\ state = "Connected" /\ fromBridge # <<>>
    /\ state' = "Sending"
    /\ cur' = Head(fromBridge) /\ fromBridge' = Tail(fromBridge)
    /\ reader' = NewReader
    /\ cut' = (cut \/ reader # NewReader)
    /\ UNCHANGED <<bridgeUp, stop, made, linkVars, asked, lost, replies, delivered>>

(* send_dns_message returns: the request is with the upstream, unless it     *)
(* closed the connection meanwhile.                                          *)
SendOk ==
    /\ state = "Sending"
    /\ state' = "Connected" /\ cur' = NoOne
    /\ IF conn = "open"
       THEN /\ due' = due + 1 /\ asked' = Append(asked, cur)
            /\ UNCHANGED lost
       ELSE /\ lost' = lost \cup {cur}
            /\ UNCHANGED <<due, asked>>
    /\ UNCHANGED <<fromBridge, reader, bridgeUp, stop, made, conn, net, stream, breaks,
                   replies, delivered, cut>>

\* a failed request goes back to the queue, behind the others
SendFailsMutant ==
    /\ state = "Sending" /\ conn = "closed"
    /\ state' = "Waiting" /\ cur' = NoOne /\ DropConnection
    /\ fromBridge' = Append(fromBridge, cur)
    /\ UNCHANGED <<bridgeUp, stop, made, history>>

(* send_dns_message fails: the request is lost with the connection. *)
SendFails ==
    /\ state = "Sending" /\ conn = "closed"
    /\ state' = "Waiting" /\ cur' = NoOne /\ DropConnection
    /\ lost' = lost \cup {cur}
    /\ UNCHANGED <<fromBridge, bridgeUp, stop, made, asked, replies, delivered, cut>>

(* The shutdown is seen in every state but not while a request is written;   *)
(* the end of the bridge is not seen while connecting, nor before the queue  *)
(* is empty.                                                                 *)
Shutdown ==
    /\ \/ stop /\ state \in {"Waiting", "Connecting", "Connected"}
       \/ ~bridgeUp /\ fromBridge = <<>> /\ state \in {"Waiting", "Connected"}
    /\ state' = "ended" /\ DropConnection
    /\ UNCHANGED <<fromBridge, cur, bridgeUp, stop, made, history>>

-----------------------------------------------------------------------------
(* The egress bridge, the owner of the task, and the upstream server.      *)

Queue ==
    /\ bridgeUp /\ state # "ended" /\ made < MaxRequests
    /\ made' = made + 1
    /\ fromBridge' = Append(fromBridge, made + 1)
    /\ UNCHANGED <<state, cur, reader, bridgeUp, stop, linkVars, history>>

(* run_server shuts the bridge down first and this task after it. *)
BridgeEnds ==
    /\ bridgeUp /\ state # "ended"
    /\ bridgeUp' = FALSE
    /\ UNCHANGED <<fwdVars, stop, made, linkVars, history>>

CallShutdown ==
    /\ ~bridgeUp /\ ~stop /\ state # "ended"
    /\ stop' = TRUE
    /\ UNCHANGED <<fwdVars, bridgeUp, made, linkVars, history>>

Answer(m) ==
    /\ conn = "open" /\ due > 0
    /\ due' = due - 1
    /\ replies' = Append(replies, m)
    /\ net' = Append(net, Writes(m)[1] \o Writes(m)[2])
    /\ UNCHANGED <<fwdVars, bridgeUp, stop, made, conn, stream, breaks, asked, lost,
                   delivered, cut>>

(* Bytes arrive: TCP keeps their order, and cuts them where it likes. *)
Arrive ==
    /\ net # <<>>
    /\ \E k \in IF WholeFrames THEN {Len(Head(net))} ELSE 1..Len(Head(net)) :
          /\ stream' = stream \o SubSeq(Head(net), 1, k)
          /\ net' = IF k = Len(Head(net)) THEN Tail(net)
                    ELSE <<SubSeq(Head(net), k + 1, Len(Head(net)))>> \o Tail(net)
    /\ UNCHANGED <<fwdVars, bridgeUp, stop, made, conn, due, breaks, history>>

(* The upstream closes the connection; what did not arrive never will. *)
Close ==
    /\ conn = "open" /\ breaks < MaxBreaks
    /\ conn' = "closed" /\ breaks' = breaks + 1
    /\ net' = <<>>
    /\ UNCHANGED <<fwdVars, bridgeUp, stop, made, stream, due, history>>

Loop ==
    \/ ConnectNow \/ Connect \/ DnsFromNet \/ Disconnected \/ DnsFromBridge
    \/ SendOk \/ SendFails \/ Shutdown

Environment ==
    \/ Queue \/ BridgeEnds \/ CallShutdown
    \/ \E m \in Message : Answer(m)
    \/ Arrive \/ Close

Next == Loop \/ Environment

Spec == Init /\ [][Next]_vars

(* The loop takes a branch that stays ready; the upstream accepts connections *)
(* in the end, and takes what is written to it.                               *)
FairSpec == Spec /\ WF_vars(Loop)

-----------------------------------------------------------------------------
(* Properties.                                                             *)

(* The bridge is handed the replies of the upstream, in order and whole, and *)
(* none of an earlier connection.                                            *)
RepliesIntact == IsPrefix(delivered, replies)

(* No request reaches the upstream twice or ahead of an earlier one, across  *)
(* reconnects.                                                               *)
RequestsInOrder == \A j, k \in DOMAIN asked : j < k => asked[j] < asked[k]

(* Every request the bridge queued is in the queue, being written, with the  *)
(* upstream or lost in a write; none falls between the states of the loop.   *)
NoneForgotten ==
    1..made = Range(fromBridge) \cup ({cur} \ {NoOne}) \cup Range(asked) \cup lost

(* A request queued is written, lost in a write, or left by a task that ends. *)
EventuallyWritten ==
    \A n \in Request :
        made >= n ~> n \in Range(asked) \cup lost \/ state = "ended"
=============================================================================
