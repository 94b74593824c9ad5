--------------------------- MODULE ServiceRunner ---------------------------
(***************************************************************************)
(* The supervisor of both programs: the config loader that reads the file  *)
(* at start and on SIGHUP (src/config/loader.rs), the runner that brings   *)
(* the running services in line with each configuration (src/service.rs),  *)
(* the main function that starts and stops both (sidecar.rs, agent.rs),    *)
(* and, of each service task, what the others can tell: whether it listens *)
(* on its address, and whether it has ended or never will.                 *)
(*                                                                         *)
(* The runner awaits the end of every task it stops, and the other tasks   *)
(* run meanwhile: an iteration of Event::Reload is split at those awaits.  *)
(* A task binds its address when it is first scheduled, not when launched. *)
(***************************************************************************)
EXTENDS Naturals, Sequences, FiniteSets

CONSTANTS
    Name,        \* the names of services in the configuration file
    Value,       \* service configurations
    Address,     \* socket addresses and socket paths
    addressOf,   \* where a service listens: [Value -> Address]
    bindOf,      \* how it binds there: [Value -> {"once", "retry", "replace"}]
    Dns,         \* the configurations of DNS services; others tunnel TCP
    NoService,   \* a name that is not in a configuration, or does not run
    NoOne,       \* nothing is at an address
    OldFile,     \* the socket file of an earlier run of the program is there
    BadFile,     \* a file that cannot be read or parsed
    MaxEdits,    \* bound: edits of the file
    MaxSignals,  \* bound: SIGHUPs
    MaxErrors    \* bound: errors of listening sockets

(* An entry of the runner's table. *)
Service == [value : Value, task : Nat \ {0}]
NoTask == 0

(* "once":    tcp::service::start_client binds, or ends (tcp/service.rs:180). *)
(* "retry":   dns::service::start_client connects to the agent and binds, and *)
(*            tries both again every 5 s (dns/service.rs:134-145, 188).       *)
(* "replace": the servers of the agent remove the socket file that is there   *)
(*            and make their own (tcp/service.rs:22, dns/service.rs:43).      *)
ASSUME AddressAssumption == addressOf \in [Value -> Address]
ASSUME BindAssumption == bindOf \in [Value -> {"once", "retry", "replace"}]
ASSUME DnsAssumption == Dns \subseteq Value
ASSUME NoServiceAssumption == NoService \notin Name \cup Value \cup Service
ASSUME BoundsAssumption == MaxEdits \in Nat /\ MaxSignals \in Nat /\ MaxErrors \in Nat

(* A configuration: no two services of a sensible one share an address.      *)
Config ==
    {c \in [Name -> Value \cup {NoService}] :
        \A m, n \in Name : m # n /\ c[m] # NoService /\ c[n] # NoService =>
            addressOf[c[m]] # addressOf[c[n]]}

Listed(c) == {n \in Name : c[n] # NoService}

VARIABLES
    file,      \* what the configuration file holds
    edits,     \* edits so far
    sighup,    \* a SIGHUP was delivered and not received
    signals,   \* SIGHUPs so far
    loader,    \* "starting", "waiting", "ended"
    rx,        \* configurations sent to the runner
    stop,      \* ServiceRunner::shutdown was called
    pc,        \* the runner: "select", "update", "remove", "drain", "ended"
    config,    \* the configuration being applied, or applied last
    todo,      \* names the loop in progress has not come to
    current,   \* the name whose task is being stopped
    stopping,  \* the task whose end the runner awaits
    services,  \* name -> configuration and task of the running service
    tasks,     \* every task launched, by number: its configuration and state
    holder,    \* the task whose socket, or socket file, is at an address
    errors,    \* errors of listening sockets so far
    raced      \* two tasks were replacing one socket file at the same time

mainVars == <<file, edits, sighup, signals, loader>>
runnerVars == <<pc, config, todo, current, stopping, services>>
taskVars == <<tasks, holder, errors, raced>>
vars == <<mainVars, rx, stop, runnerVars, taskVars>>

(* A "stuck" task is inside a write to a socket that its peer will never read. *)
TaskState ==
    {"launched", "retrying", "removing", "removed", "listening", "stuck", "dead", "ended"}
Task == [value : Value, state : TaskState, stop : BOOLEAN]

Empty == [n \in Name |-> NoService]

TypeOK ==
    /\ file \in Config \cup {BadFile}
    /\ edits \in 0..MaxEdits
    /\ sighup \in BOOLEAN
    /\ signals \in 0..MaxSignals
    /\ loader \in {"starting", "waiting", "ended"}
    /\ rx \in Seq(Config)
    /\ stop \in BOOLEAN
    /\ pc \in {"select", "update", "remove", "drain", "ended"}
    /\ config \in Config
    /\ todo \subseteq Name
    /\ pc = "select" => todo = {}
    /\ current \in Name \cup {NoService}
    /\ stopping \in {NoTask} \cup DOMAIN tasks
    /\ current = NoService <=> stopping = NoTask
    /\ services \in [Name -> Service \cup {NoService}]
    /\ \A n \in Listed(services) : services[n].task \in DOMAIN tasks
    /\ tasks \in Seq(Task)
    /\ holder \in [Address -> {NoOne, OldFile} \cup DOMAIN tasks]
    /\ errors \in 0..MaxErrors
    /\ raced \in BOOLEAN

Init ==
    /\ file \in Config \cup {BadFile}
    /\ edits = 0 /\ sighup = FALSE /\ signals = 0 /\ loader = "starting"
    /\ rx = <<>> /\ stop = FALSE
    /\ pc = "select" /\ config = Empty /\ todo = {}
    /\ current = NoService /\ stopping = NoTask
    /\ services = Empty
    /\ tasks = <<>> /\ errors = 0 /\ raced = FALSE
    /\ holder \in [Address -> {NoOne, OldFile}]
    /\ \A v \in Value : bindOf[v] # "replace" => holder[addressOf[v]] = NoOne

-----------------------------------------------------------------------------
(* The file, the loader and main.                                          *)

(* Nobody looks at the file, or for a signal, once the loader has ended.       *)
Edit(c) ==
    /\ loader # "ended" /\ edits < MaxEdits /\ c # file
    /\ file' = c /\ edits' = edits + 1
    /\ UNCHANGED <<sighup, signals, loader, rx, stop, runnerVars, taskVars>>

(* Signals do not count: a second SIGHUP before the first is received is lost. *)
Sighup ==
    /\ loader # "ended" /\ signals < MaxSignals
    /\ sighup' = TRUE /\ signals' = signals + 1
    /\ UNCHANGED <<file, edits, loader, rx, stop, runnerVars, taskVars>>

\* a channel of one place, and try_send: a configuration is lost if one waits
ReloadMutant == rx' = IF file = BadFile \/ rx # <<>> THEN rx ELSE Append(rx, file)

(* reload: a file that cannot be read or parsed leaves things as they are. *)
Reload == rx' = IF file = BadFile THEN rx ELSE Append(rx, file)

(* The initial reload; if it fails, main exits the process. *)
InitialReload ==
    /\ loader = "starting" /\ pc # "ended"
    /\ Reload
    /\ IF file = BadFile THEN loader' = "ended" /\ pc' = "ended"
                         ELSE loader' = "waiting" /\ UNCHANGED pc
    /\ UNCHANGED <<file, edits, sighup, signals, stop, config, todo, current, stopping,
                   services, taskVars>>

ReloadOnSighup ==
    /\ loader = "waiting" /\ sighup
    /\ Reload
    /\ sighup' = FALSE
    /\ UNCHANGED <<file, edits, signals, loader, stop, runnerVars, taskVars>>

(* Ctrl-C: main shuts the loader down, which drops its end of the channel. *)
Interrupt ==
    /\ loader = "waiting"
    /\ loader' = "ended"
    /\ UNCHANGED <<file, edits, sighup, signals, rx, stop, runnerVars, taskVars>>

(* And then the runner. *)
ShutdownServices ==
    /\ loader = "ended" /\ pc # "ended" /\ ~stop
    /\ stop' = TRUE
    /\ UNCHANGED <<mainVars, rx, runnerVars, taskVars>>

-----------------------------------------------------------------------------
(* The runner.                                                             *)

(* Event::Reload. *)
TakeConfig ==
    /\ pc = "select" /\ rx # <<>>
    /\ config' = Head(rx) /\ rx' = Tail(rx)
    /\ pc' = "update" /\ todo' = Listed(Head(rx))
    /\ UNCHANGED <<mainVars, stop, current, stopping, services, taskVars>>

(* launcher.launch spawns the task and does not wait for it. *)
Launch(n) ==
    /\ tasks' = Append(tasks, [value |-> config[n], state |-> "launched", stop |-> FALSE])
    /\ services' = [services EXCEPT ![n] = [value |-> config[n], task |-> Len(tasks) + 1]]
    /\ UNCHANGED <<holder, errors, raced>>

(* launcher.stop: the entry is removed, the task told to stop and awaited. *)
Stop(n) ==
    /\ tasks' = [tasks EXCEPT ![services[n].task].stop = TRUE]
    /\ stopping' = services[n].task
    /\ current' = n
    /\ services' = [services EXCEPT ![n] = NoService]
    /\ UNCHANGED <<holder, errors, raced>>

LaunchNew(n) ==
    /\ pc = "update" /\ stopping = NoTask /\ n \in todo
    /\ services[n] = NoService
    /\ Launch(n)
    /\ todo' = todo \ {n}
    /\ UNCHANGED <<mainVars, rx, stop, pc, config, current, stopping>>

KeepSame(n) ==
    /\ pc = "update" /\ stopping = NoTask /\ n \in todo
    /\ services[n] # NoService /\ services[n].value = config[n]
    /\ todo' = todo \ {n}
    /\ UNCHANGED <<mainVars, rx, stop, pc, config, current, stopping, services, taskVars>>

\* the entry is overwritten, its task neither stopped nor awaited
StopChangedMutant(n) ==
    /\ pc = "update" /\ stopping = NoTask /\ n \in todo
    /\ services[n] # NoService /\ services[n].value # config[n]
    /\ Launch(n)
    /\ todo' = todo \ {n}
    /\ UNCHANGED <<mainVars, rx, stop, pc, config, current, stopping>>

StopChanged(n) ==
    /\ pc = "update" /\ stopping = NoTask /\ n \in todo
    /\ services[n] # NoService /\ services[n].value # config[n]
    /\ Stop(n)
    /\ todo' = todo \ {n}
    /\ UNCHANGED <<mainVars, rx, stop, pc, config>>

(* The task has ended; a changed service is launched anew. *)
Stopped ==
    /\ stopping # NoTask /\ tasks[stopping].state = "ended"
    /\ stopping' = NoTask /\ current' = NoService
    /\ IF pc = "update" THEN Launch(current) ELSE UNCHANGED <<services, taskVars>>
    /\ UNCHANGED <<mainVars, rx, stop, pc, config, todo>>

\* the services no longer listed are forgotten
EndUpdateMutant ==
    /\ pc = "update" /\ stopping = NoTask /\ todo = {}
    /\ pc' = "select"
    /\ UNCHANGED <<mainVars, rx, stop, config, todo, current, stopping, services, taskVars>>

EndUpdate ==
    /\ pc = "update" /\ stopping = NoTask /\ todo = {}
    /\ pc' = "remove" /\ todo' = Listed(services) \ Listed(config)
    /\ UNCHANGED <<mainVars, rx, stop, config, current, stopping, services, taskVars>>

(* The loops that remove services and that drain them: one stop at a time. *)
StopNext(n) ==
    /\ pc \in {"remove", "drain"} /\ stopping = NoTask /\ n \in todo
    /\ Stop(n)
    /\ todo' = todo \ {n}
    /\ UNCHANGED <<mainVars, rx, stop, pc, config>>

\* the loop is left after one name
EndRemoveMutant ==
    /\ pc = "remove" /\ stopping = NoTask
    /\ pc' = "select"
    /\ UNCHANGED <<mainVars, rx, stop, config, todo, current, stopping, services, taskVars>>

EndRemove ==
    /\ pc = "remove" /\ stopping = NoTask /\ todo = {}
    /\ pc' = "select"
    /\ UNCHANGED <<mainVars, rx, stop, config, todo, current, stopping, services, taskVars>>

\* the loop is left without draining: dropped wrappers tell their tasks, unawaited
ShutdownEventMutant ==
    /\ pc = "select"
    /\ stop \/ (loader = "ended" /\ rx = <<>>)
    /\ pc' = "ended" /\ todo' = {}
    /\ UNCHANGED <<mainVars, rx, stop, config, current, stopping, services, taskVars>>

(* Event::Shutdown: told to, or the loader is gone and its channel empty. *)
ShutdownEvent ==
    /\ pc = "select"
    /\ stop \/ (loader = "ended" /\ rx = <<>>)
    /\ pc' = "drain" /\ todo' = Listed(services)
    /\ UNCHANGED <<mainVars, rx, stop, config, current, stopping, services, taskVars>>

EndDrain ==
    /\ pc = "drain" /\ stopping = NoTask /\ todo = {}
    /\ pc' = "ended"
    /\ UNCHANGED <<mainVars, rx, stop, config, todo, current, stopping, services, taskVars>>

-----------------------------------------------------------------------------
(* The service tasks.                                                      *)

BindOf(t) == bindOf[tasks[t].value]
AddressOf(t) == addressOf[tasks[t].value]

SetState(t, s) == tasks' = [tasks EXCEPT ![t].state = s]

(* The task's socket is bound, in the address space or as a file. *)
Listen(t) ==
    /\ SetState(t, "listening")
    /\ holder' = [holder EXCEPT ![AddressOf(t)] = t]

\* a "retry" task gives up like a "once" task
BindMutant(t) ==
    /\ IF holder[AddressOf(t)] = NoOne THEN Listen(t)
       ELSE SetState(t, "dead") /\ UNCHANGED holder
    /\ UNCHANGED <<mainVars, rx, stop, runnerVars, errors, raced>>

(* One attempt to listen.  It fails if the address is taken; that of a       *)
(* "retry" task also if it cannot connect to the agent, which comes first.   *)
Bind(t) ==
    /\ \/ holder[AddressOf(t)] = NoOne /\ Listen(t)
       \/ /\ holder[AddressOf(t)] # NoOne \/ BindOf(t) = "retry"
          /\ SetState(t, IF BindOf(t) = "retry" THEN "retrying" ELSE "dead")
          /\ UNCHANGED holder
    /\ UNCHANGED <<mainVars, rx, stop, runnerVars, errors, raced>>

(* Tasks are first polled in the order of their launch: the runtime has one  *)
(* thread and a FIFO queue.  Bind comes at once, unless there is a socket    *)
(* file to remove, on a thread of its own.                                   *)
FirstPoll(t) ==
    /\ tasks[t].state = "launched"
    /\ \A u \in 1..(t - 1) : tasks[u].state # "launched"
    /\ IF BindOf(t) = "replace" /\ holder[AddressOf(t)] # NoOne
       THEN /\ SetState(t, "removing")
            /\ raced' = (raced \/ \E u \in 1..(t - 1) :
                             /\ AddressOf(u) = AddressOf(t)
                             /\ tasks[u].state \in {"removing", "removed"})
            /\ UNCHANGED <<mainVars, rx, stop, runnerVars, holder, errors>>
       ELSE Bind(t)

(* remove_file takes any file at the path away, and fails if there is none.  *)
RemoveFile(t) ==
    /\ tasks[t].state = "removing"
    /\ SetState(t, IF holder[AddressOf(t)] = NoOne THEN "dead" ELSE "removed")
    /\ holder' = [holder EXCEPT ![AddressOf(t)] = NoOne]
    /\ UNCHANGED <<mainVars, rx, stop, runnerVars, errors, raced>>

(* bind after the removal. *)
BindLater(t) == tasks[t].state = "removed" /\ Bind(t)

(* Another attempt, after the five seconds of a failed one. *)
Retry(t) == tasks[t].state = "retrying" /\ Bind(t)

(* A socket goes with its task; a socket file stays, with nobody behind it. *)
Release(t) ==
    holder' = [a \in Address |->
                  IF holder[a] = t /\ BindOf(t) # "replace" THEN NoOne ELSE holder[a]]

(* An error of the listening socket, or of the connection to the agent.  A   *)
(* "retry" task finds its bridge or its channel client gone, shuts the other *)
(* down and starts over; another ends.  A stuck task does neither.           *)
SocketError(t) ==
    /\ tasks[t].state \in {"listening", "stuck"} /\ errors < MaxErrors
    /\ errors' = errors + 1
    /\ SetState(t, IF tasks[t].state = "stuck" THEN "stuck"
                   ELSE IF BindOf(t) = "retry" THEN "retrying" ELSE "dead")
    /\ Release(t)
    /\ UNCHANGED <<mainVars, rx, stop, runnerVars, raced>>

(* The channel client, a session or the TCP forwarder of a DNS service is    *)
(* inside send_dns_message with a peer that neither reads nor closes.  It    *)
(* sees no shutdown there, and its service awaits it when told to stop.      *)
Stick(t) ==
    /\ tasks[t].state = "listening" /\ tasks[t].value \in Dns
    /\ SetState(t, "stuck")
    /\ UNCHANGED <<mainVars, rx, stop, runnerVars, holder, errors, raced>>

\* the pause between two attempts is a plain sleep: no shutdown is noticed
EndTaskMutant(t) ==
    /\ tasks[t].stop /\ tasks[t].state \in {"listening", "dead"}
    /\ SetState(t, "ended")
    /\ Release(t)
    /\ UNCHANGED <<mainVars, rx, stop, runnerVars, errors, raced>>

(* A task told to stop ends, once it is through with starting and with any  *)
(* write that its peer takes after all.                                     *)
EndTask(t) ==
    /\ tasks[t].stop /\ tasks[t].state \in {"retrying", "listening", "dead"}
    /\ SetState(t, "ended")
    /\ Release(t)
    /\ UNCHANGED <<mainVars, rx, stop, runnerVars, errors, raced>>

Runner ==
    \/ TakeConfig \/ EndUpdate \/ EndRemove \/ ShutdownEvent \/ EndDrain \/ Stopped
    \/ \E n \in Name : LaunchNew(n) \/ KeepSame(n) \/ StopChanged(n) \/ StopNext(n)

TaskStep(t) == FirstPoll(t) \/ RemoveFile(t) \/ BindLater(t) \/ EndTask(t)

Next ==
    \/ \E c \in Config \cup {BadFile} : Edit(c)
    \/ Sighup \/ InitialReload \/ ReloadOnSighup \/ Interrupt \/ ShutdownServices
    \/ Runner
    \/ \E t \in DOMAIN tasks : TaskStep(t) \/ Retry(t) \/ SocketError(t) \/ Stick(t)

Spec == Init /\ [][Next]_vars

(* Tasks that can run do, unless they are stuck; main goes on with the       *)
(* shutdown it began.  Edits, signals, errors and stuck writes need not      *)
(* happen, nor need the agent ever be there for a "retry" task.              *)
MaxTasks == Cardinality(Name) * (MaxSignals + 1)

Fairness ==
    /\ WF_vars(InitialReload) /\ WF_vars(ReloadOnSighup) /\ WF_vars(ShutdownServices)
    /\ WF_vars(Runner)
    /\ \A t \in 1..MaxTasks : WF_vars(t \in DOMAIN tasks /\ TaskStep(t))

FairSpec == Spec /\ Fairness

-----------------------------------------------------------------------------
(* Properties.                                                             *)

(* Between two events the running services are those of the configuration    *)
(* applied last, each with the value the file gave it.                       *)
FaithfulWhenIdle ==
    pc = "select" =>
        \A n \in Name :
            IF config[n] = NoService THEN services[n] = NoService
            ELSE services[n] # NoService /\ services[n].value = config[n]
                 /\ tasks[services[n].task].value = config[n]

(* No task outlives its entry: one that has not ended is in the table, or    *)
(* being stopped, so that two tasks never run for one name.                  *)
NoStrayTask ==
    \A t \in DOMAIN tasks :
        \/ tasks[t].state = "ended"
        \/ t = stopping
        \/ \E n \in Listed(services) : services[n].task = t

(* When the runner has ended, every task it ever launched has. *)
CleanEnd == pc = "ended" => \A t \in DOMAIN tasks : tasks[t].state = "ended"

Over == loader = "ended"

(* The runner awaits a task that will not end: launcher.stop has no timeout. *)
Stuck == stopping # NoTask /\ tasks[stopping].state = "stuck"

(* A signal brings the services in line with the file: edits and signals may *)
(* come in any order and while a reload is in progress.  Only a task the     *)
(* runner stops that is stuck in a write keeps it from that.                 *)
SighupApplies ==
    \A c \in Config :
        (sighup /\ file = c) ~> (pc = "select" /\ config = c) \/ file # c \/ Over \/ Stuck

(* Ctrl-C ends the runner, in the middle of an update or of a start too, or  *)
(* leaves it awaiting a DNS service that is stuck in a write: the shutdown   *)
(* of a service waits for its writes without a bound (dns/server.rs:62,      *)
(* dns/client.rs:77, dns/forwarder/tcp.rs:149).                              *)
InterruptEnds == Over ~> pc = "ended" \/ Stuck

(* "start new services, or update existing ones" (service.rs:75): a service  *)
(* of the table comes to listen on its address, or the runner stops it.      *)
Serving(n) ==
    LET s == services[n]
    IN  s # NoService => /\ holder[addressOf[s.value]] = s.task
                         /\ tasks[s.task].state \in {"listening", "stuck"}

ServicesListen == \A n \in Name : services[n] # NoService ~> Serving(n)

(* A task that is stuck has the place of service n. *)
Blocked(n) ==
    \E t \in DOMAIN tasks :
        /\ tasks[t].state = "stuck"
        /\ t = services[n].task \/ t = holder[addressOf[services[n].value]]

(* In the end the agent is there when a "retry" task tries. *)
AgentAccepts == WF_vars(\E t \in DOMAIN tasks : Retry(t))

(* The same where the agent accepts, but for what the code gives up on: a    *)
(* server whose socket broke, two servers that start on one path at once,    *)
(* when one may remove the other's file, and a stuck task, which may have    *)
(* lost its socket and does not give its address up.  A service that retries *)
(* listens whatever else happened before.                                    *)
ServicesListenUnlessRaced ==
    AgentAccepts =>
        \A n \in Name :
            services[n] # NoService ~>
                \/ Serving(n)
                \/ bindOf[services[n].value] = "replace" /\ (errors > 0 \/ raced)
                \/ Blocked(n)
=============================================================================
