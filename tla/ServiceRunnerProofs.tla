------------------------- MODULE ServiceRunnerProofs -------------------------
(***************************************************************************)
(* The safety of ServiceRunner for any names, configurations and addresses, *)
(* however services bind, and any number of edits, signals and errors.     *)
(***************************************************************************)
EXTENDS ServiceRunner, SequenceTheorems, TLAPS

-----------------------------------------------------------------------------
(* The inductive invariant, in named parts.                                *)

(* The entry of n is as the configuration has it. *)
Applied(n) == services[n] # NoService /\ services[n].value = config[n]

(* The name whose task is being stopped is out of the table and of the loop. *)
StoppingInv == current # NoService => services[current] = NoService /\ current \notin todo

(* Loop by loop: what has been applied so far, and what is still to come.    *)
UpdateInv ==
    pc = "update" =>
        /\ todo \subseteq Listed(config)
        /\ current # NoService => current \in Listed(config)
        /\ \A n \in Listed(config) \ todo : n # current => Applied(n)

RemoveInv ==
    pc = "remove" =>
        /\ todo = Listed(services) \ Listed(config)
        /\ \A n \in Listed(config) : Applied(n)

IdleInv ==
    pc = "select" =>
        /\ stopping = NoTask
        /\ \A n \in Name : IF config[n] = NoService THEN services[n] = NoService ELSE Applied(n)

DrainInv == pc = "drain" => todo = Listed(services)

EndInv == pc = "ended" => Listed(services) = {} /\ stopping = NoTask

(* Nothing happens before the initial load. *)
StartInv ==
    /\ loader = "starting" =>
           /\ pc = "select" /\ stopping = NoTask
           /\ services = Empty /\ tasks = <<>> /\ rx = <<>>
    /\ stop => loader = "ended"

(* The value in the table is the one its task was launched with. *)
EntryInv == \A n \in Listed(services) : tasks[services[n].task].value = services[n].value

LoopInv == UpdateInv /\ RemoveInv /\ IdleInv /\ DrainInv /\ EndInv

IInv == TypeOK /\ StoppingInv /\ LoopInv /\ StartInv /\ EntryInv /\ NoStrayTask

-----------------------------------------------------------------------------
LEMMA TaskNumbers ==
    ASSUME tasks \in Seq(Task)
    PROVE  /\ DOMAIN tasks = 1..Len(tasks) /\ Len(tasks) \in Nat
           /\ NoTask \notin DOMAIN tasks
           /\ \A t \in DOMAIN tasks : tasks[t] \in Task
  BY LenProperties, ElementOfSeq DEF NoTask

LEMMA InvInit == Init => IInv
<1>. SUFFICES ASSUME Init PROVE IInv
  OBVIOUS
<1>1. rx \in Seq(Config) /\ tasks \in Seq(Task) /\ DOMAIN tasks = {}
  BY EmptySeq DEF Init
<1>2. Empty \in Config /\ Listed(Empty) = {}
  BY DEF Empty, Config, Listed
<1>3. services \in [Name -> Service \cup {NoService}]
  BY DEF Init, Empty
<1>4. TypeOK
  <2>1. Listed(services) = {}
    BY <1>2 DEF Init
  <2>2. 0 \in 0..MaxEdits /\ 0 \in 0..MaxSignals /\ 0 \in 0..MaxErrors
    BY BoundsAssumption
  <2>3. holder \in [Address -> {NoOne, OldFile} \cup DOMAIN tasks]
    BY <1>1 DEF Init
  <2>. QED  BY <1>1, <1>2, <1>3, <2>1, <2>2, <2>3 DEF Init, TypeOK
<1>. QED
  BY <1>1, <1>2, <1>4 DEF Init, IInv, StoppingInv, LoopInv, UpdateInv, RemoveInv, IdleInv,
     DrainInv, EndInv, StartInv, EntryInv, NoStrayTask, Empty

-----------------------------------------------------------------------------
(* The file, the loader and main.                                          *)

LEMMA ReloadType ==
    ASSUME TypeOK, Reload
    PROVE  rx' \in Seq(Config)
  BY AppendProperties DEF TypeOK, Reload

LEMMA MainStep ==
    ASSUME IInv,
           \/ \E c \in Config \cup {BadFile} : Edit(c)
           \/ Sighup \/ InitialReload \/ ReloadOnSighup \/ Interrupt \/ ShutdownServices
    PROVE  IInv'
<1>. USE DEF IInv
<1>1. /\ UNCHANGED <<config, todo, current, stopping, services, taskVars>>
      /\ UNCHANGED pc \/ (pc' = "ended" /\ InitialReload)
  BY DEF Edit, Sighup, InitialReload, ReloadOnSighup, Interrupt, ShutdownServices, runnerVars
<1>2. rx' \in Seq(Config)
  BY ReloadType DEF TypeOK, Edit, Sighup, InitialReload, ReloadOnSighup, Interrupt,
     ShutdownServices
<1>3. /\ file' \in Config \cup {BadFile} /\ edits' \in 0..MaxEdits
      /\ sighup' \in BOOLEAN /\ signals' \in 0..MaxSignals
      /\ loader' \in {"starting", "waiting", "ended"} /\ stop' \in BOOLEAN
  <2>1. ASSUME NEW c \in Config \cup {BadFile}, Edit(c)
        PROVE  /\ file' \in Config \cup {BadFile} /\ edits' \in 0..MaxEdits
               /\ UNCHANGED <<sighup, signals, loader, stop>>
    BY <2>1, BoundsAssumption DEF TypeOK, Edit
  <2>2. CASE Sighup
    BY <2>2, BoundsAssumption DEF TypeOK, Sighup
  <2>3. CASE InitialReload \/ ReloadOnSighup \/ Interrupt \/ ShutdownServices
    BY <2>3 DEF TypeOK, InitialReload, ReloadOnSighup, Interrupt, ShutdownServices, mainVars
  <2>. QED  BY <2>1, <2>2, <2>3 DEF TypeOK
<1>4. TypeOK' /\ StoppingInv' /\ EntryInv' /\ NoStrayTask'
  BY <1>1, <1>2, <1>3 DEF TypeOK, taskVars, StoppingInv, EntryInv, NoStrayTask
<1>5. StartInv'
  BY <1>1 DEF StartInv, taskVars, Edit, Sighup, InitialReload, ReloadOnSighup, Interrupt,
     ShutdownServices, mainVars
<1>6. LoopInv'
  <2>1. CASE UNCHANGED pc
    BY <1>1, <2>1 DEF LoopInv, UpdateInv, RemoveInv, IdleInv, DrainInv, EndInv, Applied
  <2>2. CASE pc' = "ended" /\ InitialReload
    <3>1. services = Empty /\ stopping = NoTask
      BY <2>2 DEF InitialReload, StartInv
    <3>. QED
      BY <1>1, <2>2, <3>1 DEF LoopInv, UpdateInv, RemoveInv, IdleInv, DrainInv, EndInv,
         Listed, Empty
  <2>. QED  BY <1>1, <2>1, <2>2
<1>. QED  BY <1>4, <1>5, <1>6

-----------------------------------------------------------------------------
(* The runner.                                                             *)

(* What launching a service does to the table and to the tasks. *)
LEMMA LaunchEffect ==
    ASSUME TypeOK, EntryInv, NoStrayTask, NEW n \in Listed(config), services[n] = NoService,
           Launch(n)
    PROVE  /\ tasks' \in Seq(Task) /\ DOMAIN tasks \subseteq DOMAIN tasks'
           /\ \A t \in DOMAIN tasks : tasks'[t] = tasks[t]
           /\ services' \in [Name -> Service \cup {NoService}]
           /\ \A m \in Name : m # n => services'[m] = services[m]
           /\ services'[n] # NoService /\ services'[n].value = config[n]
           /\ Listed(services') = Listed(services) \cup {n}
           /\ \A m \in Listed(services') :
                 /\ services'[m].task \in DOMAIN tasks'
                 /\ tasks'[services'[m].task].value = services'[m].value
           /\ \A t \in DOMAIN tasks' : t \notin DOMAIN tasks => services'[n].task = t
           /\ UNCHANGED <<holder, errors, raced>>
<1>. DEFINE task == [value |-> config[n], state |-> "launched", stop |-> FALSE]
            entry == [value |-> config[n], task |-> Len(tasks) + 1]
<1>1. n \in Name /\ config[n] \in Value
  BY DEF Listed, TypeOK, Config
<1>2. /\ tasks' = Append(tasks, task) /\ services' = [services EXCEPT ![n] = entry]
      /\ UNCHANGED <<holder, errors, raced>>
  BY DEF Launch
<1>3. /\ tasks \in Seq(Task) /\ task \in Task /\ Len(tasks) \in Nat
      /\ DOMAIN tasks = 1..Len(tasks)
  BY <1>1, TaskNumbers DEF TypeOK, Task, TaskState
<1>4. /\ tasks' \in Seq(Task) /\ DOMAIN tasks' = 1..(Len(tasks) + 1)
      /\ \A t \in DOMAIN tasks : tasks'[t] = tasks[t]
      /\ tasks'[Len(tasks) + 1] = task
  BY <1>2, <1>3, AppendProperties, LenProperties
<1>5. entry \in Service /\ entry # NoService
  BY <1>1, <1>3, NoServiceAssumption DEF Service
<1>6. /\ services' \in [Name -> Service \cup {NoService}]
      /\ \A m \in Name : m # n => services'[m] = services[m]
      /\ services'[n] = entry
  BY <1>1, <1>2, <1>5 DEF TypeOK
<1>7. Listed(services') = Listed(services) \cup {n}
  BY <1>1, <1>5, <1>6 DEF Listed
<1>8. ASSUME NEW m \in Listed(services')
      PROVE  /\ services'[m].task \in DOMAIN tasks'
             /\ tasks'[services'[m].task].value = services'[m].value
  <2>1. CASE m = n
    BY <2>1, <1>3, <1>4, <1>6
  <2>2. CASE m # n
    <3>1. m \in Listed(services) /\ services'[m] = services[m] /\ m \in Name
      BY <2>2, <1>6, <1>7 DEF Listed
    <3>. QED  BY <3>1, <1>3, <1>4 DEF TypeOK, EntryInv
  <2>. QED  BY <2>1, <2>2
<1>9. \A t \in DOMAIN tasks' : t \notin DOMAIN tasks => services'[n].task = t
  BY <1>3, <1>4, <1>6
<1>10. DOMAIN tasks \subseteq DOMAIN tasks'
  BY <1>3, <1>4
<1>11. services'[n] # NoService /\ services'[n].value = config[n]
  BY <1>5, <1>6
<1>. HIDE DEF task, entry
<1>. QED  BY <1>2, <1>4, <1>6, <1>7, <1>8, <1>9, <1>10, <1>11

(* What telling a service to stop does. *)
LEMMA StopEffect ==
    ASSUME TypeOK, EntryInv, NEW n \in Listed(services), Stop(n)
    PROVE  /\ tasks' \in Seq(Task) /\ DOMAIN tasks' = DOMAIN tasks
           /\ \A t \in DOMAIN tasks :
                 tasks'[t].state = tasks[t].state /\ tasks'[t].value = tasks[t].value
           /\ services' \in [Name -> Service \cup {NoService}]
           /\ \A m \in Name : m # n => services'[m] = services[m]
           /\ services'[n] = NoService
           /\ Listed(services') = Listed(services) \ {n}
           /\ current' = n /\ n \in Name /\ n # NoService
           /\ stopping' = services[n].task /\ stopping' \in DOMAIN tasks
           /\ stopping' # NoTask
           /\ UNCHANGED <<holder, errors, raced>>
<1>. DEFINE t == services[n].task
<1>1. n \in Name /\ n # NoService /\ t \in DOMAIN tasks
  BY NoServiceAssumption DEF Listed, TypeOK
<1>2. tasks \in Seq(Task) /\ t \in 1..Len(tasks) /\ t # NoTask /\ tasks[t] \in Task
  BY <1>1, TaskNumbers DEF TypeOK
<1>3. /\ tasks' = [tasks EXCEPT ![t].stop = TRUE] /\ stopping' = t /\ current' = n
      /\ services' = [services EXCEPT ![n] = NoService]
      /\ UNCHANGED <<holder, errors, raced>>
  BY DEF Stop
<1>. DEFINE task == [tasks[t] EXCEPT !.stop = TRUE]
<1>4. task \in Task /\ task.state = tasks[t].state /\ task.value = tasks[t].value
  BY <1>2 DEF Task
<1>5. tasks' = [tasks EXCEPT ![t] = task]
  BY <1>3
<1>. HIDE DEF task
<1>6. tasks' \in Seq(Task) /\ DOMAIN tasks' = DOMAIN tasks
  BY <1>2, <1>4, <1>5, ExceptSeq
<1>7. \A u \in DOMAIN tasks :
          tasks'[u].state = tasks[u].state /\ tasks'[u].value = tasks[u].value
  BY <1>4, <1>5
<1>8. /\ services' \in [Name -> Service \cup {NoService}]
      /\ \A m \in Name : m # n => services'[m] = services[m]
      /\ services'[n] = NoService
  BY <1>1, <1>3 DEF TypeOK
<1>9. Listed(services') = Listed(services) \ {n}
  BY <1>1, <1>8 DEF Listed
<1>. QED  BY <1>1, <1>2, <1>3, <1>6, <1>7, <1>8, <1>9

(* The parts that only speak of table and tasks survive a launch and a stop. *)
LEMMA LaunchKeeps ==
    ASSUME IInv, NEW n \in Listed(config), services[n] = NoService, Launch(n),
           UNCHANGED <<mainVars, rx, stop, pc, config>>,
           \/ /\ UNCHANGED <<current, stopping>> /\ todo' \subseteq todo
           \/ /\ current' = NoService /\ stopping' = NoTask /\ todo' = todo
              /\ stopping # NoTask /\ tasks[stopping].state = "ended"
    PROVE  TypeOK' /\ EntryInv' /\ NoStrayTask'
<1>1. TypeOK'
  BY LaunchEffect DEF IInv, TypeOK, mainVars
<1>2. EntryInv'
  BY LaunchEffect DEF IInv, EntryInv
<1>3. ASSUME NEW t \in DOMAIN tasks'
      PROVE  \/ tasks'[t].state = "ended" \/ t = stopping'
             \/ \E m \in Listed(services') : services'[m].task = t
  <2>1. CASE t \notin DOMAIN tasks
    BY <2>1, LaunchEffect DEF IInv
  <2>2. CASE t \in DOMAIN tasks /\ \E m \in Listed(services) : services[m].task = t
    <3>1. PICK m \in Listed(services) : services[m].task = t
      BY <2>2
    <3>2. m \in Name /\ m # n /\ m \in Listed(services')
      BY <3>1, LaunchEffect DEF IInv, Listed
    <3>3. services'[m] = services[m]
      BY <3>2, LaunchEffect DEF IInv
    <3>. QED  BY <3>1, <3>2, <3>3
  <2>3. CASE t \in DOMAIN tasks /\ (tasks[t].state = "ended" \/ t = stopping)
    <3>1. tasks'[t] = tasks[t]
      BY <2>3, LaunchEffect DEF IInv
    <3>. QED  BY <2>3, <3>1
  <2>. QED  BY <2>1, <2>2, <2>3 DEF IInv, NoStrayTask
<1>. QED  BY <1>1, <1>2, <1>3 DEF NoStrayTask

LEMMA StopKeeps ==
    ASSUME IInv, NEW n \in Listed(services), Stop(n), n \in todo, todo' = todo \ {n},
           stopping = NoTask, UNCHANGED <<mainVars, rx, stop, pc, config>>, pc # "select"
    PROVE  TypeOK' /\ StoppingInv' /\ EntryInv' /\ NoStrayTask'
<1>1. TypeOK'
  <2>1. \A m \in Listed(services') : services'[m] = services[m] /\ m \in Listed(services)
    BY StopEffect DEF IInv, Listed
  <2>. QED  BY <2>1, StopEffect DEF IInv, TypeOK, mainVars
<1>2. StoppingInv'
  BY StopEffect DEF IInv, StoppingInv
<1>3. EntryInv'
  <2>1. \A m \in Listed(services') : services'[m] = services[m] /\ m \in Listed(services)
    BY StopEffect DEF IInv, Listed
  <2>. QED  BY <2>1, StopEffect DEF IInv, EntryInv, TypeOK
<1>4. ASSUME NEW t \in DOMAIN tasks'
      PROVE  \/ tasks'[t].state = "ended" \/ t = stopping'
             \/ \E m \in Listed(services') : services'[m].task = t
  <2>1. t \in DOMAIN tasks /\ tasks'[t].state = tasks[t].state /\ t # stopping
    BY StopEffect, TaskNumbers DEF IInv, TypeOK
  <2>2. CASE \E m \in Listed(services) : services[m].task = t
    <3>1. PICK m \in Listed(services) : services[m].task = t
      BY <2>2
    <3>2. CASE m = n
      BY <3>1, <3>2, StopEffect DEF IInv
    <3>3. CASE m # n
      <4>1. m \in Listed(services') /\ services'[m] = services[m]
        BY <3>1, <3>3, StopEffect DEF IInv, Listed
      <4>. QED  BY <3>1, <4>1
    <3>. QED  BY <3>2, <3>3
  <2>. QED  BY <2>1, <2>2 DEF IInv, NoStrayTask
<1>. QED  BY <1>1, <1>2, <1>3, <1>4 DEF NoStrayTask

(* One pass of the loop of Event::Reload that starts and updates services. *)
LEMMA UpdateStep ==
    ASSUME IInv, NEW n \in Name, LaunchNew(n) \/ KeepSame(n) \/ StopChanged(n)
    PROVE  IInv'
<1>. USE DEF IInv
<1>1. /\ pc = "update" /\ stopping = NoTask /\ current = NoService
      /\ n \in todo /\ todo' = todo \ {n} /\ n \in Listed(config)
      /\ UNCHANGED <<mainVars, rx, stop, pc, config>>
  BY DEF LaunchNew, KeepSame, StopChanged, TypeOK, LoopInv, UpdateInv
<1>2. loader # "starting"
  BY <1>1 DEF StartInv
<1>3. StartInv'
  BY <1>1, <1>2 DEF StartInv, mainVars
<1>4. CASE LaunchNew(n)
  <2>1. services[n] = NoService /\ Launch(n) /\ UNCHANGED <<current, stopping>>
    BY <1>4 DEF LaunchNew
  <2>2. TypeOK' /\ EntryInv' /\ NoStrayTask'
    BY <1>1, <2>1, LaunchKeeps
  <2>3. StoppingInv' /\ LoopInv'
    <3>1. \A m \in Listed(config) \ todo' : Applied(m)'
      <4>1. Applied(n)'
        BY <1>1, <2>1, LaunchEffect DEF Applied
      <4>2. ASSUME NEW m \in Listed(config), m \notin todo, m # n
            PROVE  Applied(m)'
        <5>1. services'[m] = services[m] /\ Applied(m)
          BY <1>1, <2>1, <4>2, LaunchEffect, NoServiceAssumption DEF LoopInv, UpdateInv, Listed
        <5>. QED  BY <1>1, <5>1 DEF Applied
      <4>. QED  BY <1>1, <4>1, <4>2
    <3>. QED
      BY <1>1, <2>1, <3>1 DEF StoppingInv, LoopInv, UpdateInv, RemoveInv, IdleInv, DrainInv,
         EndInv
  <2>. QED  BY <1>3, <2>2, <2>3
<1>5. CASE KeepSame(n)
  <2>1. /\ services[n] # NoService /\ services[n].value = config[n]
        /\ UNCHANGED <<current, stopping, services, taskVars>>
    BY <1>5 DEF KeepSame
  <2>2. TypeOK' /\ EntryInv' /\ NoStrayTask'
    BY <1>1, <2>1 DEF TypeOK, EntryInv, NoStrayTask, mainVars, taskVars
  <2>. QED
    BY <1>1, <1>3, <2>1, <2>2 DEF StoppingInv, LoopInv, UpdateInv, RemoveInv, IdleInv,
       DrainInv, EndInv, Applied
<1>6. CASE StopChanged(n)
  <2>1. n \in Listed(services) /\ Stop(n)
    BY <1>6 DEF StopChanged, Listed
  <2>2. TypeOK' /\ StoppingInv' /\ EntryInv' /\ NoStrayTask'
    BY <1>1, <2>1, StopKeeps
  <2>3. LoopInv'
    <3>1. \A m \in Listed(config) \ todo' : m # current' => Applied(m)'
      <4>1. ASSUME NEW m \in Listed(config), m \notin todo, m # n
            PROVE  Applied(m)'
        <5>1. services'[m] = services[m] /\ Applied(m)
          BY <1>1, <2>1, <4>1, StopEffect, NoServiceAssumption DEF LoopInv, UpdateInv, Listed
        <5>. QED  BY <1>1, <5>1 DEF Applied
      <4>2. current' = n
        BY <2>1, StopEffect
      <4>. QED  BY <1>1, <4>1, <4>2
    <3>2. current' = n
      BY <2>1, StopEffect
    <3>. QED
      BY <1>1, <3>1, <3>2 DEF LoopInv, UpdateInv, RemoveInv, IdleInv, DrainInv, EndInv
  <2>. QED  BY <1>3, <2>2, <2>3
<1>. QED  BY <1>4, <1>5, <1>6

(* One pass of the loops that remove and drain. *)
LEMMA RemovalStep ==
    ASSUME IInv, NEW n \in Name, StopNext(n)
    PROVE  IInv'
<1>. USE DEF IInv
<1>1. /\ pc \in {"remove", "drain"} /\ stopping = NoTask /\ n \in todo /\ Stop(n)
      /\ todo' = todo \ {n} /\ UNCHANGED <<mainVars, rx, stop, pc, config>>
  BY DEF StopNext
<1>2. n \in Listed(services) /\ (pc = "remove" => n \notin Listed(config))
  BY <1>1 DEF LoopInv, RemoveInv, DrainInv
<1>3. TypeOK' /\ StoppingInv' /\ EntryInv' /\ NoStrayTask'
  BY <1>1, <1>2, StopKeeps
<1>4. StartInv'
  BY <1>1 DEF StartInv, mainVars
<1>5. LoopInv'
  <2>1. pc = "remove" => \A m \in Listed(config) : Applied(m)'
    BY <1>1, <1>2, StopEffect DEF LoopInv, RemoveInv, Applied, Listed
  <2>2. Listed(services') = Listed(services) \ {n}
    BY <1>1, <1>2, StopEffect
  <2>. QED
    BY <1>1, <2>1, <2>2 DEF LoopInv, UpdateInv, RemoveInv, IdleInv, DrainInv, EndInv
<1>. QED  BY <1>3, <1>4, <1>5

(* The end of the task that is awaited. *)
LEMMA StoppedStep ==
    ASSUME IInv, Stopped
    PROVE  IInv'
<1>. USE DEF IInv
<1>1. /\ stopping # NoTask /\ tasks[stopping].state = "ended"
      /\ stopping' = NoTask /\ current' = NoService
      /\ UNCHANGED <<mainVars, rx, stop, pc, config, todo>>
  BY DEF Stopped
<1>2. /\ current \in Name /\ current # NoService /\ services[current] = NoService
      /\ current \notin todo
  BY <1>1 DEF TypeOK, StoppingInv
<1>3. pc \notin {"select", "ended"} /\ loader # "starting"
  BY <1>1 DEF LoopInv, IdleInv, EndInv, StartInv
<1>4. StoppingInv' /\ StartInv'
  BY <1>1, <1>3 DEF StoppingInv, StartInv, mainVars
<1>5. CASE pc = "update"
  <2>1. current \in Listed(config) /\ Launch(current)
    BY <1>2, <1>5 DEF LoopInv, UpdateInv, Stopped
  <2>2. TypeOK' /\ EntryInv' /\ NoStrayTask'
    BY <1>1, <1>2, <2>1, LaunchKeeps
  <2>3. \A m \in Listed(config) \ todo : Applied(m)'
    BY <1>1, <1>2, <1>5, <2>1, LaunchEffect DEF LoopInv, UpdateInv, Applied, Listed
  <2>. QED
    BY <1>1, <1>4, <1>5, <2>2, <2>3 DEF LoopInv, UpdateInv, RemoveInv, IdleInv, DrainInv,
       EndInv
<1>6. CASE pc # "update"
  <2>1. UNCHANGED <<services, taskVars>>
    BY <1>6 DEF Stopped
  <2>2. TypeOK' /\ EntryInv'
    BY <1>1, <1>3, <2>1 DEF TypeOK, EntryInv, mainVars, taskVars
  <2>3. NoStrayTask'
    BY <1>1, <2>1 DEF NoStrayTask, taskVars
  <2>. QED
    BY <1>1, <1>3, <1>4, <1>6, <2>1, <2>2, <2>3 DEF LoopInv, UpdateInv, RemoveInv, IdleInv,
       DrainInv, EndInv, Applied
<1>. QED  BY <1>5, <1>6

(* The steps from one loop to the next. *)
LEMMA TurnStep ==
    ASSUME IInv, TakeConfig \/ EndUpdate \/ EndRemove \/ ShutdownEvent \/ EndDrain
    PROVE  IInv'
<1>. USE DEF IInv
<1>1. /\ stopping = NoTask /\ current = NoService
      /\ UNCHANGED <<mainVars, stop, current, stopping, services, taskVars>>
  BY DEF TakeConfig, EndUpdate, EndRemove, ShutdownEvent, EndDrain, TypeOK, LoopInv, IdleInv
<1>2. loader # "starting"
  <2>1. CASE TakeConfig
    BY <2>1 DEF TakeConfig, StartInv
  <2>. QED  BY <2>1 DEF EndUpdate, EndRemove, ShutdownEvent, EndDrain, StartInv
<1>3. StoppingInv' /\ EntryInv' /\ NoStrayTask' /\ StartInv'
  BY <1>1, <1>2 DEF StoppingInv, EntryInv, NoStrayTask, StartInv, mainVars, taskVars
<1>4. CASE TakeConfig
  <2>1. config' \in Config /\ rx' \in Seq(Config) /\ todo' = Listed(config') /\ pc' = "update"
    BY <1>4, HeadTailProperties DEF TakeConfig, TypeOK
  <2>2. TypeOK'
    BY <1>1, <2>1 DEF TypeOK, mainVars, taskVars, Listed
  <2>. QED
    BY <1>1, <1>3, <2>1, <2>2 DEF LoopInv, UpdateInv, RemoveInv, IdleInv, DrainInv, EndInv
<1>5. CASE ~TakeConfig
  <2>1. UNCHANGED <<rx, config>>
    BY <1>5 DEF EndUpdate, EndRemove, ShutdownEvent, EndDrain
  <2>2. TypeOK'
    BY <1>1, <1>5, <2>1 DEF EndUpdate, EndRemove, ShutdownEvent, EndDrain, TypeOK, mainVars,
       taskVars, Listed
  <2>3. \A n \in Listed(config) : n \in Name /\ config[n] # NoService
    BY DEF Listed
  <2>4. LoopInv'
    <3>1. CASE EndUpdate
      <4>1. \A n \in Listed(config) : Applied(n)
        BY <1>1, <3>1, NoServiceAssumption DEF EndUpdate, LoopInv, UpdateInv, Listed
      <4>. QED
        BY <1>1, <2>1, <3>1, <4>1 DEF EndUpdate, LoopInv, UpdateInv, RemoveInv, IdleInv,
           DrainInv, EndInv, Applied
    <3>2. CASE EndRemove
      BY <1>1, <2>1, <3>2 DEF EndRemove, LoopInv, UpdateInv, RemoveInv, IdleInv, DrainInv,
         EndInv, Applied, Listed
    <3>3. CASE ShutdownEvent \/ EndDrain
      BY <1>1, <2>1, <3>3 DEF ShutdownEvent, EndDrain, LoopInv, UpdateInv, RemoveInv, IdleInv,
         DrainInv, EndInv
    <3>. QED  BY <1>5, <3>1, <3>2, <3>3
  <2>. QED  BY <1>3, <2>2, <2>4
<1>. QED  BY <1>4, <1>5

-----------------------------------------------------------------------------
(* The service tasks: a task that has not ended takes another state, and     *)
(* sockets move.                                                             *)

LEMMA TaskEffect ==
    ASSUME TypeOK, NEW t \in DOMAIN tasks,
           TaskStep(t) \/ Retry(t) \/ SocketError(t) \/ Stick(t)
    PROVE  /\ \E s \in TaskState : SetState(t, s)
           /\ tasks[t].state # "ended"
           /\ holder' \in [Address -> {NoOne, OldFile} \cup DOMAIN tasks]
           /\ errors' \in 0..MaxErrors /\ raced' \in BOOLEAN
           /\ UNCHANGED <<mainVars, rx, stop, runnerVars>>
<1>1. /\ holder \in [Address -> {NoOne, OldFile} \cup DOMAIN tasks]
      /\ errors \in 0..MaxErrors /\ raced \in BOOLEAN
  BY DEF TypeOK
<1>2. ASSUME Release(t)
      PROVE  holder' \in [Address -> {NoOne, OldFile} \cup DOMAIN tasks]
  BY <1>1, <1>2 DEF Release
<1>3. ASSUME Bind(t)
      PROVE  /\ \E s \in TaskState : SetState(t, s)
             /\ holder' \in [Address -> {NoOne, OldFile} \cup DOMAIN tasks]
             /\ UNCHANGED <<mainVars, rx, stop, runnerVars, errors, raced>>
  <2>1. UNCHANGED <<mainVars, rx, stop, runnerVars, errors, raced>>
    BY <1>3 DEF Bind
  <2>2. CASE Listen(t)
    BY <1>1, <2>1, <2>2 DEF Listen, TaskState
  <2>3. CASE ~Listen(t)
    <3>1. /\ SetState(t, IF BindOf(t) = "retry" THEN "retrying" ELSE "dead")
          /\ UNCHANGED holder
      BY <1>3, <2>3 DEF Bind
    <3>. QED  BY <1>1, <2>1, <3>1 DEF TaskState
  <2>. QED  BY <2>2, <2>3
<1>4. CASE FirstPoll(t)
  <2>1. CASE Bind(t)
    BY <1>1, <1>3, <1>4, <2>1 DEF FirstPoll
  <2>2. CASE ~Bind(t)
    <3>1. /\ SetState(t, "removing") /\ raced' \in BOOLEAN
          /\ UNCHANGED <<mainVars, rx, stop, runnerVars, holder, errors>>
      BY <1>1, <1>4, <2>2 DEF FirstPoll
    <3>. QED  BY <1>1, <1>4, <3>1 DEF FirstPoll, TaskState
  <2>. QED  BY <2>1, <2>2
<1>5. CASE RemoveFile(t)
  BY <1>1, <1>5 DEF RemoveFile, TaskState
<1>6. CASE BindLater(t) \/ Retry(t)
  BY <1>1, <1>3, <1>6 DEF BindLater, Retry
<1>7. CASE EndTask(t)
  BY <1>1, <1>2, <1>7 DEF EndTask, TaskState
<1>8. CASE SocketError(t)
  BY <1>1, <1>2, <1>8, BoundsAssumption DEF SocketError, TaskState
<1>9. CASE Stick(t)
  BY <1>1, <1>9 DEF Stick, TaskState
<1>. QED  BY <1>4, <1>5, <1>6, <1>7, <1>8, <1>9 DEF TaskStep

LEMMA TasksStep ==
    ASSUME IInv, NEW t \in DOMAIN tasks,
           TaskStep(t) \/ Retry(t) \/ SocketError(t) \/ Stick(t)
    PROVE  IInv'
<1>. USE DEF IInv
<1>1. PICK s \in TaskState : SetState(t, s)
  BY TaskEffect
<1>2. tasks \in Seq(Task) /\ t \in 1..Len(tasks) /\ tasks[t] \in Task /\ tasks # <<>>
  BY TaskNumbers DEF TypeOK
<1>. DEFINE task == [tasks[t] EXCEPT !.state = s]
<1>3. task \in Task /\ task.value = tasks[t].value
  BY <1>2 DEF Task
<1>4. tasks' = [tasks EXCEPT ![t] = task]
  BY <1>1 DEF SetState
<1>. HIDE DEF task
<1>5. tasks' \in Seq(Task) /\ DOMAIN tasks' = DOMAIN tasks
  BY <1>2, <1>3, <1>4, ExceptSeq
<1>6. \A u \in DOMAIN tasks :
          /\ tasks'[u].value = tasks[u].value
          /\ u # t => tasks'[u] = tasks[u]
  BY <1>3, <1>4
<1>7. UNCHANGED <<mainVars, rx, stop, runnerVars>> /\ tasks[t].state # "ended"
  BY TaskEffect
<1>8. TypeOK'
  BY <1>5, <1>7, TaskEffect DEF TypeOK, mainVars, runnerVars
<1>9. EntryInv' /\ NoStrayTask'
  BY <1>5, <1>6, <1>7 DEF EntryInv, NoStrayTask, runnerVars, TypeOK
<1>10. StoppingInv' /\ LoopInv' /\ StartInv'
  BY <1>2, <1>7 DEF StoppingInv, LoopInv, UpdateInv, RemoveInv, IdleInv, DrainInv, EndInv,
     StartInv, Applied, mainVars, runnerVars
<1>. QED  BY <1>8, <1>9, <1>10

-----------------------------------------------------------------------------
LEMMA InvStep == IInv /\ [Next]_vars => IInv'
<1>. SUFFICES ASSUME IInv, [Next]_vars PROVE IInv'
  OBVIOUS
<1>1. CASE Runner
  BY <1>1, UpdateStep, RemovalStep, StoppedStep, TurnStep DEF Runner
<1>2. CASE UNCHANGED vars
  BY <1>2 DEF vars, mainVars, runnerVars, taskVars, IInv, TypeOK, StoppingInv, LoopInv,
     UpdateInv, RemoveInv, IdleInv, DrainInv, EndInv, StartInv, EntryInv, NoStrayTask, Applied
<1>. QED  BY <1>1, <1>2, MainStep, TasksStep DEF Next

LEMMA Invariance == Spec => []IInv
  BY InvInit, InvStep, PTL DEF Spec

(* The table, the tasks and the runner's place in its loops stay consistent. *)
THEOREM TypeCorrect == Spec => []TypeOK
<1>1. IInv => TypeOK
  BY DEF IInv
<1>. QED  BY <1>1, Invariance, PTL

(* Whatever reloads came before, and whenever: between two events the running *)
(* services are those of the configuration applied last (service.rs:73-115).  *)
THEOREM FaithfulHolds == Spec => []FaithfulWhenIdle
<1>1. IInv => FaithfulWhenIdle
  <2>. SUFFICES ASSUME IInv, pc = "select", NEW n \in Name
                PROVE  IF config[n] = NoService THEN services[n] = NoService
                       ELSE services[n] # NoService /\ services[n].value = config[n]
                            /\ tasks[services[n].task].value = config[n]
    BY DEF FaithfulWhenIdle
  <2>. QED  BY DEF IInv, LoopInv, IdleInv, Applied, EntryInv, Listed
<1>. QED  BY <1>1, Invariance, PTL

(* No task is forgotten: it has ended, is awaited, or is in the table.       *)
THEOREM NoStrayHolds == Spec => []NoStrayTask
<1>1. IInv => NoStrayTask
  BY DEF IInv
<1>. QED  BY <1>1, Invariance, PTL

(* A runner that has ended leaves no task behind.                            *)
THEOREM CleanEndHolds == Spec => []CleanEnd
<1>1. IInv => CleanEnd
  BY TaskNumbers DEF IInv, TypeOK, LoopInv, EndInv, NoStrayTask, CleanEnd
<1>. QED  BY <1>1, Invariance, PTL

=============================================================================
