------------------------- MODULE TaskWrapperProofs -------------------------
(***************************************************************************)
(* What a TaskWrapper promises its owner, for every tree of tasks: what    *)
(* MCTaskWrapper checks of one accept loop, session and pair of pumps.     *)
(***************************************************************************)
EXTENDS TaskWrapper, TLAPS

(* What a wrapper still says of its task: a result kept is that of a panic, *)
(* a sender spent is a shutdown() under way or returned, and a handle taken *)
(* is being awaited by one, or has shown that the task is over.             *)
Wrapped ==
    /\ \A t \in Task : handle[t] = "polled" => life[t] = "panicked"
    /\ \A t \in wrappers :
          /\ tx[t] \/ call[t] = "shutdown" \/ t \in stopped
          /\ handle[t] # "none" \/ call[t] = "shutdown" \/ Over(t)

IInv == TypeOK /\ StoppedIsOver /\ PolledAgainOnlyAfterPanic /\ Wrapped

LEMMA InvInit == Init => IInv
  BY DEF Init, IInv, TypeOK, StoppedIsOver, PolledAgainOnlyAfterPanic, Wrapped

(* The type invariant says of every task that its wrapper is held, or says   *)
(* nothing.                                                                  *)
LEMMA TypeStep ==
    ASSUME IInv, [Next]_vars
    PROVE  TypeOK'
<1>. USE OwnerAssumption DEF IInv, TypeOK
<1>1. ASSUME NEW t \in Task, StartTask(t) PROVE TypeOK'
  BY <1>1 DEF StartTask
<1>2. ASSUME NEW t \in Task, Wait(t) PROVE TypeOK'
  BY <1>2 DEF Wait, MayCall
<1>3. ASSUME NEW t \in Task, WaitDropped(t) PROVE TypeOK'
  BY <1>3 DEF WaitDropped
<1>4. ASSUME NEW t \in Task, WaitReturns(t) PROVE TypeOK'
  BY <1>4 DEF WaitReturns
<1>5. ASSUME NEW t \in Task, Shutdown(t) PROVE TypeOK'
  BY <1>5 DEF Shutdown, MayCall
<1>6. ASSUME NEW t \in Task, ShutdownReturns(t) PROVE TypeOK'
  BY <1>6 DEF ShutdownReturns
<1>7. ASSUME NEW t \in Task, Drop(t) PROVE TypeOK'
  BY <1>7 DEF Drop, DropWrappers
<1>8. ASSUME NEW t \in Task, PollAgain(t) PROVE TypeOK'
  BY <1>8 DEF PollAgain, DropWrappers, MayCall, Owned
<1>9. ASSUME NEW t \in Task, Ends(t) \/ Panics(t) PROVE TypeOK'
  BY <1>9 DEF Ends, Panics, GoesOver, DropWrappers, Owned
<1>10. CASE UNCHANGED vars
  BY <1>10 DEF vars
<1>. QED
  BY <1>1, <1>2, <1>3, <1>4, <1>5, <1>6, <1>7, <1>8, <1>9, <1>10 DEF Next

(* A task that is over is over for good, and one that panicked has panicked. *)
LEMMA OverForGood ==
    ASSUME IInv, [Next]_vars, NEW u \in Task
    PROVE  /\ Over(u) => Over(u)'
           /\ life[u] = "panicked" => life'[u] = "panicked"
<1>. USE OwnerAssumption DEF IInv, TypeOK, Over
<1>1. ASSUME NEW t \in Task, StartTask(t)
      PROVE  life' = [life EXCEPT ![t] = "running"] /\ life[t] = "new"
  BY <1>1 DEF StartTask
<1>2. ASSUME NEW t \in Task, PollAgain(t)
      PROVE  \A v \in Task : life'[v] = life[v] \/ life'[v] = "panicked"
  BY <1>2 DEF PollAgain
<1>3. ASSUME NEW t \in Task, Ends(t) \/ Panics(t)
      PROVE  life[t] = "running" /\ \A v \in Task : v # t => life'[v] = life[v]
  BY <1>3 DEF Ends, Panics, GoesOver
<1>4. ASSUME NEW t \in Task,
             Wait(t) \/ WaitDropped(t) \/ WaitReturns(t) \/ Shutdown(t)
                \/ ShutdownReturns(t) \/ Drop(t)
      PROVE  UNCHANGED life
  BY <1>4 DEF Wait, WaitDropped, WaitReturns, Shutdown, ShutdownReturns, Drop
<1>5. CASE UNCHANGED vars
  BY <1>5 DEF vars
<1>. QED
  BY <1>1, <1>2, <1>3, <1>4, <1>5 DEF Next

(* A shutdown() that returns at once, for it was called before or a wait()   *)
(* has shown the end, tells the truth: the wrapper knows.                    *)
LEMMA StoppedStep ==
    ASSUME IInv, [Next]_vars
    PROVE  StoppedIsOver'
<1>. USE DEF IInv
<1>1. ASSUME NEW t \in Task, Shutdown(t) PROVE StoppedIsOver'
  <2>1. t \in wrappers /\ call[t] = "none" /\ UNCHANGED life
    BY <1>1 DEF Shutdown, MayCall
  <2>2. stopped' = stopped \/ (stopped' = stopped \cup {t} /\ (tx[t] => handle[t] = "none"))
    BY <1>1 DEF Shutdown
  <2>3. ~tx[t] => Over(t)
    BY <2>1 DEF Wrapped, StoppedIsOver
  <2>4. handle[t] = "none" => Over(t)
    BY <2>1 DEF Wrapped
  <2>. QED  BY <2>1, <2>2, <2>3, <2>4 DEF StoppedIsOver, Over
<1>2. ASSUME NEW t \in Task, ShutdownReturns(t) PROVE StoppedIsOver'
  BY <1>2 DEF ShutdownReturns, StoppedIsOver, Over
<1>3. CASE UNCHANGED stopped
  <2>1. stopped \subseteq Task
    BY DEF TypeOK
  <2>. QED  BY <1>3, <2>1, OverForGood DEF StoppedIsOver
<1>. QED
  BY <1>1, <1>2, <1>3 DEF Next, vars, StartTask, Wait, WaitDropped, WaitReturns,
     Drop, PollAgain, Ends, Panics, GoesOver

(* Only a handle whose task panicked is kept to be polled again.             *)
LEMMA PolledStep ==
    ASSUME IInv, [Next]_vars
    PROVE  PolledAgainOnlyAfterPanic'
<1>. USE DEF IInv
<1>1. ASSUME NEW t \in Task, PollAgain(t) PROVE PolledAgainOnlyAfterPanic'
  <2>1. life[t] = "panicked" /\ repolled' = repolled \cup {t} /\ repolled \subseteq Task
    BY <1>1 DEF PollAgain, Wrapped, TypeOK
  <2>. QED  BY <2>1, OverForGood DEF PolledAgainOnlyAfterPanic
<1>2. CASE UNCHANGED repolled
  <2>1. repolled \subseteq Task
    BY DEF TypeOK
  <2>. QED  BY <1>2, <2>1, OverForGood DEF PolledAgainOnlyAfterPanic
<1>. QED
  BY <1>1, <1>2 DEF Next, vars, StartTask, Wait, WaitDropped, WaitReturns, Shutdown,
     ShutdownReturns, Drop, Ends, Panics, GoesOver

(* Dropping wrappers takes with them what they knew. *)
LEMMA DropKeepsWrapped ==
    ASSUME IInv, [Next]_vars, NEW tasks, DropWrappers(tasks), UNCHANGED stopped
    PROVE  Wrapped'
<1>1. ASSUME NEW u \in Task, handle'[u] = "polled" PROVE life'[u] = "panicked"
  <2>1. handle[u] = "polled"
    BY <1>1 DEF DropWrappers
  <2>. QED  BY <2>1, OverForGood DEF IInv, Wrapped
<1>2. ASSUME NEW u \in wrappers'
      PROVE  /\ tx'[u] \/ call'[u] = "shutdown" \/ u \in stopped'
             /\ handle'[u] # "none" \/ call'[u] = "shutdown" \/ Over(u)'
  <2>1. u \in wrappers /\ u \in Task /\ u \notin tasks
    BY <1>2 DEF DropWrappers, IInv, TypeOK
  <2>2. tx'[u] = tx[u] /\ handle'[u] = handle[u] /\ call'[u] = call[u] /\ stopped' = stopped
    BY <2>1 DEF DropWrappers, IInv, TypeOK
  <2>. QED  BY <2>1, <2>2, OverForGood DEF IInv, Wrapped
<1>. QED  BY <1>1, <1>2 DEF Wrapped

LEMMA WrappedStep ==
    ASSUME IInv, [Next]_vars
    PROVE  Wrapped'
<1>. USE DEF IInv, TypeOK
<1>1. ASSUME NEW t \in Task, StartTask(t) PROVE Wrapped'
  BY <1>1 DEF StartTask, Wrapped, Over
<1>2. ASSUME NEW t \in Task, Wait(t) PROVE Wrapped'
  BY <1>2 DEF Wait, MayCall, Wrapped, Over
<1>3. ASSUME NEW t \in Task, WaitDropped(t) PROVE Wrapped'
  BY <1>3 DEF WaitDropped, Wrapped, Over
<1>4. ASSUME NEW t \in Task, WaitReturns(t) PROVE Wrapped'
  BY <1>4 DEF WaitReturns, Wrapped, Over
<1>5. ASSUME NEW t \in Task, Shutdown(t) PROVE Wrapped'
  BY <1>5 DEF Shutdown, MayCall, Wrapped, Over
<1>6. ASSUME NEW t \in Task, ShutdownReturns(t) PROVE Wrapped'
  BY <1>6 DEF ShutdownReturns, Wrapped, Over
<1>7. ASSUME NEW t \in Task, Drop(t) PROVE Wrapped'
  BY <1>7, DropKeepsWrapped DEF Drop
<1>8. ASSUME NEW t \in Task, PollAgain(t) PROVE Wrapped'
  BY <1>8, DropKeepsWrapped DEF PollAgain
<1>9. ASSUME NEW t \in Task, Ends(t) \/ Panics(t) PROVE Wrapped'
  BY <1>9, DropKeepsWrapped DEF Ends, Panics, GoesOver
<1>10. CASE UNCHANGED vars
  BY <1>10 DEF vars, Wrapped, Over
<1>. QED
  BY <1>1, <1>2, <1>3, <1>4, <1>5, <1>6, <1>7, <1>8, <1>9, <1>10 DEF Next

LEMMA Invariance == Spec => []IInv
<1>1. IInv /\ [Next]_vars => IInv'
  BY TypeStep, StoppedStep, PolledStep, WrappedStep DEF IInv
<1>. QED  BY InvInit, <1>1, PTL DEF Spec

(* A wrapper is that of a task that was started, and says nothing once it is *)
(* dropped.                                                                  *)
THEOREM TypeCorrect == Spec => []TypeOK
<1>1. IInv => TypeOK
  BY DEF IInv
<1>. QED  BY <1>1, Invariance, PTL

(* Whoever calls shutdown() and gets an answer, be it the error that it was  *)
(* called before, may rely on the task to be over, whichever wait() was      *)
(* dropped before and whoever else dropped or ended what.                    *)
THEOREM StoppedIsOverHolds == Spec => []StoppedIsOver
<1>1. IInv => StoppedIsOver
  BY DEF IInv
<1>. QED  BY <1>1, Invariance, PTL

(* Calling wait() and shutdown() in any order polls no JoinHandle twice to   *)
(* its end, except that of a task that panicked.                             *)
THEOREM PolledAgainOnlyAfterPanicHolds == Spec => []PolledAgainOnlyAfterPanic
<1>1. IInv => PolledAgainOnlyAfterPanic
  BY DEF IInv
<1>. QED  BY <1>1, Invariance, PTL

-----------------------------------------------------------------------------
(* The owners.                                                             *)

(* A wrapper that is held is held by an owner that runs. *)
OwnersRun == \A t \in wrappers : Runs(owner[t])

(* No task is left to itself: one that runs was told to end, or its owner    *)
(* runs and may tell it still.  And no owner awaits a task it has not told.  *)
NoneLeftBehind ==
    \A t \in Task :
        /\ life[t] = "running" => ~tx[t] \/ (t \in wrappers /\ Runs(owner[t]))
        /\ call[t] = "shutdown" => ~tx[t]

OwnerInv == OwnersRun /\ \A t \in Task : call[t] = "shutdown" => ~tx[t]

(* Whoever goes over drops its wrappers first. *)
LEMMA OwnersRunStep ==
    ASSUME TypeOK, OwnersRun, [Next]_vars
    PROVE  OwnersRun'
<1>. USE OwnerAssumption DEF TypeOK, OwnersRun
<1>1. ASSUME NEW t \in Task, StartTask(t) PROVE OwnersRun'
  <2>1. /\ wrappers' = wrappers \cup {t} /\ repolled' = repolled
        /\ Runs(owner[t]) /\ life[t] = "new" /\ life' = [life EXCEPT ![t] = "running"]
    BY <1>1 DEF StartTask
  <2>2. \A u \in wrappers' : Runs(owner[u])
    BY <2>1
  <2>3. ASSUME NEW u \in wrappers' PROVE Runs(owner[u])'
    <3>1. u \in Task /\ owner[u] \in Task \cup {Main}
      BY <2>1
    <3>2. CASE owner[u] = Main
      BY <2>1, <2>2, <3>2 DEF Runs, Owned
    <3>3. CASE owner[u] # Main
      <4>1. life[owner[u]] = "running" /\ owner[u] \in Task
        BY <2>2, <3>1, <3>3 DEF Runs
      <4>2. life'[owner[u]] = "running"
        BY <2>1, <4>1
      <4>. QED  BY <3>3, <4>2 DEF Runs
    <3>. QED  BY <3>2, <3>3
  <2>. QED  BY <2>3
<1>2. ASSUME UNCHANGED <<life, repolled>>, wrappers' \subseteq wrappers
      PROVE  OwnersRun'
  BY <1>2 DEF Runs
<1>3. ASSUME NEW t \in Task, PollAgain(t) PROVE OwnersRun'
  <2>1. /\ wrappers' = wrappers \ Owned(owner[t]) /\ repolled' = repolled \cup {t}
        /\ life' = [u \in Task |-> IF u = owner[t] THEN "panicked" ELSE life[u]]
    BY <1>3 DEF PollAgain, DropWrappers
  <2>2. ASSUME NEW u \in wrappers' PROVE Runs(owner[u])'
    <3>1. /\ u \in wrappers /\ u \in Task /\ owner[u] \in Task \cup {Main}
          /\ owner[u] # owner[t] /\ Runs(owner[u])
      BY <2>1, <2>2 DEF Owned
    <3>2. CASE owner[u] = Main
      BY <2>1, <3>1, <3>2 DEF Runs, Owned
    <3>3. CASE owner[u] # Main
      BY <2>1, <3>1, <3>3 DEF Runs
    <3>. QED  BY <3>2, <3>3
  <2>. QED  BY <2>2
<1>4. ASSUME NEW t \in Task, Ends(t) \/ Panics(t) PROVE OwnersRun'
  <2>1. /\ wrappers' = wrappers \ Owned(t) /\ repolled' = repolled
        /\ \A u \in Task : u # t => life'[u] = life[u]
    BY <1>4 DEF Ends, Panics, GoesOver, DropWrappers
  <2>2. ASSUME NEW u \in wrappers' PROVE Runs(owner[u])'
    <3>1. /\ u \in wrappers /\ u \in Task /\ owner[u] \in Task \cup {Main}
          /\ owner[u] # t /\ Runs(owner[u])
      BY <2>1, <2>2 DEF Owned
    <3>. QED  BY <2>1, <3>1 DEF Runs, Owned
  <2>. QED  BY <2>2
<1>5. ASSUME NEW t \in Task,
             \/ Wait(t) \/ WaitDropped(t) \/ WaitReturns(t) \/ Shutdown(t)
             \/ ShutdownReturns(t) \/ Drop(t)
      PROVE  OwnersRun'
  <2>1. UNCHANGED <<life, repolled>> /\ wrappers' \subseteq wrappers
    BY <1>5 DEF Wait, WaitDropped, WaitReturns, Shutdown, ShutdownReturns, Drop, DropWrappers
  <2>. QED  BY <1>2, <2>1
<1>6. CASE UNCHANGED vars
  BY <1>2, <1>6 DEF vars
<1>. QED  BY <1>1, <1>3, <1>4, <1>5, <1>6 DEF Next

(* shutdown() tells before it awaits; only a task that is started anew has   *)
(* a sender again, and a task is started once.                               *)
LEMMA ToldStep ==
    ASSUME TypeOK, [Next]_vars, \A t \in Task : call[t] = "shutdown" => ~tx[t]
    PROVE  \A t \in Task : call'[t] = "shutdown" => ~tx'[t]
<1>. USE DEF TypeOK
<1>1. ASSUME NEW t \in Task, StartTask(t)
      PROVE  \A u \in Task : call'[u] = "shutdown" => ~tx'[u]
  <2>1. /\ life[t] = "new" /\ call' = call
        /\ \A u \in Task : u # t => tx'[u] = tx[u]
    BY <1>1 DEF StartTask
  <2>2. call[t] = "none"
    BY <2>1
  <2>. QED  BY <2>1, <2>2
<1>2. ASSUME NEW t \in Task, Wait(t) \/ WaitDropped(t) \/ WaitReturns(t) \/ ShutdownReturns(t)
      PROVE  \A u \in Task : call'[u] = "shutdown" => ~tx'[u]
  BY <1>2 DEF Wait, WaitDropped, WaitReturns, ShutdownReturns
<1>3. ASSUME NEW t \in Task, Shutdown(t)
      PROVE  \A u \in Task : call'[u] = "shutdown" => ~tx'[u]
  BY <1>3 DEF Shutdown
<1>4. ASSUME NEW gone, DropWrappers(gone)
      PROVE  \A u \in Task : call'[u] = "shutdown" => ~tx'[u]
  BY <1>4 DEF DropWrappers
<1>5. CASE UNCHANGED vars
  BY <1>5 DEF vars
<1>. QED
  BY <1>1, <1>2, <1>3, <1>4, <1>5 DEF Next, Drop, PollAgain, Ends, Panics, GoesOver

(* The end of an owner, of whatever kind, tells every task below it: none    *)
(* that runs is without an owner who could still end it and untold at once.  *)
(* It is what ToldIsOver rests on: whoever waits waits for a task that was   *)
(* told.                                                                     *)
THEOREM NoneLeftBehindHolds == Spec => []NoneLeftBehind
<1>1. Init => OwnerInv
  BY DEF Init, OwnerInv, OwnersRun
<1>2. TypeOK /\ OwnerInv /\ [Next]_vars => OwnerInv'
  BY OwnersRunStep, ToldStep DEF OwnerInv
<1>3. TypeOK /\ OwnerInv => NoneLeftBehind
  BY DEF TypeOK, OwnerInv, OwnersRun, NoneLeftBehind
<1>. QED  BY <1>1, <1>2, <1>3, TypeCorrect, PTL DEF Spec
=============================================================================
