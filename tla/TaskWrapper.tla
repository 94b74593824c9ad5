----------------------------- MODULE TaskWrapper -----------------------------
(***************************************************************************)
(* How the programs own their tasks (src/task.rs).  start_task gives the   *)
(* owner a TaskWrapper: the sender that tells the task to end, and the     *)
(* JoinHandle that shows when it has.  Owners are tasks themselves: main   *)
(* owns the service runner, that owns the services, a service its          *)
(* sessions, a session its two pumps.                                      *)
(*                                                                         *)
(* An owner calls what it likes when it likes, as the callers do: wait()   *)
(* only as a branch of a select!, which may drop it; shutdown() outside of *)
(* one, so that it runs to its end, at times several at once (join_all).   *)
(* A task ends when it is told, and may end or panic before.               *)
(***************************************************************************)


CONSTANTS
    Task,    \* tasks, each started at most once
    Main,    \* the main function, an owner that is no task
    owner    \* who starts a task: [Task -> Task \cup {Main}]

ASSUME OwnerAssumption == Main \notin Task /\ owner \in [Task -> Task \cup {Main}]

VARIABLES
    life,       \* "new", "running", "ended", "panicked"
    wrappers,   \* the tasks whose TaskWrapper its owner has
    tx,         \* the wrapper holds the sender: nobody told the task to end
    handle,     \* the wrapper's JoinHandle: "none", "held", or "polled" to its
                \* end and held still
    call,       \* the owner's call in progress: "none", "wait", "shutdown"
    (* history *)
    stopped,    \* tasks of which a shutdown() has returned
    repolled    \* tasks whose JoinHandle was polled again after its end

vars == <<life, wrappers, tx, handle, call, stopped, repolled>>

TypeOK ==
    /\ life \in [Task -> {"new", "running", "ended", "panicked"}]
    /\ wrappers \subseteq {t \in Task : life[t] # "new"}
    /\ tx \in [Task -> BOOLEAN]
    /\ handle \in [Task -> {"none", "held", "polled"}]
    /\ call \in [Task -> {"none", "wait", "shutdown"}]
    /\ \A t \in Task \ wrappers : ~tx[t] /\ handle[t] = "none" /\ call[t] = "none"
    /\ stopped \subseteq Task /\ repolled \subseteq Task

Init ==
    /\ life = [t \in Task |-> "new"]
    /\ wrappers = {}
    /\ tx = [t \in Task |-> FALSE]
    /\ handle = [t \in Task |-> "none"]
    /\ call = [t \in Task |-> "none"]
    /\ stopped = {} /\ repolled = {}

Owned(o) == {t \in Task : owner[t] = o}

Over(t) == life[t] \in {"ended", "panicked"}

(* Polling a JoinHandle that has given its result panics; in main, that ends *)
(* the process.                                                              *)
Runs(o) == IF o = Main THEN Owned(Main) \cap repolled = {} ELSE life[o] = "running"

\* wait() awaited on its own and not as a branch of select!
AwaitsMutant(o) == \E t \in Owned(o) : call[t] # "none"

(* The owner is inside a shutdown(): it looks at nothing else. *)
Awaits(o) == \E t \in Owned(o) : call[t] = "shutdown"

-----------------------------------------------------------------------------
(* The owner's calls.                                                      *)

StartTask(t) ==
    /\ life[t] = "new" /\ Runs(owner[t]) /\ ~Awaits(owner[t])
    /\ life' = [life EXCEPT ![t] = "running"]
    /\ wrappers' = wrappers \cup {t}
    /\ tx' = [tx EXCEPT ![t] = TRUE]
    /\ handle' = [handle EXCEPT ![t] = "held"]
    /\ UNCHANGED <<call, stopped, repolled>>

MayCall(t) == t \in wrappers /\ Runs(owner[t]) /\ call[t] = "none"

\* the handle is taken out of the wrapper before it is awaited
WaitMutant(t) ==
    /\ MayCall(t) /\ ~Awaits(owner[t])
    /\ handle[t] = "held"
    /\ call' = [call EXCEPT ![t] = "wait"]
    /\ handle' = [handle EXCEPT ![t] = "none"]
    /\ UNCHANGED <<life, wrappers, tx, stopped, repolled>>

(* wait(), which borrows the handle; without one it returns at once. *)
Wait(t) ==
    /\ MayCall(t) /\ ~Awaits(owner[t])
    /\ handle[t] = "held"
    /\ call' = [call EXCEPT ![t] = "wait"]
    /\ UNCHANGED <<life, wrappers, tx, handle, stopped, repolled>>

(* Another branch of the select! wins. *)
WaitDropped(t) ==
    /\ call[t] = "wait"
    /\ call' = [call EXCEPT ![t] = "none"]
    /\ UNCHANGED <<life, wrappers, tx, handle, stopped, repolled>>

\* the handle stays in the wrapper once it has given its result
WaitReturnsMutant(t) ==
    /\ call[t] = "wait" /\ Over(t)
    /\ call' = [call EXCEPT ![t] = "none"]
    /\ handle' = [handle EXCEPT ![t] = "polled"]
    /\ UNCHANGED <<life, wrappers, tx, stopped, repolled>>

(* The handle is dropped with the result, but `?` is ahead of that: of a task *)
(* that panicked it stays.                                                    *)
WaitReturns(t) ==
    /\ call[t] = "wait" /\ Over(t)
    /\ call' = [call EXCEPT ![t] = "none"]
    /\ handle' = [handle EXCEPT ![t] = IF life[t] = "ended" THEN "none" ELSE "polled"]
    /\ UNCHANGED <<life, wrappers, tx, stopped, repolled>>

(* shutdown(): tell the task, then await it; an error, at once, if it was    *)
(* told or awaited before.                                                   *)
Shutdown(t) ==
    /\ MayCall(t)
    /\ tx' = [tx EXCEPT ![t] = FALSE]
    /\ \/ /\ tx[t] /\ handle[t] = "held"
          /\ handle' = [handle EXCEPT ![t] = "none"]
          /\ call' = [call EXCEPT ![t] = "shutdown"]
          /\ UNCHANGED stopped
       \/ /\ tx[t] => handle[t] = "none"
          /\ stopped' = stopped \cup {t}
          /\ UNCHANGED <<handle, call>>
    /\ UNCHANGED <<life, wrappers, repolled>>

ShutdownReturns(t) ==
    /\ call[t] = "shutdown" /\ Over(t)
    /\ call' = [call EXCEPT ![t] = "none"]
    /\ stopped' = stopped \cup {t}
    /\ UNCHANGED <<life, wrappers, tx, handle, repolled>>

\* no impl Drop, and a sender whose drop goes unnoticed
DropWrappersMutant(tasks) ==
    /\ wrappers' = wrappers \ tasks
    /\ handle' = [t \in Task |-> IF t \in tasks THEN "none" ELSE handle[t]]
    /\ call' = [t \in Task |-> IF t \in tasks THEN "none" ELSE call[t]]
    /\ UNCHANGED tx

(* TaskWrapper::drop tells the tasks; the handles go, and detach them. *)
DropWrappers(tasks) ==
    /\ wrappers' = wrappers \ tasks
    /\ tx' = [t \in Task |-> tx[t] /\ t \notin tasks]
    /\ handle' = [t \in Task |-> IF t \in tasks THEN "none" ELSE handle[t]]
    /\ call' = [t \in Task |-> IF t \in tasks THEN "none" ELSE call[t]]

Drop(t) ==
    /\ MayCall(t) /\ ~Awaits(owner[t])
    /\ DropWrappers({t})
    /\ UNCHANGED <<life, stopped, repolled>>

(* wait() or shutdown() polls a handle that gave its result: the owner panics. *)
PollAgain(t) ==
    /\ MayCall(t) /\ handle[t] = "polled"
    /\ repolled' = repolled \cup {t}
    /\ life' = [u \in Task |-> IF u = owner[t] THEN "panicked" ELSE life[u]]
    /\ DropWrappers(Owned(owner[t]))
    /\ UNCHANGED stopped

-----------------------------------------------------------------------------
(* The task.  Its future is dropped when it is over: with it go its          *)
(* ShutdownHandle, which sets `done`, and the wrappers of its own tasks.     *)

GoesOver(t, how) ==
    /\ life' = [life EXCEPT ![t] = how]
    /\ DropWrappers(Owned(t))
    /\ UNCHANGED <<stopped, repolled>>

(* For a reason of its own, or because it is told, by shutdown() or by drop. *)
Ends(t) ==
    /\ life[t] = "running" /\ ~Awaits(t)
    /\ GoesOver(t, "ended")

Panics(t) ==
    /\ life[t] = "running" /\ ~Awaits(t)
    /\ GoesOver(t, "panicked")

(* ShutdownHandle::poll is ready; the task's select! sees it between calls. *)
EndsAsTold(t) == ~tx[t] /\ Ends(t)

Next ==
    \E t \in Task :
        \/ StartTask(t) \/ Wait(t) \/ WaitDropped(t) \/ WaitReturns(t)
        \/ Shutdown(t) \/ ShutdownReturns(t) \/ Drop(t) \/ PollAgain(t)
        \/ Ends(t) \/ Panics(t)

Spec == Init /\ [][Next]_vars

(* A task that is told ends, and a shutdown() that can return does; nothing  *)
(* else needs to happen.                                                     *)
Fairness == \A t \in Task : WF_vars(EndsAsTold(t)) /\ WF_vars(ShutdownReturns(t))

FairSpec == Spec /\ Fairness

-----------------------------------------------------------------------------
(* Properties.                                                             *)

(* Once a shutdown() has returned, with a result or with "already shut down", *)
(* the task is over, whatever was called before and whichever wait() was      *)
(* dropped: callers discard the result and take its socket for free.          *)
StoppedIsOver == \A t \in stopped : Over(t)

(* No call polls a JoinHandle that has given its result, which would panic,  *)
(* unless it is that of a task that panicked: wait() and then shutdown(), as *)
(* sessions and main do, is safe as long as tasks end in the ordinary way.   *)
PolledAgainOnlyAfterPanic == \A t \in repolled : life[t] = "panicked"

(* A task that is told ends, and so does every task below one that ended, or *)
(* panicked: no owner waits for ever, and none leaves tasks behind.          *)
ToldIsOver == \A t \in Task : life[t] = "running" /\ ~tx[t] ~> Over(t)
=============================================================================
