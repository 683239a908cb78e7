------------------------------ MODULE Scheduler ------------------------------
(***************************************************************************)
(* What the executor promises its tasks, without queue, wakers or program  *)
(* counter: an event makes a blocked task runnable in the very step in     *)
(* which it occurs, one task runs at a time and only a runnable task is    *)
(* given the CPU, a task blocks only while nothing is due for it, and the  *)
(* CPU halts only when every live task is blocked.                         *)
(***************************************************************************)
CONSTANT Task

VARIABLES
    status,  \* "new", "runnable", "running", "blocked" or "finished"
    due,     \* what the task waits for has happened
    cpu      \* "busy", "halted" or "crashed"

svars == <<status, due, cpu>>

SInit ==
    /\ status = [t \in Task |-> "new"]
    /\ due = [t \in Task |-> TRUE]
    /\ cpu = "busy"

Idle == \A t \in Task : status[t] # "running"

Launch(t) ==
    /\ status[t] = "new"
    /\ status' = [status EXCEPT ![t] = "runnable"]
    /\ UNCHANGED <<due, cpu>>

Dispatch(t) ==
    /\ cpu = "busy"
    /\ Idle
    /\ status[t] = "runnable"
    /\ status' = [status EXCEPT ![t] = "running"]
    /\ UNCHANGED <<due, cpu>>

\* The running task consumes its event and chooses the next one to wait for.
Run(t, d) ==
    /\ status[t] = "running"
    /\ due' = [due EXCEPT ![t] = d]
    /\ UNCHANGED <<status, cpu>>

Block(t) ==
    /\ status[t] = "running"
    /\ ~due[t]
    /\ status' = [status EXCEPT ![t] = "blocked"]
    /\ UNCHANGED <<due, cpu>>

\* The task gives up the CPU although it is due again, or was woken while it
\* ran; a yield changes what it waits for in the same step.
Requeue(t, d) ==
    /\ status[t] = "running"
    /\ status' = [status EXCEPT ![t] = "runnable"]
    /\ due' = [due EXCEPT ![t] = d]
    /\ UNCHANGED cpu

Finish(t) ==
    /\ status[t] = "running"
    /\ status' = [status EXCEPT ![t] = "finished"]
    /\ UNCHANGED <<due, cpu>>

\* An interrupt wakes the CPU; it may satisfy a task, which is then runnable
\* if it was blocked, or wake one for nothing.
Interrupt(t, d) ==
    /\ cpu # "crashed"
    /\ due[t] => d
    /\ due' = [due EXCEPT ![t] = d]
    /\ \/ status' = [status EXCEPT ![t] = IF @ = "blocked" THEN "runnable" ELSE @]
       \/ (status[t] = "blocked" => ~d) /\ UNCHANGED status
    /\ cpu' = "busy"

Halt ==
    /\ cpu = "busy"
    /\ \A t \in Task : status[t] \in {"blocked", "finished"}
    /\ cpu' = "halted"
    /\ UNCHANGED <<status, due>>

\* A wake-up that finds no room in the queue stops the kernel.
Crash ==
    /\ cpu' = "crashed"
    /\ UNCHANGED <<status, due>>

SNext ==
    \/ \E t \in Task : Launch(t) \/ Dispatch(t) \/ Block(t) \/ Finish(t)
    \/ \E t \in Task, d \in BOOLEAN : Run(t, d) \/ Requeue(t, d) \/ Interrupt(t, d)
    \/ Halt \/ Crash

SSpec == SInit /\ [][SNext]_svars

=============================================================================
