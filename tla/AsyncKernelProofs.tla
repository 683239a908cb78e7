-------------------------- MODULE AsyncKernelProofs --------------------------
(***************************************************************************)
(* Proofs about AsyncKernel for every capacity, bound and set of pages:    *)
(* its invariants, and then that the executor, its wakers and the          *)
(* interrupt handlers implement the abstract Scheduler.                    *)
(***************************************************************************)
EXTENDS AsyncKernel, TLAPS

----------------------------------------------------------------------------
(* Facts about the task queue as a sequence.                               *)

\* ArrayQueue::push keeps what is queued and adds the new id.
LEMMA AppendContains ==
    ASSUME NEW q \in Seq(Task), NEW t \in Task, NEW u \in Task
    PROVE  /\ Append(q, u) \in Seq(Task)
           /\ Len(Append(q, u)) = Len(q) + 1
           /\ Contains(Append(q, u), u)
           /\ Contains(q, t) => Contains(Append(q, u), t)
BY DEF Contains

\* The same for the ids pushed by one interrupt handler.
LEMMA ConcatContains ==
    ASSUME NEW q \in Seq(Task), NEW r \in Seq(Task), NEW t \in Task
    PROVE  /\ q \o r \in Seq(Task)
           /\ Len(q \o r) = Len(q) + Len(r)
           /\ Contains(q, t) => Contains(q \o r, t)
           /\ Contains(r, t) => Contains(q \o r, t)
<1>1. q \o r \in Seq(Task) /\ Len(q \o r) = Len(q) + Len(r)
  OBVIOUS
<1>2. Contains(q, t) => Contains(q \o r, t)
  BY DEF Contains
<1>3. ASSUME Contains(r, t) PROVE Contains(q \o r, t)
  <2>1. PICK i \in 1..Len(r) : r[i] = t
    BY <1>3 DEF Contains
  <2>2. Len(q) + i \in 1..Len(q \o r) /\ (q \o r)[Len(q) + i] = t
    BY <2>1
  <2> QED
    BY <2>2 DEF Contains
<1> QED
  BY <1>1, <1>2, <1>3

\* ArrayQueue::pop removes the head and nothing else.
LEMMA TailContains ==
    ASSUME NEW q \in Seq(Task), q # <<>>, NEW t \in Task
    PROVE  /\ Head(q) \in Task
           /\ Tail(q) \in Seq(Task)
           /\ Len(Tail(q)) = Len(q) - 1
           /\ Contains(q, t) /\ t # Head(q) => Contains(Tail(q), t)
<1>1. Head(q) \in Task /\ Tail(q) \in Seq(Task) /\ Len(Tail(q)) = Len(q) - 1
  OBVIOUS
<1>2. ASSUME Contains(q, t), t # Head(q) PROVE Contains(Tail(q), t)
  <2>1. PICK i \in 1..Len(q) : q[i] = t
    BY <1>2 DEF Contains
  <2>2. i # 1
    BY <2>1, <1>2
  <2>3. i - 1 \in 1..Len(Tail(q)) /\ Tail(q)[i - 1] = t
    BY <2>1, <2>2
  <2> QED
    BY <2>3 DEF Contains
<1> QED
  BY <1>1, <1>2

----------------------------------------------------------------------------
(* Type correctness.                                                       *)

\* The ids a handler pushes are task ids, and the sum it tests is the length
\* the queue would have.
LEMMA WokenIsTasks ==
    ASSUME TypeOK
    PROVE  /\ Woken(WAKER) \in Seq(Task)
           /\ Woken(SLEEP_WAKER) \in Seq(Task)
           /\ Woken(SYNTH_WAKER) \in Seq(Task)
           /\ DrainWakes \in Seq(Task)
           /\ TickWakes \in Seq(Task)
           /\ RefillWakes \in Seq(Task)
           /\ Queued \in 0..(ScanCap - scancodes)
<1>1. ASSUME NEW w \in Task \cup {NoTask} PROVE Woken(w) \in Seq(Task)
  <2>1. CASE w = NoTask
    BY <2>1 DEF Woken
  <2>2. CASE w # NoTask
    <3>1. w \in Task
      BY <2>2
    <3>2. <<w>> \in Seq(Task)
      BY <3>1
    <3> QED
      BY <2>2, <3>2 DEF Woken
  <2> QED
    BY <2>1, <2>2
<1>2. {WAKER, SLEEP_WAKER, SYNTH_WAKER} \subseteq Task \cup {NoTask}
  BY DEF TypeOK, Task
<1>3. Queued \in 0..(ScanCap - scancodes)
  BY ConstantsAssumption DEF Queued, TypeOK
<1>4. DrainWakes \in Seq(Task) /\ RefillWakes \in Seq(Task)
  BY <1>1, <1>2 DEF DrainWakes, RefillWakes
<1> QED
  BY <1>1, <1>2, <1>3, <1>4 DEF TickWakes

\* A push that fits leaves the queue within its capacity.
LEMMA PushFits ==
    ASSUME TypeOK, NEW ids \in Seq(Task), Fits(ids)
    PROVE  task_queue \o ids \in Seq(Task) /\ Len(task_queue \o ids) <= QueueCap
BY DEF TypeOK, Fits

LEMMA TypeOKInit == Init => TypeOK
BY ConstantsAssumption DEF Init, TypeOK, Point, Task, NoTask, ShellFuture, SynthFuture, Line

\* Steps of the executor loop.
LEMMA TypeOKExecutor ==
    TypeOK /\ ((\E t \in Task : Spawn(t)) \/ PopTask \/ PopNone \/ SleepIfIdle \/ PanicLoop)
        => TypeOK'
<1> SUFFICES ASSUME TypeOK,
                    (\E t \in Task : Spawn(t)) \/ PopTask \/ PopNone \/ SleepIfIdle \/ PanicLoop
             PROVE  TypeOK'
  OBVIOUS
<1> USE DEF TypeOK, Point, executor, futures, wakers, shared, devices
<1>1. ASSUME NEW t \in Task, Spawn(t) PROVE TypeOK'
  BY <1>1, AppendContains DEF Spawn, Fits, Panic
<1>2. CASE PopTask
  <2>1. Head(task_queue) \in Task /\ Tail(task_queue) \in Seq(Task)
        /\ Len(Tail(task_queue)) = Len(task_queue) - 1
    BY <1>2, TailContains DEF PopTask
  <2>2. task_queue' \in Seq(Task) /\ Len(task_queue') <= QueueCap
    BY <1>2, <2>1, ConstantsAssumption DEF PopTask
  <2>3. cur' \in Task \cup {NoTask} /\ pc' \in Point
    BY <1>2, <2>1 DEF PopTask
  <2> QED
    BY <1>2, <2>2, <2>3 DEF PopTask
<1>3. CASE PopNone
  BY <1>3 DEF PopNone
<1>4. CASE SleepIfIdle
  BY <1>4 DEF SleepIfIdle, DisableInterrupts, CheckEmpty, EnableAndHlt, EnableInterrupts
<1>5. CASE PanicLoop
  BY <1>5 DEF PanicLoop, vars
<1> QED
  BY <1>1, <1>2, <1>3, <1>4, <1>5

\* Steps of Task::poll.
LEMMA TypeOKPoll == TypeOK /\ PollFuture => TypeOK'
<1> SUFFICES ASSUME TypeOK, PollFuture PROVE TypeOK'
  OBVIOUS
<1> USE ConstantsAssumption DEF TypeOK, Point, executor, futures, wakers, shared, devices,
        Polling, At, GoTo, Pending, Task, NoTask, ShellFuture, SynthFuture
<1>1. CASE StartShell \/ StartSynth
  BY <1>1 DEF StartShell, StartSynth
<1>2. CASE PollKey
  BY <1>2 DEF PollKey, PopKey
<1>7. CASE RecheckKey
  BY <1>7 DEF RecheckKey, PopKey
<1>3. CASE RegisterKey \/ RegisterSleep \/ RegisterRefill \/ TakeWaker
  BY <1>3 DEF RegisterKey, RegisterSleep, RegisterRefill, TakeWaker
<1>4. CASE PollSleep \/ RecheckSleep \/ PollYielded
  BY <1>4 DEF PollSleep, RecheckSleep, PollYielded
<1>5. CASE PollYield
  BY <1>5, AppendContains DEF PollYield, Fits, Panic
<1>6. CASE PollRefill \/ RecheckRefill
  BY <1>6 DEF PollRefill, RecheckRefill
<1> QED
  BY <1>1, <1>2, <1>3, <1>4, <1>5, <1>6, <1>7 DEF PollFuture

\* Steps of the tasks between two awaits.
LEMMA TypeOKBody == TypeOK /\ TaskBody => TypeOK'
<1> SUFFICES ASSUME TypeOK, TaskBody PROVE TypeOK'
  OBVIOUS
<1> USE ConstantsAssumption DEF TypeOK, Point, executor, futures, wakers, shared, devices,
        ShellBody, GoTo, Task, ShellFuture, SynthFuture
<1>1. CASE AwaitKey
  BY <1>1 DEF AwaitKey
<1>4. CASE AwaitYield
  BY <1>4 DEF AwaitYield
<1>2. ASSUME NEW n \in 1..MaxSleep, AwaitSleep(n) PROVE TypeOK'
  BY <1>2 DEF AwaitSleep
<1>3. CASE EnterUser
  BY <1>3 DEF EnterUser
<1>5. CASE SysExit
  BY <1>5 DEF SysExit
<1>6. CASE RefillPages
  BY <1>6 DEF RefillPages
<1> QED
  BY <1>1, <1>2, <1>3, <1>4, <1>5, <1>6 DEF TaskBody

\* Interrupt handlers.
LEMMA TypeOKHandler == TypeOK /\ Handler => TypeOK'
<1> SUFFICES ASSUME TypeOK, Handler PROVE TypeOK'
  OBVIOUS
<1> USE ConstantsAssumption DEF TypeOK, Point, executor, futures, wakers, shared, devices,
        Interrupts, ReturnFrom, DrainController
<1>0. /\ TickWakes \in Seq(Task) /\ DrainWakes \in Seq(Task) /\ RefillWakes \in Seq(Task)
      /\ Queued \in 0..(ScanCap - scancodes)
  BY WokenIsTasks
<1>1. CASE TimerInterrupt
  <2>1. CASE Fits(TickWakes)
    <3>1. task_queue' \in Seq(Task) /\ Len(task_queue') <= QueueCap
      BY <1>1, <2>1, <1>0, PushFits DEF TimerInterrupt
    <3> QED
      BY <1>1, <2>1, <3>1, <1>0 DEF TimerInterrupt
  <2>2. CASE ~Fits(TickWakes)
    BY <1>1, <2>2 DEF TimerInterrupt, Panic
  <2> QED
    BY <2>1, <2>2
<1>2. CASE KeyboardInterrupt
  <2>1. CASE Fits(DrainWakes)
    <3>1. task_queue' \in Seq(Task) /\ Len(task_queue') <= QueueCap
      BY <1>2, <2>1, <1>0, PushFits DEF KeyboardInterrupt
    <3> QED
      BY <1>2, <2>1, <3>1, <1>0 DEF KeyboardInterrupt
  <2>2. CASE ~Fits(DrainWakes)
    BY <1>2, <2>2 DEF KeyboardInterrupt, Panic
  <2> QED
    BY <2>1, <2>2
<1>3. CASE SoundInterrupt
  <2>1. CASE Fits(RefillWakes)
    <3>1. task_queue' \in Seq(Task) /\ Len(task_queue') <= QueueCap
      BY <1>3, <2>1, <1>0, PushFits DEF SoundInterrupt
    <3> QED
      BY <1>3, <2>1, <3>1, <1>0 DEF SoundInterrupt
  <2>2. CASE ~Fits(RefillWakes)
    BY <1>3, <2>2 DEF SoundInterrupt, Panic
  <2> QED
    BY <2>1, <2>2
<1> QED
  BY <1>1, <1>2, <1>3 DEF Handler

\* Device steps.
LEMMA TypeOKDevice == TypeOK /\ Device => TypeOK'
<1> SUFFICES ASSUME TypeOK, Device PROVE TypeOK'
  OBVIOUS
<1> USE ConstantsAssumption DEF TypeOK, DeviceStep, executor, futures, wakers, shared, Line
<1>1. CASE PitTick
  BY <1>1 DEF PitTick
<1>4. CASE AuxArrives
  BY <1>4 DEF AuxArrives
<1>5. CASE SharedLineRaised
  BY <1>5 DEF SharedLineRaised
<1>2. ASSUME NEW edge \in BOOLEAN, KeyArrives(edge) PROVE TypeOK'
  BY <1>2 DEF KeyArrives
<1>3. ASSUME NEW page \in Buffers, CardCompletes(page) PROVE TypeOK'
  BY <1>3 DEF CardCompletes
<1> QED
  BY <1>1, <1>2, <1>3, <1>4, <1>5 DEF Device

\* Every variable keeps its type: in particular the task queue never holds
\* more than its capacity, the scancode queue neither, and each AtomicWaker
\* only ever stores the waker of its own task.
THEOREM TypeCorrect == Spec => []TypeOK
<1>1. TypeOK /\ [Next]_vars => TypeOK'
  <2> SUFFICES ASSUME TypeOK, [Next]_vars PROVE TypeOK'
    OBVIOUS
  <2>1. CASE MainThread
    BY <2>1, TypeOKExecutor, TypeOKPoll, TypeOKBody DEF MainThread
  <2>2. CASE Handler
    BY <2>2, TypeOKHandler
  <2>3. CASE Device
    BY <2>3, TypeOKDevice
  <2>4. CASE UNCHANGED vars
    BY <2>4 DEF vars, executor, futures, wakers, shared, devices, TypeOK
  <2> QED
    BY <2>1, <2>2, <2>3, <2>4 DEF Next
<1> QED
  BY <1>1, TypeOKInit, PTL DEF Spec

----------------------------------------------------------------------------
(* No wake-up is lost.                                                     *)

\* Between registering its waker and the re-check, the polled task is either
\* still registered or has been queued by the interrupt that took the waker.
RecheckIsArmed == pc = "recheck" => cur \in Task /\ (InQueue(cur) \/ Armed(cur))

\* sleep_if_idle: no task is being polled, interrupts are off while the queue
\* is inspected, and the queue is empty once it was found so.
IdleSafe ==
    /\ pc \in {"spawn", "pop", "cli", "is_empty", "sti_hlt", "sti", "hlt"} => cur = NoTask
    /\ pc \in {"is_empty", "sti_hlt", "sti"} => iflag = FALSE
    /\ pc \in {"sti_hlt", "hlt"} => task_queue = <<>>

IInv == TypeOK /\ NoLostWakeup /\ ParkedIsArmed /\ RecheckIsArmed /\ IdleSafe

\* The invariant but for its type part.
Wakeups == NoLostWakeup /\ ParkedIsArmed /\ RecheckIsArmed /\ IdleSafe

LEMMA WakeupsInit == Init => Wakeups
BY DEF Init, Wakeups, NoLostWakeup, ParkedIsArmed, RecheckIsArmed, IdleSafe, Parked

\* Steps of the executor loop.
LEMMA WakeupsExecutor ==
    IInv /\ ((\E t \in Task : Spawn(t)) \/ PopTask \/ PopNone \/ SleepIfIdle \/ PanicLoop)
        => Wakeups'
<1> SUFFICES ASSUME IInv,
                    (\E t \in Task : Spawn(t)) \/ PopTask \/ PopNone \/ SleepIfIdle \/ PanicLoop
             PROVE  Wakeups'
  OBVIOUS
<1> USE DEF IInv, Wakeups, NoLostWakeup, ParkedIsArmed, RecheckIsArmed, IdleSafe,
        Parked, Ready, Armed, InQueue, executor, futures, wakers, shared, devices
<1>1. ASSUME NEW t \in Task, Spawn(t) PROVE Wakeups'
  <2>1. CASE Fits(<<t>>)
    <3>1. task_queue' = Append(task_queue, t) /\ task_queue \in Seq(Task)
      BY <1>1, <2>1 DEF Spawn, TypeOK
    <3>2. \A u \in Task : Contains(task_queue, u) \/ u = t => Contains(task_queue', u)
      BY <3>1, AppendContains
    <3> QED
      BY <1>1, <2>1, <3>2 DEF Spawn
  <2>2. CASE ~Fits(<<t>>)
    BY <1>1, <2>2 DEF Spawn, Panic
  <2> QED
    BY <2>1, <2>2
<1>2. CASE PopTask
  <2>1. \A u \in Task : Contains(task_queue, u) /\ u # Head(task_queue) => Contains(task_queue', u)
    BY <1>2, TailContains DEF PopTask, TypeOK
  <2>2. CASE Head(task_queue) \in tasks
    <3>1. \A u \in Task : Parked(u)' => Parked(u) /\ u # Head(task_queue)
      BY <1>2, <2>2 DEF PopTask, TypeOK, Task, NoTask
    <3> QED
      BY <1>2, <2>1, <2>2, <3>1 DEF PopTask
  <2>3. CASE Head(task_queue) \notin tasks
    <3>1. \A u \in Task : Parked(u)' => Parked(u) /\ u # Head(task_queue)
      BY <1>2, <2>3 DEF PopTask
    <3> QED
      BY <1>2, <2>1, <2>3, <3>1 DEF PopTask
  <2> QED
    BY <2>2, <2>3
<1>3. CASE PopNone
  BY <1>3 DEF PopNone
<1>4. CASE DisableInterrupts
  BY <1>4 DEF DisableInterrupts
<1>5. CASE CheckEmpty
  BY <1>5 DEF CheckEmpty
<1>6. CASE EnableAndHlt
  BY <1>6 DEF EnableAndHlt
<1>7. CASE EnableInterrupts
  BY <1>7 DEF EnableInterrupts
<1>8. CASE PanicLoop
  BY <1>8 DEF PanicLoop, vars
<1> QED
  BY <1>1, <1>2, <1>3, <1>4, <1>5, <1>6, <1>7, <1>8 DEF SleepIfIdle

\* Steps of Task::poll.  Only the polled task's own future, waker and input
\* change; what the other task waits for is left alone.
LEMMA WakeupsPoll == IInv /\ PollFuture => Wakeups'
<1> SUFFICES ASSUME IInv, PollFuture PROVE Wakeups'
  OBVIOUS
<1> USE DEF IInv, Wakeups, NoLostWakeup, ParkedIsArmed, RecheckIsArmed, IdleSafe,
        Parked, Ready, Armed, InQueue, executor, futures, wakers, shared, devices,
        Polling, At, GoTo, Pending, PopKey, TypeOK, Task, NoTask, ShellFuture, SynthFuture
<1>1. CASE StartShell
  BY <1>1 DEF StartShell
<1>2. CASE StartSynth
  BY <1>2 DEF StartSynth
<1>3. CASE PollKey
  BY <1>3 DEF PollKey
<1>4. CASE RegisterKey
  BY <1>4 DEF RegisterKey
<1>5. CASE RecheckKey
  BY <1>5 DEF RecheckKey
<1>6. CASE TakeWaker
  BY <1>6 DEF TakeWaker
<1>7. CASE PollSleep
  BY <1>7 DEF PollSleep
<1>8. CASE RegisterSleep
  BY <1>8 DEF RegisterSleep
<1>9. CASE RecheckSleep
  BY <1>9 DEF RecheckSleep
<1>10. CASE PollYield
  <2>1. CASE Fits(<<cur>>)
    <3>1. task_queue' = Append(task_queue, cur) /\ task_queue \in Seq(Task) /\ cur \in Task
      BY <1>10, <2>1 DEF PollYield
    <3>2. \A u \in Task : Contains(task_queue, u) \/ u = cur => Contains(task_queue', u)
      BY <3>1, AppendContains
    <3> QED
      BY <1>10, <2>1, <3>2 DEF PollYield
  <2>2. CASE ~Fits(<<cur>>)
    BY <1>10, <2>2 DEF PollYield, Panic
  <2> QED
    BY <2>1, <2>2
<1>11. CASE PollYielded
  BY <1>11 DEF PollYielded
<1>12. CASE PollRefill
  BY <1>12 DEF PollRefill
<1>13. CASE RegisterRefill
  BY <1>13 DEF RegisterRefill
<1>14. CASE RecheckRefill
  BY <1>14 DEF RecheckRefill
<1> QED
  BY <1>1, <1>2, <1>3, <1>4, <1>5, <1>6, <1>7, <1>8, <1>9, <1>10, <1>11, <1>12, <1>13, <1>14 DEF PollFuture

\* Steps of the tasks between two awaits.
LEMMA WakeupsBody == IInv /\ TaskBody => Wakeups'
<1> SUFFICES ASSUME IInv, TaskBody PROVE Wakeups'
  OBVIOUS
<1> USE DEF IInv, Wakeups, NoLostWakeup, ParkedIsArmed, RecheckIsArmed, IdleSafe,
        Parked, Ready, Armed, InQueue, executor, futures, wakers, shared, devices,
        ShellBody, GoTo, TypeOK, Task, NoTask, ShellFuture, SynthFuture
<1>1. CASE AwaitKey
  BY <1>1 DEF AwaitKey
<1>2. ASSUME NEW n \in 1..MaxSleep, AwaitSleep(n) PROVE Wakeups'
  BY <1>2 DEF AwaitSleep
<1>3. CASE AwaitYield
  BY <1>3 DEF AwaitYield
<1>4. CASE EnterUser
  BY <1>4 DEF EnterUser
<1>5. CASE SysExit
  BY <1>5 DEF SysExit
<1>6. CASE RefillPages
  BY <1>6 DEF RefillPages
<1> QED
  BY <1>1, <1>2, <1>3, <1>4, <1>5, <1>6 DEF TaskBody

\* Device steps touch nothing the invariant speaks of.
LEMMA WakeupsDevice == IInv /\ Device => Wakeups'
<1> SUFFICES ASSUME IInv, Device PROVE Wakeups'
  OBVIOUS
<1> USE DEF IInv, Wakeups, NoLostWakeup, ParkedIsArmed, RecheckIsArmed, IdleSafe,
        Parked, Ready, Armed, InQueue, executor, futures, wakers, shared, devices,
        DeviceStep
<1>1. CASE PitTick
  BY <1>1 DEF PitTick
<1>2. CASE AuxArrives
  BY <1>2 DEF AuxArrives
<1>3. CASE SharedLineRaised
  BY <1>3 DEF SharedLineRaised
<1>4. ASSUME NEW edge \in BOOLEAN, KeyArrives(edge) PROVE Wakeups'
  BY <1>4 DEF KeyArrives
<1>5. ASSUME NEW page \in Buffers, CardCompletes(page) PROVE Wakeups'
  BY <1>5 DEF CardCompletes
<1> QED
  BY <1>1, <1>2, <1>3, <1>4, <1>5 DEF Device

\* What each handler pushes: the waker it takes, if it takes one.
LEMMA WokenIsPushed ==
    ASSUME TypeOK
    PROVE  /\ WAKER # NoTask /\ Queued > 0 => Contains(DrainWakes, WAKER)
           /\ SLEEP_WAKER # NoTask => Contains(TickWakes, SLEEP_WAKER)
           /\ WAKER # NoTask /\ Queued > 0 => Contains(TickWakes, WAKER)
           /\ SYNTH_WAKER # NoTask /\ completed # {} => Contains(RefillWakes, SYNTH_WAKER)
<1>1. ASSUME NEW w \in Task PROVE Contains(<<w>>, w)
  BY DEF Contains
<1>2. ASSUME NEW w \in Task \cup {NoTask}, w # NoTask PROVE w \in Task /\ Woken(w) = <<w>>
  BY <1>2 DEF Woken
<1>3. {WAKER, SLEEP_WAKER, SYNTH_WAKER} \subseteq Task \cup {NoTask}
  BY DEF TypeOK, Task
<1>4. WAKER # NoTask /\ Queued > 0 => Contains(DrainWakes, WAKER)
  BY <1>1, <1>2, <1>3 DEF DrainWakes
<1>5. SLEEP_WAKER # NoTask => Contains(TickWakes, SLEEP_WAKER)
  BY <1>1, <1>2, <1>3, ConcatContains, WokenIsTasks DEF TickWakes
<1>6. WAKER # NoTask /\ Queued > 0 => Contains(TickWakes, WAKER)
  BY <1>2, <1>3, <1>4, ConcatContains, WokenIsTasks DEF TickWakes
<1>7. SYNTH_WAKER # NoTask /\ completed # {} => Contains(RefillWakes, SYNTH_WAKER)
  BY <1>1, <1>2, <1>3 DEF RefillWakes
<1> QED
  BY <1>4, <1>5, <1>6, <1>7

\* Interrupt handlers.  A handler that makes a task's condition true pushes the
\* task it finds in the waker; a full scancode queue was already non-empty.
LEMMA WakeupsHandler == IInv /\ Handler => Wakeups'
<1> SUFFICES ASSUME IInv, Handler PROVE Wakeups'
  OBVIOUS
<1> USE DEF IInv, Wakeups, NoLostWakeup, ParkedIsArmed, RecheckIsArmed, IdleSafe,
        Parked, Ready, Armed, InQueue, executor, futures, wakers, shared, devices,
        Interrupts, ReturnFrom, DrainController
<1>0. Queued \in 0..(ScanCap - scancodes) /\ scancodes \in Nat /\ TICKS \in Nat /\ target \in Nat
  BY WokenIsTasks, ConstantsAssumption DEF TypeOK
<1>1. CASE TimerInterrupt
  <2>1. CASE Fits(TickWakes)
    <3>1. task_queue' = task_queue \o TickWakes /\ task_queue \in Seq(Task) /\ TickWakes \in Seq(Task)
      BY <1>1, <2>1, WokenIsTasks DEF TimerInterrupt, TypeOK
    <3>2. \A u \in Task : Contains(task_queue, u) \/ Contains(TickWakes, u) => Contains(task_queue', u)
      BY <3>1, ConcatContains
    <3> QED
      BY <1>1, <2>1, <3>2, <1>0, WokenIsPushed, ConstantsAssumption DEF TimerInterrupt, TypeOK, Task, NoTask
  <2>2. CASE ~Fits(TickWakes)
    BY <1>1, <2>2 DEF TimerInterrupt, Panic
  <2> QED
    BY <2>1, <2>2
<1>2. CASE KeyboardInterrupt
  <2>1. CASE Fits(DrainWakes)
    <3>1. task_queue' = task_queue \o DrainWakes /\ task_queue \in Seq(Task) /\ DrainWakes \in Seq(Task)
      BY <1>2, <2>1, WokenIsTasks DEF KeyboardInterrupt, TypeOK
    <3>2. \A u \in Task : Contains(task_queue, u) \/ Contains(DrainWakes, u) => Contains(task_queue', u)
      BY <3>1, ConcatContains
    <3> QED
      BY <1>2, <2>1, <3>2, <1>0, WokenIsPushed, ConstantsAssumption DEF KeyboardInterrupt, TypeOK, Task, NoTask
  <2>2. CASE ~Fits(DrainWakes)
    BY <1>2, <2>2 DEF KeyboardInterrupt, Panic
  <2> QED
    BY <2>1, <2>2
<1>3. CASE SoundInterrupt
  <2>1. CASE Fits(RefillWakes)
    <3>1. task_queue' = task_queue \o RefillWakes /\ task_queue \in Seq(Task) /\ RefillWakes \in Seq(Task)
      BY <1>3, <2>1, WokenIsTasks DEF SoundInterrupt, TypeOK
    <3>2. \A u \in Task : Contains(task_queue, u) \/ Contains(RefillWakes, u) => Contains(task_queue', u)
      BY <3>1, ConcatContains
    <3> QED
      BY <1>3, <2>1, <3>2, <1>0, WokenIsPushed, ConstantsAssumption DEF SoundInterrupt, TypeOK, Task, NoTask
  <2>2. CASE ~Fits(RefillWakes)
    BY <1>3, <2>2 DEF SoundInterrupt, Panic
  <2> QED
    BY <2>1, <2>2
<1> QED
  BY <1>1, <1>2, <1>3 DEF Handler

\* The inductive invariant: type correctness, the two facts about suspended
\* tasks, and what they rest on inside a poll and inside sleep_if_idle.
THEOREM InductiveInvariant == Spec => []IInv
<1>1. Init => IInv
  BY TypeOKInit, WakeupsInit DEF IInv, Wakeups
<1>2. IInv /\ [Next]_vars => Wakeups'
  <2> SUFFICES ASSUME IInv, [Next]_vars PROVE Wakeups'
    OBVIOUS
  <2>1. CASE MainThread
    BY <2>1, WakeupsExecutor, WakeupsPoll, WakeupsBody DEF MainThread
  <2>2. CASE Handler
    BY <2>2, WakeupsHandler
  <2>3. CASE Device
    BY <2>3, WakeupsDevice
  <2>4. CASE UNCHANGED vars
    BY <2>4 DEF vars, executor, futures, wakers, shared, IInv, Wakeups, NoLostWakeup,
       ParkedIsArmed, RecheckIsArmed, IdleSafe, Parked, Ready, Armed, InQueue
  <2> QED
    BY <2>1, <2>2, <2>3, <2>4 DEF Next
<1>3. IInv /\ TypeOK' /\ [Next]_vars => IInv'
  BY <1>2 DEF IInv, Wakeups
<1> QED
  BY <1>1, <1>3, TypeCorrect, PTL DEF Spec

\* No wake-up is lost, for every capacity and bound: a suspended task whose
\* scancode, tick or completed page has come is in the executor's queue.
THEOREM WakeupsAreNotLost == Spec => []NoLostWakeup
BY InductiveInvariant, PTL DEF IInv

\* A suspended task that is not queued is registered with its AtomicWaker.
THEOREM SuspendedTasksAreArmed == Spec => []ParkedIsArmed
BY InductiveInvariant, PTL DEF IInv

\* The CPU halts only when the queue is empty and no task can make progress.
THEOREM HaltsOnlyWhenIdle == Spec => []HaltOnlyIdle
<1>1. IInv => HaltOnlyIdle
  <2> SUFFICES ASSUME IInv, pc = "hlt" PROVE task_queue = <<>> /\ \A t \in tasks : ~Ready(t)
    BY DEF HaltOnlyIdle
  <2>1. task_queue = <<>> /\ cur = NoTask
    BY DEF IInv, IdleSafe
  <2>2. \A t \in Task : ~InQueue(t)
    BY <2>1 DEF InQueue, Contains
  <2>3. \A t \in tasks : t \in Task /\ Parked(t)
    BY <2>1 DEF Parked, IInv, TypeOK, Task, NoTask
  <2> QED
    BY <2>1, <2>2, <2>3 DEF IInv, NoLostWakeup
<1> QED
  BY <1>1, InductiveInvariant, PTL

----------------------------------------------------------------------------
(* The tasks that exist.                                                   *)

\* Tasks are spawned before the executor runs, a polled task is one of its
\* tasks, and a task leaves the map only when it is done.
Live ==
    /\ pc = "spawn" => \A t \in Task : fut[t] = "start"
    /\ cur # NoTask => cur \in tasks
    /\ pc \notin {"spawn", "panic"} => \A t \in Task : t \in tasks \/ fut[t] = "done"

RInv == IInv /\ Live

LEMMA LiveInit == Init => Live
BY DEF Init, Live

LEMMA LiveNext == IInv /\ Live /\ [Next]_vars => Live'
<1> SUFFICES ASSUME IInv, Live, [Next]_vars PROVE Live'
  OBVIOUS
<1> USE DEF Live, Task, NoTask, executor, futures
<1>0. /\ pc \in {"spawn", "pop", "cli", "is_empty", "sti_hlt", "sti", "hlt"} => cur = NoTask
      /\ tasks \subseteq Task /\ cur \in Task \cup {NoTask}
      /\ fut \in [Task -> ShellFuture \cup SynthFuture] /\ fut["shell"] \in ShellFuture
  BY DEF IInv, IdleSafe, TypeOK
<1>1. ASSUME NEW t \in Task, Spawn(t) PROVE Live'
  BY <1>0, <1>1 DEF Spawn, Panic
<1>2. CASE PopTask
  BY <1>0, <1>2 DEF PopTask
<1>3. CASE PopNone \/ SleepIfIdle \/ PanicLoop
  BY <1>0, <1>3 DEF PopNone, SleepIfIdle, DisableInterrupts, CheckEmpty, EnableAndHlt,
     EnableInterrupts, PanicLoop, vars
<1>4. CASE PollFuture
  <2> USE DEF Polling, At, GoTo, Pending
  <2>1. CASE StartShell \/ StartSynth
    BY <1>0, <2>1 DEF StartShell, StartSynth
  <2>2. CASE PollKey \/ RegisterKey \/ RecheckKey \/ TakeWaker
    BY <1>0, <2>2 DEF PollKey, RegisterKey, RecheckKey, TakeWaker, PopKey
  <2>3. CASE PollSleep \/ RegisterSleep \/ RecheckSleep \/ PollYielded
    BY <1>0, <2>3 DEF PollSleep, RegisterSleep, RecheckSleep, PollYielded
  <2>4. CASE PollYield
    BY <1>0, <2>4 DEF PollYield, Panic
  <2>5. CASE PollRefill \/ RegisterRefill \/ RecheckRefill
    BY <1>0, <2>5 DEF PollRefill, RegisterRefill, RecheckRefill
  <2> QED
    BY <1>4, <2>1, <2>2, <2>3, <2>4, <2>5 DEF PollFuture
<1>5. CASE TaskBody
  <2> USE DEF ShellBody, GoTo
  <2>1. CASE AwaitKey \/ AwaitYield \/ EnterUser \/ SysExit \/ RefillPages
    BY <1>0, <2>1 DEF AwaitKey, AwaitYield, EnterUser, SysExit, RefillPages
  <2>2. ASSUME NEW n \in 1..MaxSleep, AwaitSleep(n) PROVE Live'
    BY <1>0, <2>2 DEF AwaitSleep
  <2> QED
    BY <1>5, <2>1, <2>2 DEF TaskBody
<1>6. CASE Handler
  BY <1>0, <1>6 DEF Handler, TimerInterrupt, KeyboardInterrupt, SoundInterrupt, Interrupts,
     ReturnFrom, Panic
<1>7. CASE Device
  BY <1>7 DEF Device, PitTick, AuxArrives, SharedLineRaised, KeyArrives, CardCompletes, DeviceStep
<1>8. CASE UNCHANGED vars
  BY <1>8 DEF vars
<1> QED
  BY <1>1, <1>2, <1>3, <1>4, <1>5, <1>6, <1>7, <1>8 DEF Next, MainThread

----------------------------------------------------------------------------
(* Steps of the Scheduler, seen from the executor.                         *)

\* A step changes at most this task's status and what is due for it.
OnlyFor(t) == \A u \in Task \ {t} : Status(u)' = Status(u) /\ Ready(u)' = Ready(u)

LEMMA MapStutter ==
    ASSUME \A t \in Task : Status(t)' = Status(t) /\ Ready(t)' = Ready(t), Cpu' = Cpu
    PROVE  UNCHANGED Sched!svars
<1>1. TaskStatus' = TaskStatus
  BY DEF TaskStatus
<1>2. TaskDue' = TaskDue
  BY DEF TaskDue
<1> QED
  BY <1>1, <1>2 DEF Sched!svars

LEMMA MapOnly ==
    ASSUME NEW t \in Task, OnlyFor(t)
    PROVE  /\ TaskStatus' = [TaskStatus EXCEPT ![t] = Status(t)']
           /\ TaskDue' = [TaskDue EXCEPT ![t] = Ready(t)']
<1>1. TaskStatus' = [TaskStatus EXCEPT ![t] = Status(t)']
  BY DEF OnlyFor, TaskStatus
<1>2. TaskDue' = [TaskDue EXCEPT ![t] = Ready(t)']
  BY DEF OnlyFor, TaskDue
<1> QED
  BY <1>1, <1>2

\* The running task's step.
LEMMA MapRun ==
    ASSUME NEW t \in Task, OnlyFor(t), Status(t) = "running", Status(t)' = "running", Cpu' = Cpu
    PROVE  Sched!SNext
<1>0. TaskStatus[t] = "running" /\ TaskStatus' = TaskStatus
  BY MapOnly DEF TaskStatus
<1>1. Sched!Run(t, Ready(t)')
  BY <1>0, MapOnly DEF Sched!Run
<1>2. Ready(t)' \in BOOLEAN
  BY DEF Ready
<1> QED
  BY <1>1, <1>2 DEF Sched!SNext

\* A step that leaves alone what is due.
LEMMA MapDue == ASSUME NEW t \in Task, OnlyFor(t), Ready(t)' = Ready(t) PROVE TaskDue' = TaskDue
BY DEF OnlyFor, TaskDue

LEMMA MapStatus == ASSUME NEW t \in Task PROVE TaskStatus[t] = Status(t) /\ TaskDue[t] = Ready(t)
BY DEF TaskStatus, TaskDue

LEMMA MapLaunch ==
    ASSUME NEW t \in Task, OnlyFor(t), Ready(t)' = Ready(t), Cpu' = Cpu,
           Status(t) = "new", Status(t)' = "runnable"
    PROVE  Sched!SNext
BY MapOnly, MapDue, MapStatus DEF Sched!Launch, Sched!SNext

LEMMA MapDispatch ==
    ASSUME NEW t \in Task, OnlyFor(t), Ready(t)' = Ready(t), Cpu' = Cpu, Cpu = "busy",
           Status(t) = "runnable", Status(t)' = "running",
           \A u \in Task : Status(u) # "running"
    PROVE  Sched!SNext
BY MapOnly, MapDue, MapStatus DEF Sched!Dispatch, Sched!Idle, Sched!SNext

\* The poll returns Pending.
LEMMA MapPending ==
    ASSUME NEW t \in Task, OnlyFor(t), Cpu' = Cpu, Status(t) = "running",
           \/ Status(t)' = "runnable"
           \/ Status(t)' = "blocked" /\ ~Ready(t) /\ Ready(t)' = Ready(t)
    PROVE  Sched!SNext
<1>1. CASE Status(t)' = "runnable"
  <2>1. Sched!Requeue(t, Ready(t)')
    BY <1>1, MapOnly, MapStatus DEF Sched!Requeue
  <2>2. Ready(t)' \in BOOLEAN
    BY DEF Ready
  <2> QED
    BY <2>1, <2>2 DEF Sched!SNext
<1>2. CASE Status(t)' = "blocked" /\ ~Ready(t) /\ Ready(t)' = Ready(t)
  <2>1. Sched!Block(t)
    BY <1>2, MapOnly, MapDue, MapStatus DEF Sched!Block
  <2> QED
    BY <2>1 DEF Sched!SNext
<1> QED
  BY <1>1, <1>2

LEMMA MapFinish ==
    ASSUME NEW t \in Task, OnlyFor(t), Ready(t)' = Ready(t), Cpu' = Cpu,
           Status(t) = "running", Status(t)' = "finished"
    PROVE  Sched!SNext
BY MapOnly, MapDue, MapStatus DEF Sched!Finish, Sched!SNext

\* A handler: whom it wakes becomes runnable, and whom it satisfies does not
\* stay blocked.
LEMMA MapInterrupt ==
    ASSUME NEW t \in Task, OnlyFor(t), Cpu # "crashed", Cpu' = "busy",
           Ready(t) => Ready(t)',
           Status(t)' = Status(t) \/ (Status(t) = "blocked" /\ Status(t)' = "runnable"),
           Status(t)' = "blocked" => ~Ready(t)'
    PROVE  Sched!SNext
<1>1. CASE Status(t)' = "runnable" /\ Status(t) = "blocked"
  <2>1. Sched!Interrupt(t, Ready(t)')
    BY <1>1, MapOnly, MapStatus DEF Sched!Interrupt
  <2>2. Ready(t)' \in BOOLEAN
    BY DEF Ready
  <2> QED
    BY <2>1, <2>2 DEF Sched!SNext
<1>2. CASE Status(t)' = Status(t)
  <2>1. TaskStatus' = TaskStatus
    BY <1>2 DEF OnlyFor, TaskStatus
  <2>2. Sched!Interrupt(t, Ready(t)')
    BY <1>2, <2>1, MapOnly, MapStatus DEF Sched!Interrupt
  <2>3. Ready(t)' \in BOOLEAN
    BY DEF Ready
  <2> QED
    BY <2>2, <2>3 DEF Sched!SNext
<1> QED
  BY <1>1, <1>2

LEMMA MapHalt ==
    ASSUME \A t \in Task : Status(t)' = Status(t) /\ Ready(t)' = Ready(t),
           \A t \in Task : Status(t) \in {"blocked", "finished"},
           Cpu = "busy", Cpu' = "halted"
    PROVE  Sched!SNext
<1>1. TaskStatus' = TaskStatus /\ TaskDue' = TaskDue
  BY DEF TaskStatus, TaskDue
<1> QED
  BY <1>1, MapStatus DEF Sched!Halt, Sched!SNext

LEMMA MapCrash ==
    ASSUME Panic
    PROVE  Sched!SNext
<1>1. \A t \in Task : Status(t)' = Status(t) /\ Ready(t)' = Ready(t)
  BY DEF Panic, Status, Ready, InQueue, executor, futures, shared
<1>2. TaskStatus' = TaskStatus /\ TaskDue' = TaskDue
  BY <1>1 DEF TaskStatus, TaskDue
<1>3. Cpu' = "crashed"
  BY DEF Panic, Cpu
<1> QED
  BY <1>2, <1>3 DEF Sched!Crash, Sched!SNext

----------------------------------------------------------------------------
(* What a push and a pop leave out of the queue.                           *)

LEMMA AppendContainsOnly ==
    ASSUME NEW q \in Seq(Task), NEW t \in Task, NEW u \in Task, t # u
    PROVE  Contains(Append(q, u), t) <=> Contains(q, t)
<1>1. Contains(q, t) => Contains(Append(q, u), t)
  BY AppendContains
<1>2. ASSUME Contains(Append(q, u), t) PROVE Contains(q, t)
  <2>1. PICK i \in 1..Len(Append(q, u)) : Append(q, u)[i] = t
    BY <1>2 DEF Contains
  <2>2. i # Len(q) + 1 /\ Len(Append(q, u)) = Len(q) + 1
    BY <2>1
  <2>3. i \in 1..Len(q) /\ q[i] = t
    BY <2>1, <2>2
  <2> QED
    BY <2>3 DEF Contains
<1> QED
  BY <1>1, <1>2

LEMMA ConcatContainsOnly ==
    ASSUME NEW q \in Seq(Task), NEW r \in Seq(Task), NEW t \in Task, ~Contains(r, t)
    PROVE  Contains(q \o r, t) <=> Contains(q, t)
<1>1. Contains(q, t) => Contains(q \o r, t)
  BY ConcatContains
<1>2. ASSUME Contains(q \o r, t) PROVE Contains(q, t)
  <2>1. PICK i \in 1..Len(q \o r) : (q \o r)[i] = t
    BY <1>2 DEF Contains
  <2>2. CASE i <= Len(q)
    <3>1. i \in 1..Len(q) /\ q[i] = t
      BY <2>1, <2>2
    <3> QED
      BY <3>1 DEF Contains
  <2>3. CASE ~(i <= Len(q))
    <3>1. i - Len(q) \in 1..Len(r) /\ r[i - Len(q)] = t
      BY <2>1, <2>3
    <3> QED
      BY <3>1 DEF Contains
  <2> QED
    BY <2>2, <2>3
<1> QED
  BY <1>1, <1>2

LEMMA TailContainsOnly ==
    ASSUME NEW q \in Seq(Task), q # <<>>, NEW t \in Task
    PROVE  /\ t # Head(q) => (Contains(Tail(q), t) <=> Contains(q, t))
           /\ Contains(q, Head(q))
<1>1. ASSUME Contains(Tail(q), t) PROVE Contains(q, t)
  <2>1. PICK i \in 1..Len(Tail(q)) : Tail(q)[i] = t
    BY <1>1 DEF Contains
  <2>2. i + 1 \in 1..Len(q) /\ q[i + 1] = t
    BY <2>1
  <2> QED
    BY <2>2 DEF Contains
<1>2. Contains(q, Head(q))
  <2>1. 1 \in 1..Len(q) /\ q[1] = Head(q)
    OBVIOUS
  <2> QED
    BY <2>1 DEF Contains
<1> QED
  BY <1>1, <1>2, TailContains

----------------------------------------------------------------------------
(* Steps of the executor loop.                                             *)

LEMMA RefinesExecutor ==
    ASSUME RInv, (\E t \in Task : Spawn(t)) \/ PopTask \/ PopNone \/ SleepIfIdle \/ PanicLoop
    PROVE  Sched!SNext \/ UNCHANGED Sched!svars
<1>0. /\ task_queue \in Seq(Task) /\ tasks \subseteq Task
      /\ pc \in {"spawn", "pop", "cli", "is_empty", "sti_hlt", "sti", "hlt"} => cur = NoTask
      /\ pc = "spawn" => \A t \in Task : fut[t] = "start"
      /\ NoTask \notin Task
  BY DEF RInv, IInv, TypeOK, IdleSafe, Live, Task, NoTask
<1> USE DEF executor, futures, shared
<1>1. ASSUME NEW t \in Task, Spawn(t) PROVE Sched!SNext
  <2>1. CASE ~Fits(<<t>>)
    BY <1>1, <2>1, MapCrash DEF Spawn
  <2>2. CASE Fits(<<t>>)
    <3>0. /\ pc = "spawn" /\ t \notin tasks /\ tasks' = tasks \cup {t}
          /\ task_queue' = Append(task_queue, t) /\ pc' \in {"spawn", "pop"}
          /\ UNCHANGED <<cur, fut, target, TICKS, scancodes, REFILL_MASK>>
      BY <1>1, <2>2 DEF Spawn
    <3>1. \A u \in Task : Ready(u)' = Ready(u)
      BY <3>0 DEF Ready
    <3>2. Status(t) = "new" /\ Status(t)' = "runnable"
      BY <1>0, <3>0, AppendContains DEF Status, InQueue
    <3>3. \A u \in Task \ {t} : Status(u)' = Status(u)
      BY <1>0, <3>0, AppendContainsOnly DEF Status, InQueue
    <3>4. Cpu' = Cpu
      BY <3>0 DEF Cpu
    <3> QED
      BY <3>1, <3>2, <3>3, <3>4, MapLaunch DEF OnlyFor
  <2> QED
    BY <2>1, <2>2
<1>2. CASE PopTask
  <2>0. /\ pc = "pop" /\ cur = NoTask /\ task_queue # <<>> /\ task_queue' = Tail(task_queue)
        /\ UNCHANGED <<tasks, fut, target, TICKS, scancodes, REFILL_MASK>>
    BY <1>0, <1>2 DEF PopTask
  <2>1. PICK t \in Task : t = Head(task_queue)
    BY <1>0, <2>0
  <2>2. \A u \in Task : Ready(u)' = Ready(u)
    BY <2>0 DEF Ready
  <2>3. InQueue(t) /\ \A u \in Task \ {t} : InQueue(u)' <=> InQueue(u)
    BY <1>0, <2>0, <2>1, TailContainsOnly DEF InQueue
  <2>4. CASE t \in tasks
    <3>0. cur' = t /\ pc' = "poll"
      BY <1>2, <2>1, <2>4 DEF PopTask
    <3>1. \A u \in Task : Status(u) # "running"
      BY <1>0, <2>0 DEF Status
    <3>2. Status(t) = "runnable" /\ Status(t)' = "running"
      BY <1>0, <2>0, <2>1, <2>3, <2>4, <3>0 DEF Status
    <3>3. \A u \in Task \ {t} : Status(u)' = Status(u)
      BY <1>0, <2>0, <2>3, <3>0 DEF Status
    <3>4. Cpu' = Cpu /\ Cpu = "busy"
      BY <2>0, <3>0 DEF Cpu
    <3> QED
      BY <2>1, <2>2, <3>1, <3>2, <3>3, <3>4, MapDispatch DEF OnlyFor
  <2>5. CASE t \notin tasks
    <3>0. UNCHANGED <<cur, pc>>
      BY <1>2, <2>1, <2>5 DEF PopTask
    <3>1. \A u \in Task : Status(u)' = Status(u)
      BY <2>0, <2>3, <2>5, <3>0 DEF Status
    <3>2. Cpu' = Cpu
      BY <3>0 DEF Cpu
    <3> QED
      BY <2>2, <3>1, <3>2, MapStutter
  <2> QED
    BY <2>4, <2>5
<1>3. ASSUME pc' \notin {"hlt", "panic"}, pc \notin {"hlt", "panic"},
             UNCHANGED <<cur, tasks, task_queue, fut, target, TICKS, scancodes, REFILL_MASK>>
      PROVE  UNCHANGED Sched!svars
  <2>1. \A u \in Task : Status(u)' = Status(u) /\ Ready(u)' = Ready(u)
    BY <1>3 DEF Status, Ready, InQueue
  <2> QED
    BY <1>3, <2>1, MapStutter DEF Cpu
<1>4. CASE PopNone \/ DisableInterrupts \/ CheckEmpty \/ EnableInterrupts
  BY <1>3, <1>4 DEF PopNone, DisableInterrupts, CheckEmpty, EnableInterrupts
<1>5. CASE EnableAndHlt
  <2>0. /\ pc = "sti_hlt" /\ pc' = "hlt"
        /\ UNCHANGED <<cur, tasks, task_queue, fut, target, TICKS, scancodes, REFILL_MASK>>
    BY <1>5 DEF EnableAndHlt
  <2>1. \A u \in Task : Status(u)' = Status(u) /\ Ready(u)' = Ready(u)
    BY <2>0 DEF Status, Ready, InQueue
  <2>2. task_queue = <<>> /\ cur = NoTask /\ \A t \in Task : t \in tasks \/ fut[t] = "done"
    BY <2>0 DEF RInv, IInv, IdleSafe, Live
  <2>3. \A u \in Task : ~InQueue(u)
    BY <2>2 DEF InQueue, Contains
  <2>4. \A u \in Task : Status(u) \in {"blocked", "finished"}
    BY <1>0, <2>2, <2>3 DEF Status
  <2>5. Cpu = "busy" /\ Cpu' = "halted"
    BY <2>0 DEF Cpu
  <2> QED
    BY <2>1, <2>4, <2>5, MapHalt
<1>6. CASE PanicLoop
  <2>1. \A u \in Task : Status(u)' = Status(u) /\ Ready(u)' = Ready(u)
    BY <1>6 DEF PanicLoop, vars, Status, Ready, InQueue
  <2> QED
    BY <1>6, <2>1, MapStutter DEF PanicLoop, vars, Cpu
<1> QED
  BY <1>1, <1>2, <1>4, <1>5, <1>6 DEF SleepIfIdle

----------------------------------------------------------------------------
(* Steps of the polled task.                                               *)

Busy == pc \notin {"hlt", "panic"}

\* What the other task's status rests on is left alone.
Apart(t) ==
    \A u \in Task \ {t} :
        /\ fut'[u] = fut[u] /\ Ready(u)' = Ready(u)
        /\ u \in tasks' <=> u \in tasks
        /\ InQueue(u)' <=> InQueue(u)

\* The poll goes on.
LEMMA RefinesGoesOn ==
    ASSUME NEW t \in Task, cur = t, cur' = t, Apart(t), Busy, Busy'
    PROVE  Sched!SNext
<1>1. OnlyFor(t) /\ Status(t) = "running" /\ Status(t)' = "running"
  BY DEF OnlyFor, Apart, Status
<1>2. Cpu' = Cpu
  BY DEF Cpu, Busy
<1> QED
  BY <1>1, <1>2, MapRun

\* The poll returns Pending: the task is in the queue already, or nothing is
\* due for it.
LEMMA RefinesPending ==
    ASSUME NEW t \in Task, cur = t, cur' = NoTask, t \in tasks', Apart(t), Busy, Busy',
           InQueue(t)' \/ (~Ready(t) /\ ~Ready(t)')
    PROVE  Sched!SNext
<1>0. NoTask \notin Task
  BY DEF Task, NoTask
<1>1. OnlyFor(t) /\ Status(t) = "running"
  BY <1>0 DEF OnlyFor, Apart, Status
<1>2. Cpu' = Cpu
  BY DEF Cpu, Busy
<1>3. CASE InQueue(t)'
  <2>1. Status(t)' = "runnable"
    BY <1>0, <1>3 DEF Status
  <2> QED
    BY <1>1, <1>2, <2>1, MapPending
<1>4. CASE ~InQueue(t)'
  <2>1. Status(t)' = "blocked"
    BY <1>0, <1>4 DEF Status
  <2>2. Ready(t) \in BOOLEAN /\ Ready(t)' \in BOOLEAN
    BY DEF Ready
  <2>3. ~Ready(t) /\ Ready(t)' = Ready(t)
    BY <1>4, <2>2
  <2> QED
    BY <1>1, <1>2, <2>1, <2>3, MapPending
<1> QED
  BY <1>3, <1>4

\* Only the shell waits for bytes and ticks, only the synth task for pages.
LEMMA WaitsApart ==
    ASSUME RInv
    PROVE  /\ Ready("synth") <=> (fut["synth"] = "refill" => REFILL_MASK # {})
           /\ Ready("shell") <=> /\ fut["shell"] = "key" => scancodes > 0
                                 /\ fut["shell"] = "sleep" => TICKS >= target
BY DEF RInv, IInv, TypeOK, Ready, ShellFuture, SynthFuture

\* A step of the shell's poll that touches neither the other task nor the
\* queue, and the same for the synth task.
LEMMA ApartShell ==
    ASSUME RInv, RInv', fut'["synth"] = fut["synth"],
           UNCHANGED <<tasks, task_queue, REFILL_MASK>>
    PROVE  Apart("shell")
<1>1. Ready("synth")' = Ready("synth")
  BY WaitsApart DEF RInv, IInv, TypeOK, Ready, ShellFuture, SynthFuture
<1> QED
  BY <1>1 DEF Apart, Task, InQueue

LEMMA ApartSynth ==
    ASSUME RInv, RInv', fut'["shell"] = fut["shell"],
           UNCHANGED <<task_queue, scancodes, TICKS, target>>,
           tasks' = tasks \/ tasks' = tasks \ {"synth"}
    PROVE  Apart("synth")
<1>1. Ready("shell")' = Ready("shell")
  BY DEF RInv, IInv, TypeOK, Ready, ShellFuture, SynthFuture
<1> QED
  BY <1>1 DEF Apart, Task, InQueue

LEMMA RefinesShell ==
    ASSUME RInv, RInv',
           \/ StartShell \/ PollKey \/ RegisterKey \/ RecheckKey \/ TakeWaker
           \/ PollSleep \/ RegisterSleep \/ RecheckSleep \/ PollYielded \/ PollYield
           \/ AwaitKey \/ (\E n \in 1..MaxSleep : AwaitSleep(n)) \/ AwaitYield \/ EnterUser
    PROVE  Sched!SNext
<1> USE DEF executor, futures, shared
<1>0. "shell" \in Task /\ "shell" # NoTask /\ fut \in [Task -> ShellFuture \cup SynthFuture]
  BY DEF RInv, IInv, TypeOK, Task, NoTask
<1>1. ASSUME cur = "shell", fut'["synth"] = fut["synth"],
             UNCHANGED <<cur, tasks, task_queue, REFILL_MASK>>, Busy, Busy'
      PROVE  Sched!SNext
  BY <1>0, <1>1, ApartShell, RefinesGoesOn
<1>2. CASE StartShell \/ AwaitKey \/ (\E n \in 1..MaxSleep : AwaitSleep(n)) \/ AwaitYield
  BY <1>0, <1>1, <1>2 DEF StartShell, AwaitKey, AwaitSleep, AwaitYield, Polling, ShellBody, GoTo, Busy, Task
<1>3. CASE PollKey \/ RegisterKey \/ TakeWaker
  BY <1>1, <1>3 DEF PollKey, RegisterKey, TakeWaker, PopKey, Polling, At, GoTo, Busy
<1>4. CASE PollSleep \/ RegisterSleep \/ PollYielded \/ EnterUser
  BY <1>1, <1>4 DEF PollSleep, RegisterSleep, PollYielded, EnterUser, Polling, At, GoTo, ShellBody, Busy
<1>5. CASE RecheckKey \/ RecheckSleep
  <2>0. /\ pc = "recheck" /\ cur = "shell" /\ fut["shell"] \in {"key", "sleep"}
        /\ UNCHANGED <<tasks, task_queue, fut, target, TICKS, REFILL_MASK>>
        /\ \/ cur' = cur /\ pc' \in {"take", "body"}
           \/ cur' = NoTask /\ pc' = "pop" /\ ~Ready("shell") /\ scancodes' = scancodes
    BY <1>5 DEF RecheckKey, RecheckSleep, PopKey, At, GoTo, Pending, Ready
  <2>1. Apart("shell")
    BY <2>0, ApartShell
  <2>2. Busy /\ Busy'
    BY <2>0 DEF Busy
  <2>3. CASE cur' = cur
    BY <1>0, <2>0, <2>1, <2>2, <2>3, RefinesGoesOn
  <2>4. CASE cur' = NoTask
    <3>1. ~Ready("shell") /\ ~Ready("shell")'
      BY <1>0, <2>0, <2>4 DEF Ready
    <3>2. "shell" \in tasks'
      BY <1>0, <2>0 DEF RInv, Live
    <3> QED
      BY <1>0, <2>0, <2>1, <2>2, <2>4, <3>1, <3>2, RefinesPending
  <2> QED
    BY <2>0, <2>3, <2>4
<1>6. CASE PollYield
  <2>1. CASE ~Fits(<<cur>>)
    BY <1>6, <2>1, MapCrash DEF PollYield
  <2>2. CASE Fits(<<cur>>)
    <3>0. /\ pc = "poll" /\ cur = "shell" /\ pc' = "pop" /\ cur' = NoTask
          /\ fut' = [fut EXCEPT !["shell"] = "yielded"] /\ task_queue' = Append(task_queue, "shell")
          /\ task_queue \in Seq(Task)
          /\ UNCHANGED <<tasks, target, TICKS, scancodes, REFILL_MASK>>
      BY <1>6, <2>2 DEF PollYield, Polling, Pending, RInv, IInv, TypeOK
    <3>1. Ready("synth")' = Ready("synth")
      BY <1>0, <3>0, WaitsApart DEF RInv, IInv, TypeOK, Ready, Task, ShellFuture, SynthFuture
    <3>2. InQueue("shell")' /\ (InQueue("synth")' <=> InQueue("synth"))
      BY <3>0, AppendContains, AppendContainsOnly DEF InQueue, Task
    <3>3. Apart("shell")
      BY <1>0, <3>0, <3>1, <3>2 DEF Apart, Task
    <3>4. "shell" \in tasks'
      BY <1>0, <3>0 DEF RInv, Live
    <3> QED
      BY <1>0, <3>0, <3>2, <3>3, <3>4, RefinesPending DEF Busy
  <2> QED
    BY <2>1, <2>2
<1> QED
  BY <1>2, <1>3, <1>4, <1>5, <1>6

LEMMA RefinesSynth ==
    ASSUME RInv, RInv', StartSynth \/ PollRefill \/ RegisterRefill \/ RecheckRefill \/ RefillPages
    PROVE  Sched!SNext
<1> USE DEF executor, futures, shared
<1>0. "synth" \in Task /\ "synth" # NoTask /\ fut \in [Task -> ShellFuture \cup SynthFuture]
  BY DEF RInv, IInv, TypeOK, Task, NoTask
<1>1. ASSUME cur = "synth", fut'["shell"] = fut["shell"],
             UNCHANGED <<cur, tasks, task_queue, scancodes, TICKS, target>>, Busy, Busy'
      PROVE  Sched!SNext
  BY <1>0, <1>1, ApartSynth, RefinesGoesOn
<1>2. CASE StartSynth
  <2>1. CASE available
    BY <1>0, <1>1, <1>2, <2>1 DEF StartSynth, Polling, Busy, Task
  <2>2. CASE ~available
    <3>0. /\ pc = "poll" /\ cur = "synth" /\ fut["synth"] = "start" /\ pc' = "pop" /\ cur' = NoTask
          /\ fut' = [fut EXCEPT !["synth"] = "done"] /\ tasks' = tasks \ {"synth"}
          /\ UNCHANGED <<task_queue, target, TICKS, scancodes, REFILL_MASK>>
      BY <1>2, <2>2 DEF StartSynth, Polling, Pending
    <3>1. Apart("synth")
      BY <1>0, <3>0, ApartSynth DEF Task
    <3>2. OnlyFor("synth") /\ Status("synth") = "running" /\ Status("synth")' = "finished"
      BY <1>0, <3>0, <3>1 DEF OnlyFor, Apart, Status, Task, NoTask
    <3>3. Ready("synth")' = Ready("synth")
      BY <1>0, <3>0 DEF Ready
    <3> QED
      BY <1>0, <3>0, <3>2, <3>3, MapFinish DEF Cpu
  <2> QED
    BY <2>1, <2>2
<1>3. CASE PollRefill \/ RegisterRefill \/ RefillPages
  BY <1>1, <1>3 DEF PollRefill, RegisterRefill, RefillPages, Polling, At, GoTo, Busy
<1>4. CASE RecheckRefill
  <2>0. /\ pc = "recheck" /\ cur = "synth" /\ fut["synth"] = "refill" /\ REFILL_MASK' = {}
        /\ UNCHANGED <<tasks, task_queue, fut, target, TICKS, scancodes>>
        /\ \/ cur' = cur /\ pc' = "body"
           \/ cur' = NoTask /\ pc' = "pop" /\ REFILL_MASK = {}
    BY <1>4 DEF RecheckRefill, At, GoTo, Pending
  <2>1. Apart("synth")
    BY <2>0, ApartSynth
  <2>2. Busy /\ Busy'
    BY <2>0 DEF Busy
  <2>3. CASE cur' = cur
    BY <1>0, <2>0, <2>1, <2>2, <2>3, RefinesGoesOn
  <2>4. CASE cur' = NoTask
    <3>1. ~Ready("synth") /\ ~Ready("synth")'
      BY <1>0, <2>0, <2>4 DEF Ready
    <3>2. "synth" \in tasks'
      BY <1>0, <2>0 DEF RInv, Live
    <3> QED
      BY <1>0, <2>0, <2>1, <2>2, <2>4, <3>1, <3>2, RefinesPending
  <2> QED
    BY <2>0, <2>3, <2>4
<1> QED
  BY <1>2, <1>3, <1>4

----------------------------------------------------------------------------
(* Interrupt handlers and devices.                                         *)

\* Whom a handler wakes.
LEMMA WokenOnly ==
    ASSUME RInv
    PROVE  ~Contains(TickWakes, "synth") /\ ~Contains(DrainWakes, "synth") /\ ~Contains(RefillWakes, "shell")
<1>0. WAKER \in {"shell", NoTask} /\ SLEEP_WAKER \in {"shell", NoTask} /\ SYNTH_WAKER \in {"synth", NoTask}
  BY DEF RInv, IInv, TypeOK
<1>1. ASSUME NEW t \in Task, NEW w, w = NoTask \/ w # t PROVE ~Contains(Woken(w), t)
  BY <1>1 DEF Woken, Contains, Task, NoTask
<1>2. "shell" \in Task /\ "synth" \in Task
  BY DEF Task
<1>3. ~Contains(Woken(WAKER), "synth") /\ ~Contains(Woken(SLEEP_WAKER), "synth") /\ ~Contains(Woken(SYNTH_WAKER), "shell")
  BY <1>0, <1>1, <1>2
<1>4. ~Contains(<<>>, "synth") /\ ~Contains(<<>>, "shell")
  BY DEF Contains
<1>5. ~Contains(DrainWakes, "synth") /\ ~Contains(RefillWakes, "shell")
  BY <1>3, <1>4 DEF DrainWakes, RefillWakes
<1>6. DrainWakes \in Seq(Task) /\ Woken(SLEEP_WAKER) \in Seq(Task)
  BY WokenIsTasks DEF RInv, IInv
<1> QED
  BY <1>2, <1>3, <1>5, <1>6, ConcatContainsOnly DEF TickWakes

\* A handler that pushes ids of this task only, and makes nothing less due.
LEMMA RefinesWake ==
    ASSUME RInv, RInv', NEW t \in Task, NEW ids \in Seq(Task),
           task_queue' = task_queue \o ids,
           \A u \in Task \ {t} : ~Contains(ids, u) /\ Ready(u)' = Ready(u),
           Ready(t) => Ready(t)',
           pc # "panic", pc' = IF pc = "hlt" THEN "pop" ELSE pc,
           UNCHANGED <<cur, tasks, fut>>
    PROVE  Sched!SNext
<1>0. task_queue \in Seq(Task)
  BY DEF RInv, IInv, TypeOK
<1>1. \A u \in Task \ {t} : InQueue(u)' <=> InQueue(u)
  BY <1>0, ConcatContainsOnly DEF InQueue
<1>2. InQueue(t) => InQueue(t)'
  BY <1>0, ConcatContains DEF InQueue
<1>3. OnlyFor(t)
  BY <1>1 DEF OnlyFor, Status
<1>4. Status(t)' = Status(t) \/ (Status(t) = "blocked" /\ Status(t)' = "runnable")
  BY <1>2 DEF Status
<1>5. Status(t)' = "blocked" => ~Ready(t)'
  BY DEF RInv, IInv, NoLostWakeup, Parked, Status
<1>6. Cpu # "crashed" /\ Cpu' = "busy"
  BY DEF Cpu
<1> QED
  BY <1>3, <1>4, <1>5, <1>6, MapInterrupt

LEMMA RefinesHandler == ASSUME RInv, RInv', Handler PROVE Sched!SNext
<1> USE DEF executor, futures, shared
<1>0. /\ "shell" \in Task /\ "synth" \in Task /\ Task = {"shell", "synth"}
      /\ TickWakes \in Seq(Task) /\ DrainWakes \in Seq(Task) /\ RefillWakes \in Seq(Task)
      /\ Queued \in Nat /\ scancodes \in Nat /\ TICKS \in Nat /\ target \in Nat
  BY WokenIsTasks, ConstantsAssumption DEF RInv, IInv, TypeOK, Task
<1>1. CASE TimerInterrupt
  <2>1. CASE ~Fits(TickWakes)
    BY <1>1, <2>1, MapCrash DEF TimerInterrupt
  <2>2. CASE Fits(TickWakes)
    <3>0. /\ pc # "panic" /\ pc' = (IF pc = "hlt" THEN "pop" ELSE pc)
          /\ task_queue' = task_queue \o TickWakes /\ scancodes' = scancodes + Queued
          /\ TICKS' = IF TICKS < MaxTicks THEN TICKS + 1 ELSE TICKS
          /\ UNCHANGED <<cur, tasks, fut, target, REFILL_MASK>>
      BY <1>1, <2>2 DEF TimerInterrupt, Interrupts, ReturnFrom, DrainController
    <3>1. Ready("synth")' = Ready("synth")
      BY <3>0 DEF RInv, IInv, TypeOK, Ready, SynthFuture
    <3>2. Ready("shell") => Ready("shell")'
      BY <1>0, <3>0 DEF Ready
    <3> QED
      BY <1>0, <3>0, <3>1, <3>2, WokenOnly, RefinesWake
  <2> QED
    BY <2>1, <2>2
<1>2. CASE KeyboardInterrupt
  <2>1. CASE ~Fits(DrainWakes)
    BY <1>2, <2>1, MapCrash DEF KeyboardInterrupt
  <2>2. CASE Fits(DrainWakes)
    <3>0. /\ pc # "panic" /\ pc' = (IF pc = "hlt" THEN "pop" ELSE pc)
          /\ task_queue' = task_queue \o DrainWakes /\ scancodes' = scancodes + Queued
          /\ UNCHANGED <<cur, tasks, fut, target, TICKS, REFILL_MASK>>
      BY <1>2, <2>2 DEF KeyboardInterrupt, Interrupts, ReturnFrom, DrainController
    <3>1. Ready("synth")' = Ready("synth")
      BY <3>0 DEF RInv, IInv, TypeOK, Ready, SynthFuture
    <3>2. Ready("shell") => Ready("shell")'
      BY <1>0, <3>0 DEF Ready
    <3> QED
      BY <1>0, <3>0, <3>1, <3>2, WokenOnly, RefinesWake
  <2> QED
    BY <2>1, <2>2
<1>3. CASE SoundInterrupt
  <2>1. CASE ~Fits(RefillWakes)
    BY <1>3, <2>1, MapCrash DEF SoundInterrupt
  <2>2. CASE Fits(RefillWakes)
    <3>0. /\ pc # "panic" /\ pc' = (IF pc = "hlt" THEN "pop" ELSE pc)
          /\ task_queue' = task_queue \o RefillWakes /\ REFILL_MASK' = REFILL_MASK \cup completed
          /\ UNCHANGED <<cur, tasks, fut, target, TICKS, scancodes>>
      BY <1>3, <2>2 DEF SoundInterrupt, Interrupts, ReturnFrom
    <3>1. Ready("shell")' = Ready("shell")
      BY <3>0 DEF RInv, IInv, TypeOK, Ready, ShellFuture
    <3>2. Ready("synth") => Ready("synth")'
      BY <3>0 DEF RInv, IInv, TypeOK, Ready, SynthFuture
    <3> QED
      BY <1>0, <3>0, <3>1, <3>2, WokenOnly, RefinesWake
  <2> QED
    BY <2>1, <2>2
<1> QED
  BY <1>1, <1>2, <1>3 DEF Handler

\* Ring 3 and the devices are below the scheduler's view.
LEMMA RefinesNothing ==
    ASSUME SysExit \/ Device \/ UNCHANGED vars
    PROVE  UNCHANGED Sched!svars
<1>0. /\ UNCHANGED <<cur, tasks, task_queue, fut, target, TICKS, scancodes, REFILL_MASK>>
      /\ pc' = pc \/ (pc \notin {"hlt", "panic"} /\ pc' \notin {"hlt", "panic"})
  BY DEF SysExit, GoTo, Device, PitTick, AuxArrives, SharedLineRaised, KeyArrives, CardCompletes,
     DeviceStep, vars, executor, futures, shared
<1>1. \A u \in Task : Status(u)' = Status(u) /\ Ready(u)' = Ready(u)
  BY <1>0 DEF Status, Ready, InQueue
<1>2. Cpu' = Cpu
  BY <1>0 DEF Cpu
<1> QED
  BY <1>1, <1>2, MapStutter

----------------------------------------------------------------------------
(* The theorems.                                                           *)

\* The invariant of the refinement: that of AsyncKernelProofs, and which tasks
\* exist.
THEOREM RefinementInvariant == Spec => []RInv
<1>1. Init => Live
  BY LiveInit
<1>2. IInv /\ Live /\ [Next]_vars => Live'
  BY LiveNext
<1> QED
  BY <1>1, <1>2, InductiveInvariant, PTL DEF Spec, RInv

LEMMA InitRefines == Init => Sched!SInit
<1> SUFFICES ASSUME Init PROVE Sched!SInit
  OBVIOUS
<1>1. \A t \in Task : Status(t) = "new" /\ Ready(t) = TRUE
  BY DEF Init, Status, Ready, Task, NoTask
<1>2. TaskStatus = [t \in Task |-> "new"] /\ TaskDue = [t \in Task |-> TRUE]
  BY <1>1 DEF TaskStatus, TaskDue
<1>3. Cpu = "busy"
  BY DEF Init, Cpu
<1> QED
  BY <1>2, <1>3 DEF Sched!SInit

\* Every step of the executor, of a polled task, of a handler or of a device is
\* a step of the abstract scheduler or changes nothing it sees.
LEMMA NextRefines ==
    RInv /\ RInv' /\ [Next]_vars => [Sched!SNext]_(Sched!svars)
<1> SUFFICES ASSUME RInv, RInv', [Next]_vars PROVE Sched!SNext \/ UNCHANGED Sched!svars
  OBVIOUS
<1>1. CASE MainThread
  BY <1>1, RefinesExecutor, RefinesShell, RefinesSynth, RefinesNothing DEF MainThread, PollFuture, TaskBody
<1>2. CASE Handler
  BY <1>2, RefinesHandler
<1>3. CASE Device \/ UNCHANGED vars
  BY <1>3, RefinesNothing
<1> QED
  BY <1>1, <1>2, <1>3 DEF Next

\* The executor with its queue, its AtomicWakers and the interrupt handlers
\* implements the abstract scheduler: an event makes a blocked task runnable
\* in the very step in which it occurs, a task blocks only while nothing is due
\* for it, and the CPU halts only when every live task is blocked.
THEOREM KernelImplementsScheduler == Spec => ImplementsScheduler
<1>1. Init => Sched!SInit
  BY InitRefines
<1>2. RInv /\ RInv' /\ [Next]_vars => [Sched!SNext]_(Sched!svars)
  BY NextRefines
<1> QED
  BY <1>1, <1>2, RefinementInvariant, PTL DEF Spec, ImplementsScheduler, Sched!SSpec

=============================================================================
