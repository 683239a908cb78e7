---------------------------- MODULE AsyncKernel ----------------------------
(***************************************************************************)
(* The cooperative executor of the kernel, the futures its two tasks await *)
(* and the interrupt handlers that wake them (kernel/src/task, the         *)
(* handlers of interrupts.rs, the Refill future of ac97.rs and the IF flag *)
(* across usermode.rs).                                                    *)
(*                                                                         *)
(* One CPU.  The main thread is a program counter, pc, that moves through  *)
(* the executor loop and, inside Task::poll, through the check / register  *)
(* / re-check steps of the future the polled task awaits.  An interrupt    *)
(* handler is an interrupt gate, runs with IF clear and is one atomic      *)
(* action; it may fall between any two steps of the main thread while IF   *)
(* is set.                                                                 *)
(***************************************************************************)
EXTENDS Naturals, Sequences, SequencesExt

CONSTANTS
    QueueCap,  \* capacity of Executor::task_queue (100 in the kernel)
    ScanCap,   \* capacity of SCANCODE_QUEUE (100 in the kernel)
    Buffers,   \* the pages of the sound ring, one bit each of REFILL_MASK
    MaxSleep,  \* bound: ticks the shell asks for in one sleep_ms
    MaxTicks,  \* bound: where the model's tick counter saturates
    FifoCap,   \* bound: keyboard bytes the i8042 holds at once
    MaxAwaits  \* bound: awaits of one shell command

ASSUME ConstantsAssumption ==
    /\ QueueCap \in Nat \ {0}
    /\ ScanCap \in Nat \ {0}
    /\ MaxSleep \in Nat \ {0}
    /\ MaxTicks \in Nat
    /\ FifoCap \in Nat
    /\ MaxAwaits \in Nat

Task == {"shell", "synth"}
NoTask == "none"

\* The interrupt request lines that init_pics unmasks.
Line == {"timer", "keyboard", "sound"}

\* What a suspended task awaits.  "yielded" is YieldNow after its first poll.
ShellFuture == {"start", "key", "sleep", "yield", "yielded"}
SynthFuture == {"start", "refill", "done"}

Point == {"spawn", "pop", "poll", "register", "recheck", "take", "body", "ring3",
          "cli", "is_empty", "sti_hlt", "sti", "hlt", "panic"}

VARIABLES
    pc,          \* where the main thread is
    cur,         \* the task being polled, NoTask outside Task::poll
    iflag,       \* the CPU's interrupt flag
    tasks,       \* Executor::tasks
    task_queue,  \* Executor::task_queue
    fut,         \* the future each task is suspended in
    target,      \* Sleep::target of the shell's current sleep
    awaits,      \* what is left of MaxAwaits for the shell's current command
    TICKS,
    scancodes,   \* number of bytes in SCANCODE_QUEUE
    REFILL_MASK,
    WAKER, SLEEP_WAKER, SYNTH_WAKER,  \* the task whose waker is stored
    irr,         \* lines the PIC has latched and the CPU has not served
    kbd_out,     \* keyboard bytes in the i8042 output buffer
    aux_out,     \* mouse bytes in the i8042 output buffer
    available,   \* ac97::is_available(): the card was found at boot
    completed    \* pages the card finished and handle_irq has not recorded

executor == <<tasks, task_queue>>
futures == <<fut, target, awaits>>
wakers == <<WAKER, SLEEP_WAKER, SYNTH_WAKER>>
shared == <<TICKS, scancodes, REFILL_MASK>>
devices == <<irr, kbd_out, aux_out, available, completed>>
vars == <<pc, cur, iflag, executor, futures, wakers, shared, devices>>

----------------------------------------------------------------------------
(* State when kernel_main has run init_pics and is about to spawn tasks.   *)

Init ==
    /\ pc = "spawn"
    /\ cur = NoTask
    /\ iflag = TRUE
    /\ tasks = {}
    /\ task_queue = <<>>
    /\ fut = [t \in Task |-> "start"]
    /\ target = 0
    /\ awaits = 0
    /\ TICKS = 0
    /\ scancodes = 0
    /\ REFILL_MASK = {}
    /\ WAKER = NoTask /\ SLEEP_WAKER = NoTask /\ SYNTH_WAKER = NoTask
    /\ irr = {}
    /\ kbd_out = 0
    /\ aux_out = 0
    /\ available \in BOOLEAN
    /\ completed = {}

----------------------------------------------------------------------------
(* task_queue and wakers.                                                  *)

InQueue(t) == Contains(task_queue, t)

\* TaskWaker::wake_task for each id in turn.  A full queue is a panic; what
\* the handler would still have done is left out, nothing runs afterwards.
Fits(ids) == Len(task_queue) + Len(ids) <= QueueCap

\* The panic handler prints and halts for good.
Panic ==
    /\ pc' = "panic"
    /\ UNCHANGED <<cur, iflag, executor, futures, wakers, shared, devices>>

PanicLoop == pc = "panic" /\ UNCHANGED vars

\* AtomicWaker::wake takes the stored waker, so it pushes at most one id.
Woken(waker) == IF waker = NoTask THEN <<>> ELSE <<waker>>

----------------------------------------------------------------------------
(* Executor: spawn, run_ready_tasks, sleep_if_idle.                        *)

Spawn(t) ==
    /\ pc = "spawn"
    /\ t \notin tasks
    /\ t = "synth" => "shell" \in tasks
    /\ IF Fits(<<t>>)
       THEN /\ tasks' = tasks \cup {t}
            /\ task_queue' = Append(task_queue, t)
            /\ pc' = IF t = "synth" THEN "pop" ELSE "spawn"
            /\ UNCHANGED <<cur, iflag, futures, wakers, shared, devices>>
       ELSE Panic

PopTask ==
    /\ pc = "pop"
    /\ task_queue # <<>>
    /\ task_queue' = Tail(task_queue)
    /\ IF Head(task_queue) \in tasks
       THEN cur' = Head(task_queue) /\ pc' = "poll"
       ELSE UNCHANGED <<cur, pc>>   \* finished but woken again
    /\ UNCHANGED <<iflag, tasks, futures, wakers, shared, devices>>

PopNone ==
    /\ pc = "pop"
    /\ task_queue = <<>>
    /\ pc' = "cli"
    /\ UNCHANGED <<cur, iflag, executor, futures, wakers, shared, devices>>

\* Mutant: is_empty is looked at with interrupts still on.
NoCli ==
    /\ pc = "cli"
    /\ pc' = "is_empty"
    /\ UNCHANGED <<cur, iflag, executor, futures, wakers, shared, devices>>

DisableInterrupts ==
    /\ pc = "cli"
    /\ iflag' = FALSE
    /\ pc' = "is_empty"
    /\ UNCHANGED <<cur, executor, futures, wakers, shared, devices>>

CheckEmpty ==
    /\ pc = "is_empty"
    /\ pc' = IF task_queue = <<>> THEN "sti_hlt" ELSE "sti"
    /\ UNCHANGED <<cur, iflag, executor, futures, wakers, shared, devices>>

\* sti and hlt back to back: no interrupt is taken between the two.
EnableAndHlt ==
    /\ pc = "sti_hlt"
    /\ iflag' = TRUE
    /\ pc' = "hlt"
    /\ UNCHANGED <<cur, executor, futures, wakers, shared, devices>>

EnableInterrupts ==
    /\ pc = "sti"
    /\ iflag' = TRUE
    /\ pc' = "pop"
    /\ UNCHANGED <<cur, executor, futures, wakers, shared, devices>>

----------------------------------------------------------------------------
(* Task::poll.  A future that is ready falls through to the task's body    *)
(* within the same poll; one that is not leaves the poll by Pending.       *)

Polling(t, f) == pc = "poll" /\ cur = t /\ fut[t] = f
At(point, t, f) == pc = point /\ cur = t /\ fut[t] = f

Pending == pc' = "pop" /\ cur' = NoTask
GoTo(point) == pc' = point /\ UNCHANGED cur

\* First poll of shell::run: ScancodeStream::new, then the first next().await.
StartShell ==
    /\ Polling("shell", "start")
    /\ fut' = [fut EXCEPT !["shell"] = "key"]
    /\ UNCHANGED <<pc, cur, iflag, executor, target, awaits, wakers, shared, devices>>

ScancodeQueueReady == fut["shell"] # "start"

\* First poll of run_synth: without a card the task returns and is dropped.
StartSynth ==
    /\ Polling("synth", "start")
    /\ IF available
       THEN /\ fut' = [fut EXCEPT !["synth"] = "refill"]
            /\ UNCHANGED <<pc, cur, tasks>>
       ELSE /\ fut' = [fut EXCEPT !["synth"] = "done"]
            /\ tasks' = tasks \ {"synth"}
            /\ Pending
    /\ UNCHANGED <<iflag, task_queue, target, awaits, wakers, shared, devices>>

\* ScancodeStream::poll_next.  The shell's next command starts with the byte.
PopKey(point) ==
    /\ scancodes' = scancodes - 1
    /\ awaits' = MaxAwaits
    /\ GoTo(point)

PollKey ==
    /\ Polling("shell", "key")
    /\ \/ scancodes > 0 /\ PopKey("body")
       \/ scancodes = 0 /\ GoTo("register") /\ UNCHANGED <<scancodes, awaits>>
    /\ UNCHANGED <<iflag, executor, fut, target, wakers, TICKS, REFILL_MASK, devices>>

RegisterKey ==
    /\ At("register", "shell", "key")
    /\ WAKER' = cur
    /\ GoTo("recheck")
    /\ UNCHANGED <<iflag, executor, futures, SLEEP_WAKER, SYNTH_WAKER, shared, devices>>

\* Mutant: no second pop after the waker is registered.
RegisterKeyOnly ==
    /\ At("recheck", "shell", "key")
    /\ Pending
    /\ UNCHANGED <<iflag, executor, futures, wakers, shared, devices>>

RecheckKey ==
    /\ At("recheck", "shell", "key")
    /\ \/ scancodes > 0 /\ PopKey("take")
       \/ scancodes = 0 /\ Pending /\ UNCHANGED <<scancodes, awaits>>
    /\ UNCHANGED <<iflag, executor, fut, target, wakers, TICKS, REFILL_MASK, devices>>

TakeWaker ==
    /\ At("take", "shell", "key")
    /\ WAKER' = NoTask
    /\ GoTo("body")
    /\ UNCHANGED <<iflag, executor, futures, SLEEP_WAKER, SYNTH_WAKER, shared, devices>>

\* Sleep::poll.
PollSleep ==
    /\ Polling("shell", "sleep")
    /\ GoTo(IF TICKS >= target THEN "body" ELSE "register")
    /\ UNCHANGED <<iflag, executor, futures, wakers, shared, devices>>

\* Mutant: the sleeper registers with the keyboard's waker.
RegisterSleepElsewhere ==
    /\ At("register", "shell", "sleep")
    /\ WAKER' = cur
    /\ GoTo("recheck")
    /\ UNCHANGED <<iflag, executor, futures, SLEEP_WAKER, SYNTH_WAKER, shared, devices>>

RegisterSleep ==
    /\ At("register", "shell", "sleep")
    /\ SLEEP_WAKER' = cur
    /\ GoTo("recheck")
    /\ UNCHANGED <<iflag, executor, futures, WAKER, SYNTH_WAKER, shared, devices>>

RecheckSleep ==
    /\ At("recheck", "shell", "sleep")
    /\ IF TICKS >= target THEN GoTo("body") ELSE Pending
    /\ UNCHANGED <<iflag, executor, futures, wakers, shared, devices>>

\* Mutant: YieldNow returns Pending without waking itself.
YieldUnwoken ==
    /\ Polling("shell", "yield")
    /\ fut' = [fut EXCEPT !["shell"] = "yielded"]
    /\ Pending
    /\ UNCHANGED <<iflag, executor, target, awaits, wakers, shared, devices>>

\* YieldNow::poll: the task puts its own id back before it returns Pending.
PollYield ==
    /\ Polling("shell", "yield")
    /\ IF Fits(<<cur>>)
       THEN /\ fut' = [fut EXCEPT !["shell"] = "yielded"]
            /\ task_queue' = Append(task_queue, cur)
            /\ Pending
            /\ UNCHANGED <<iflag, tasks, target, awaits, wakers, shared, devices>>
       ELSE Panic

PollYielded ==
    /\ Polling("shell", "yielded")
    /\ GoTo("body")
    /\ UNCHANGED <<iflag, executor, futures, wakers, shared, devices>>

\* Refill::poll: swap(0), register, swap(0) again.
PollRefill ==
    /\ Polling("synth", "refill")
    /\ GoTo(IF REFILL_MASK # {} THEN "body" ELSE "register")
    /\ REFILL_MASK' = {}
    /\ UNCHANGED <<iflag, executor, futures, wakers, TICKS, scancodes, devices>>

RegisterRefill ==
    /\ At("register", "synth", "refill")
    /\ SYNTH_WAKER' = cur
    /\ GoTo("recheck")
    /\ UNCHANGED <<iflag, executor, futures, WAKER, SLEEP_WAKER, shared, devices>>

\* Mutant: no second swap after the waker is registered.
RegisterRefillOnly ==
    /\ At("recheck", "synth", "refill")
    /\ Pending
    /\ UNCHANGED <<iflag, executor, futures, wakers, shared, devices>>

RecheckRefill ==
    /\ At("recheck", "synth", "refill")
    /\ IF REFILL_MASK # {} THEN GoTo("body") ELSE Pending
    /\ REFILL_MASK' = {}
    /\ UNCHANGED <<iflag, executor, futures, wakers, TICKS, scancodes, devices>>

----------------------------------------------------------------------------
(* What a task does between two awaits.  The shell decides which await     *)
(* comes next: another key at any time, or, while its command lasts, a     *)
(* sleep (beep, play) or a yield (celebrare).  The userspace command is a  *)
(* trip to ring 3 and nothing else.                                        *)

ShellBody == pc = "body" /\ cur = "shell"

AwaitKey ==
    /\ ShellBody
    /\ fut' = [fut EXCEPT !["shell"] = "key"]
    /\ GoTo("poll")
    /\ UNCHANGED <<iflag, executor, target, awaits, wakers, shared, devices>>

\* sleep_ms: n is ms.div_ceil(55).max(1).
AwaitSleep(n) ==
    /\ ShellBody
    /\ awaits > 0
    /\ TICKS + n <= MaxTicks
    /\ target' = TICKS + n
    /\ fut' = [fut EXCEPT !["shell"] = "sleep"]
    /\ awaits' = awaits - 1
    /\ GoTo("poll")
    /\ UNCHANGED <<iflag, executor, wakers, shared, devices>>

AwaitYield ==
    /\ ShellBody
    /\ awaits > 0
    /\ fut' = [fut EXCEPT !["shell"] = "yield"]
    /\ awaits' = awaits - 1
    /\ GoTo("poll")
    /\ UNCHANGED <<iflag, executor, target, wakers, shared, devices>>

\* usermode::run: enter_user's iretq loads RFLAGS 0x202, which sets IF.
EnterUser ==
    /\ ShellBody
    /\ awaits = MaxAwaits /\ awaits > 0
    /\ awaits' = 0
    /\ iflag' = TRUE
    /\ GoTo("ring3")
    /\ UNCHANGED <<executor, fut, target, wakers, shared, devices>>

\* SYS_EXIT: the int 0x80 gate clears IF and return_to_kernel leaves by ret,
\* so RFLAGS is not restored.
SysExit ==
    /\ pc = "ring3"
    /\ iflag' = FALSE
    /\ GoTo("body")
    /\ UNCHANGED <<executor, futures, wakers, shared, devices>>

\* run_synth refills the pages of the mask it was given and loops.
RefillPages ==
    /\ pc = "body"
    /\ cur = "synth"
    /\ GoTo("poll")
    /\ UNCHANGED <<iflag, executor, futures, wakers, shared, devices>>

----------------------------------------------------------------------------
(* Interrupt handlers.  hlt ends when any of them returns.                 *)

Interrupts(line) ==
    /\ iflag = TRUE
    /\ pc # "panic"
    /\ line \in irr

ReturnFrom(line) ==
    /\ irr' = irr \ {line}
    /\ pc' = IF pc = "hlt" THEN "pop" ELSE pc
    /\ UNCHANGED <<cur, iflag, tasks, futures>>

\* Mutant: bytes are pushed whether or not there is room.
QueuedUnbounded == IF ~ScancodeQueueReady THEN 0 ELSE kbd_out

\* drain_controller empties the i8042: mouse bytes are discarded, keyboard
\* bytes are queued while there is room, and every queued byte wakes WAKER.
Queued ==
    IF ~ScancodeQueueReady THEN 0
    ELSE IF kbd_out <= ScanCap - scancodes THEN kbd_out ELSE ScanCap - scancodes

DrainWakes == IF Queued > 0 THEN Woken(WAKER) ELSE <<>>

DrainController ==
    /\ scancodes' = scancodes + Queued
    /\ WAKER' = IF Queued > 0 THEN NoTask ELSE WAKER
    /\ kbd_out' = 0
    /\ aux_out' = 0

\* Mutant: the tick handler does not call on_tick.
TickWithoutOnTick == DrainWakes

\* on_tick wakes the sleeper before the controller is drained.
TickWakes == Woken(SLEEP_WAKER) \o DrainWakes

\* Mutant: the tick handler does not drain the controller.
TickWithoutDrain ==
    /\ Interrupts("timer")
    /\ IF Fits(Woken(SLEEP_WAKER))
       THEN /\ TICKS' = IF TICKS < MaxTicks THEN TICKS + 1 ELSE TICKS
            /\ SLEEP_WAKER' = NoTask
            /\ task_queue' = task_queue \o Woken(SLEEP_WAKER)
            /\ ReturnFrom("timer")
            /\ UNCHANGED <<WAKER, SYNTH_WAKER, scancodes, REFILL_MASK,
                           kbd_out, aux_out, available, completed>>
       ELSE Panic

TimerInterrupt ==
    /\ Interrupts("timer")
    /\ IF Fits(TickWakes)
       THEN /\ TICKS' = IF TICKS < MaxTicks THEN TICKS + 1 ELSE TICKS
            /\ SLEEP_WAKER' = NoTask
            /\ DrainController
            /\ task_queue' = task_queue \o TickWakes
            /\ ReturnFrom("timer")
            /\ UNCHANGED <<SYNTH_WAKER, REFILL_MASK, available, completed>>
       ELSE Panic

KeyboardInterrupt ==
    /\ Interrupts("keyboard")
    /\ IF Fits(DrainWakes)
       THEN /\ DrainController
            /\ task_queue' = task_queue \o DrainWakes
            /\ ReturnFrom("keyboard")
            /\ UNCHANGED <<TICKS, REFILL_MASK, SLEEP_WAKER, SYNTH_WAKER, available, completed>>
       ELSE Panic

\* handle_irq, seen from the executor: completed pages are or-ed into the
\* mask, and SYNTH_WAKER is woken only if there are any.
RefillWakes == IF completed # {} THEN Woken(SYNTH_WAKER) ELSE <<>>

SoundInterrupt ==
    /\ Interrupts("sound")
    /\ IF Fits(RefillWakes)
       THEN /\ REFILL_MASK' = REFILL_MASK \cup completed
            /\ SYNTH_WAKER' = IF completed # {} THEN NoTask ELSE SYNTH_WAKER
            /\ completed' = {}
            /\ task_queue' = task_queue \o RefillWakes
            /\ ReturnFrom("sound")
            /\ UNCHANGED <<TICKS, scancodes, WAKER, SLEEP_WAKER,
                           kbd_out, aux_out, available>>
       ELSE Panic

----------------------------------------------------------------------------
(* The devices.                                                            *)

DeviceStep == UNCHANGED <<pc, cur, iflag, executor, futures, wakers, shared, available>>

\* The PIT; a tick that comes while the last one is still latched is lost.
PitTick ==
    /\ "timer" \notin irr
    /\ irr' = irr \cup {"timer"}
    /\ UNCHANGED <<kbd_out, aux_out, completed>>
    /\ DeviceStep

\* A byte arrives.  The line is edge-triggered: only the first byte in an
\* empty buffer raises it, and that edge may get lost.
KeyArrives(edge) ==
    /\ kbd_out < FifoCap
    /\ edge => kbd_out = 0
    /\ kbd_out' = kbd_out + 1
    /\ irr' = IF edge THEN irr \cup {"keyboard"} ELSE irr
    /\ UNCHANGED <<aux_out, completed>>
    /\ DeviceStep

\* A mouse byte; init_pics leaves IRQ 12 masked.
AuxArrives ==
    /\ aux_out = 0
    /\ aux_out' = 1
    /\ UNCHANGED <<irr, kbd_out, completed>>
    /\ DeviceStep

CardCompletes(page) ==
    /\ available
    /\ completed' = completed \cup {page}
    /\ irr' = irr \cup {"sound"}
    /\ UNCHANGED <<kbd_out, aux_out>>
    /\ DeviceStep

\* Another device on the shared PCI line.
SharedLineRaised ==
    /\ "sound" \notin irr
    /\ irr' = irr \cup {"sound"}
    /\ UNCHANGED <<kbd_out, aux_out, completed>>
    /\ DeviceStep

----------------------------------------------------------------------------
SleepIfIdle == DisableInterrupts \/ CheckEmpty \/ EnableAndHlt \/ EnableInterrupts

PollFuture ==
    \/ StartShell \/ PollKey \/ RegisterKey \/ RecheckKey \/ TakeWaker
    \/ PollSleep \/ RegisterSleep \/ RecheckSleep \/ PollYield \/ PollYielded
    \/ StartSynth \/ PollRefill \/ RegisterRefill \/ RecheckRefill

TaskBody ==
    \/ AwaitKey
    \/ \E n \in 1..MaxSleep : AwaitSleep(n)
    \/ AwaitYield \/ EnterUser \/ SysExit \/ RefillPages

MainThread ==
    \/ \E t \in Task : Spawn(t)
    \/ PopTask \/ PopNone \/ SleepIfIdle \/ PollFuture \/ TaskBody \/ PanicLoop

Handler == TimerInterrupt \/ KeyboardInterrupt \/ SoundInterrupt

Device ==
    \/ PitTick \/ AuxArrives \/ SharedLineRaised
    \/ \E edge \in BOOLEAN : KeyArrives(edge)
    \/ \E page \in Buffers : CardCompletes(page)

Next == MainThread \/ Handler \/ Device

Spec == Init /\ [][Next]_vars

\* The CPU keeps executing, the PIT keeps ticking, and the PIC presents a
\* latched line again and again until the CPU takes it.
Fairness ==
    /\ WF_vars(MainThread)
    /\ WF_vars(PitTick)
    /\ SF_vars(TimerInterrupt)
    /\ SF_vars(KeyboardInterrupt)
    /\ SF_vars(SoundInterrupt)

FairSpec == Spec /\ Fairness

----------------------------------------------------------------------------
(* Properties.                                                             *)

TypeOK ==
    /\ pc \in Point
    /\ cur \in Task \cup {NoTask}
    /\ iflag \in BOOLEAN
    /\ tasks \in SUBSET Task
    /\ task_queue \in Seq(Task) /\ Len(task_queue) <= QueueCap
    /\ fut \in [Task -> ShellFuture \cup SynthFuture]
    /\ fut["shell"] \in ShellFuture /\ fut["synth"] \in SynthFuture
    /\ target \in Nat
    /\ awaits \in 0..MaxAwaits
    /\ TICKS \in 0..MaxTicks
    /\ scancodes \in 0..ScanCap
    /\ REFILL_MASK \in SUBSET Buffers
    /\ WAKER \in {"shell", NoTask}
    /\ SLEEP_WAKER \in {"shell", NoTask}
    /\ SYNTH_WAKER \in {"synth", NoTask}
    /\ irr \in SUBSET Line
    /\ kbd_out \in 0..FifoCap
    /\ aux_out \in 0..1
    /\ available \in BOOLEAN
    /\ completed \in SUBSET Buffers

\* The condition the task is suspended on holds: a poll would not return
\* Pending again.
Ready(t) ==
    /\ fut[t] = "key" => scancodes > 0
    /\ fut[t] = "sleep" => TICKS >= target
    /\ fut[t] = "refill" => REFILL_MASK # {}

Parked(t) == t \in tasks /\ t # cur

\* The check / register / re-check protocol of the three futures loses no
\* wake-up: a suspended task whose condition holds is in the task queue.
NoLostWakeup == \A t \in Task : Parked(t) /\ Ready(t) => InQueue(t)

\* The waker stored for the future the task is suspended in.
Armed(t) ==
    \/ fut[t] = "key" /\ WAKER = t
    \/ fut[t] = "sleep" /\ SLEEP_WAKER = t
    \/ fut[t] = "refill" /\ SYNTH_WAKER = t

\* A suspended task that is not queued has its waker where the interrupt that
\* will satisfy it looks, so the next event cannot pass it by.
ParkedIsArmed == \A t \in Task : Parked(t) => InQueue(t) \/ Armed(t)

\* The race-free sleep: the CPU is halted only when no task can make
\* progress, whatever interrupts arrived between the last pop and the hlt.
HaltOnlyIdle == pc = "hlt" => task_queue = <<>> /\ \A t \in tasks : ~Ready(t)

\* Between two polls the CPU takes interrupts: yield_now promises that a long
\* computation lets "other tasks and the keyboard breathe" (task/mod.rs), and
\* usermode.rs that SYS_EXIT "returns as if enter_user had simply returned".
InterruptsOnBetweenPolls == pc = "pop" => iflag = TRUE

\* The assumption behind expect("task_queue full"): a wake-up always finds
\* room in the task queue, so the kernel never panics on it.
TaskQueueNeverFull == pc # "panic"

\* The abstract scheduler's view of the executor.
Status(t) ==
    IF t = cur THEN "running"
    ELSE IF t \notin tasks THEN (IF fut[t] = "done" THEN "finished" ELSE "new")
    ELSE IF InQueue(t) THEN "runnable" ELSE "blocked"

TaskStatus == [t \in Task |-> Status(t)]
TaskDue == [t \in Task |-> Ready(t)]
Cpu == IF pc = "panic" THEN "crashed" ELSE IF pc = "hlt" THEN "halted" ELSE "busy"

Sched == INSTANCE Scheduler WITH status <- TaskStatus, due <- TaskDue, cpu <- Cpu

\* The executor, its wakers and the handlers implement the abstract scheduler:
\* an event makes a blocked task runnable at once, a task blocks only while
\* nothing is due for it, and the CPU halts only when all are blocked.
ImplementsScheduler == Sched!SSpec

\* A poll ends.  The executor is cooperative: a shell that always finds
\* another byte, or a synth task that always finds another completed page,
\* never returns Pending and keeps the CPU from the other task.
PollsEnd == []<>(cur = NoTask \/ pc = "panic")

\* As long as polls end, a byte waiting for a suspended shell is read by it.
KeyIsRead ==
    PollsEnd => ((fut["shell"] = "key" /\ scancodes > 0) ~> (pc = "panic" \/ ShellBody))

\* As long as polls end, so does a sleep: the tick that reaches its target
\* wakes the shell, even if ring 3 was left with interrupts off.
SleepEnds ==
    PollsEnd => ((fut["shell"] = "sleep") ~> (pc = "panic" \/ fut["shell"] # "sleep"))

\* As long as polls end, a completed page is handed to the synth task.
RefillIsTaken ==
    PollsEnd => ((completed # {} /\ "synth" \in tasks) ~>
                    (pc = "panic" \/ (pc = "body" /\ cur = "synth")))

\* Bytes whose interrupt edge was lost, and mouse bytes, whose line is
\* masked, are picked up by the timer tick.
StrandedBytesDrained ==
    (kbd_out + aux_out > 0) ~> (pc = "panic" \/ kbd_out + aux_out = 0)

=============================================================================
