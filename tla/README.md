# A TLA+ verification of rust_freestanding

rust_freestanding is a small x86-64 kernel (`src/kernel`) with one CPU, a
cooperative async executor, a keyboard, a timer and an AC'97 sound card. Its
shell runs *Officium* (`src/officium`), a language whose verses are evaluated by
a trampolined machine with fuel. This directory models the parts of it where
order matters, checks them with TLC on small instances and proves the main
safety properties with TLAPS for all values of the constants.

## Inventory of the system

| Part | State it keeps | Operations | Hard because |
|---|---|---|---|
| executor (`task/executor.rs`, `task/mod.rs`) | task map, bounded queue of ids, waker cache | spawn, run_ready_tasks, sleep_if_idle, wake | interrupts fall between any two steps; the queue is bounded |
| keyboard stream, sleep timer (`task/keyboard.rs`, `task/timer.rs`) | scancode queue, two atomic wakers, tick counter | poll_next, Sleep::poll, drain_controller, on_tick | check / register / re-check against a handler; lost edges |
| interrupt handlers (`interrupts.rs`) | latched lines, IF | timer, keyboard, PCI sound | edge and level triggering, shared line |
| AC'97 driver (`ac97.rs`) | descriptor ring, NEXT_DONE, REFILL_MASK, voices | init, handle_irq, Refill, run_synth, note_on/off | the card runs on while the handler reads it; modular indices; a fixed number of voices |
| user mode (`usermode.rs`, `gdt.rs`) | saved kernel stack, MAPPED | run, ensure_mapped, syscall_dispatch, SYS_EXIT | flags and stack across privilege changes; a second mapping that fails |
| memory (`memory.rs`, `allocator.rs`) | the allocator's index, page tables, heap | allocate_frame, init_heap, alloc_contiguous, map_user_page | memory may end at any request; the map has gaps |
| console and logger (`console.rs`, `logger.rs`) | grid, cursor, spinlock | put_char, newline, backspace, clear, _print | handlers print too |
| shell (`task/shell.rs`) | edit line, the key that sounds, the phrase | run, execute, read_score, piano, organ, transcribe | key events arrive late, are dropped, and reach whoever reads next |
| celebrare (`celebrare.rs`) | the score, the continuation, slice count | celebrare, check_program, celebrate_body, run_full, play | fuel slices, failure of one verse of three, notes that overlap |
| Officium machine (`officium-core/machine.rs`) | control, frame stack, layer tower, lift depth | run_verse, resume, eval_step, value_step, unwind, apply | unwinding across layers; pausing anywhere |
| values, environment, builtins (`types.rs`, `env.rs`, `builtins.rs`, `ir.rs`) | none (pure) | tower, ask, resolve, call | shadowing, first match, type errors |
| checker (`check.rs`) | substitution, deferred predicates | infer, unify, check_versus, rhyme | has to mirror the machine |
| parser (`officium-parse`) | position, paren depth, expression depth | lex, parse | newlines by context, precedence, depth guard, sung lines |
| audio (`officium-audio`) | octave and binder while transcribing | render, transcribe | two directions that have to be inverse |
| host driver, runner, pci, speaker | the speaker's tone | - | - |

Interaction: handlers write the scancode queue, the tick counter and
REFILL_MASK and wake the futures; the futures read them; the executor polls the
shell and the synth task; the shell runs celebrare, which runs the machine in
slices and yields in between; celebrare alone calls the gravity sink. It
parses and checks the score, sings its verses, renders the fugues and plays them
on the synth's voices. The shell's instruments read the same scancode queue as
its prompt. Heap, ring buffers and user pages come from one frame allocator, and
everybody prints to one console. Hazards
are listed line by line in `PROJECT.json`.

## Modules

| Module | What it models |
|---|---|
| `AsyncKernel` | executor, the three futures, the three handlers, the interrupt flag |
| `Scheduler` | abstract: events make blocked tasks runnable, the CPU halts when all are blocked |
| `MCAsyncKernel` | symmetry for TLC |
| `AsyncKernelProofs` | inductive invariant and theorems of AsyncKernel, and the proof that it implements Scheduler |
| `Ac97Ring` | the card and handle_irq, one register access at a time, and the refilling task |
| `Ac97RingProofs` | inductive invariant and theorems of Ac97Ring |
| `Officium` | values, expressions, modes, environment, builtins |
| `Machine` | the evaluator and run_full |
| `MachineProofs` | inductive invariant and theorems of Machine |
| `OfficiumReference` | big-step meaning of a verse; specification only, models no code |
| `MCMachine` | families of verses for TLC |
| `Celebrare` | the office driver over Machine, and what it owes each body |
| `CelebrareProofs` | invariants of the office over that of Machine, and its theorems |
| `MCCelebrare` | families of scores for TLC, the checker's verdict and the reference meaning |
| `Checker` | inference, unification, mode mask, predicates and rhymes |
| `CheckerReference` | what it means to have a typing, without unification; models no code |
| `MCChecker` | what the checker accepts, sung on Machine |
| `Parser` | line structure of the lexer, recursive descent |
| `ParserReference` | how a program is written down; models no code |
| `MCParser` | families of programs and all short token strings |
| `DegreeOp` | the degree table and how a phrase is heard |
| `DegreeOpProofs` | theorem of DegreeOp |
| `Cantus` | render, transcribe |
| `MCCantus` | melodies transcribed, checked, sung and rendered again |
| `MCOfficium` | all performances of machine, checker and audio as one run |
| `Instruments` | line editor, read_score, beep, piano, organ, transcribe, play, voices, speaker, key events |
| `InstrumentsProofs` | inductive invariant and theorems of Instruments |
| `MCInstruments` | keyboards, commands, and scores that Cantus renders |
| `UserMemory` | frame allocator, heap, sound ring, user pages, the ring 3 program |
| `UserMemoryProofs` | inductive invariant and theorems of UserMemory |
| `MCUserMemory` | memory maps |
| `Console` | grid, cursor and spinlock, the task and the handler that preempts it; the sheet of all that was printed |
| `ConsoleProofs` | inductive invariant and theorems of Console |
| `MCConsole` | messages for TLC |

Composition: `Celebrare` extends `Machine`, and `MCCelebrare` gives it the
verdict of `Checker` and the meanings of `OfficiumReference`; `Cantus` extends
`DegreeOp`; `MCChecker` and `MCCantus` run checker and audio against `Machine`, and `MCOfficium` puts them
together; `MCInstruments` instantiates `Cantus`; `AsyncKernel` implements
`Scheduler`.

### AsyncKernel

`pc` is the main thread's position: the executor loop (`pop`, `cli`,
`is_empty`, `sti_hlt`, `sti`, `hlt`) or, while `cur` is polled, the position in
the awaited future (`poll`, `register`, `recheck`, `take`) and in the task
(`body`, `ring3`). A handler is one action, since it runs with IF clear, and it
can fall between any two steps of the main thread. Scancodes are counted, not
decoded; the shell's commands are reduced to which future comes next
(`AwaitKey`, `AwaitSleep`, `AwaitYield`, `EnterUser`). `AtomicWaker` is taken as
atomic, which is what its crate promises. After a panic nothing is modelled:
the handlers that may still run touch queues that nobody reads any more.

Device actions (`PitTick`, `KeyArrives`, `AuxArrives`, `CardCompletes`,
`SharedLineRaised`) are the environment; a keyboard edge may get lost, a mouse
byte raises no line.

### Ac97Ring

The card may complete a buffer between any two register accesses of
`handle_irq` (`ReadStatus`, `AckStatus`, `ReadCiv`, `Record`, `WriteLvi`). It
halts at the last valid index and is restarted by an LVI write. `lag`, `stale`,
`burst` and `resumed` are history variables. `Burst` bounds how many buffers
complete between the read of CIV and the write of LVI; a buffer lasts 21 ms.

### Officium, Machine, Celebrare

A verse is a record `[mode, body]`, an expression and a value are records with a
tag; numbers are opaque (`F64`, `Holds` are constants). One action of `Machine`
is one turn of `resume`; `unwind` is part of the turn that throws. `apply` runs
within its turn as zero-fuel steps that count native calls. `RunOut` and
`Resume` are the loop of `run_full`. Layers are numbered from 1 where the code
counts from 0. `Celebrare` starts `Machine` on correctio, consilium and executio
for each body. It begins with a score that was parsed; what check_program says
of it is the constant operator `Passes`, so that `Celebrare` stays free of the
checker's recursion: `MCCelebrare` sets it to `Checker!CheckProgram`, and
`CelebrareProofs` holds whatever it answers. In the same way `Means`, what a
verse means for an argument, is a constant operator that `MCCelebrare` sets to the
recursive `OfficiumReference!Meaning`; only properties mention it. The procession
is not empty (BodiesAssumption; the code has a fixed array of three). A text that does not parse ends the
command as a refused score does.

### Checker

A checker is a record threaded through the walk, as `&mut self` is in the code:
substitution, deferred predicates, first clash, and a stack of inferred types. A
type variable is an index into the substitution. Diagnostics are reduced to
their kind. The properties let `Machine` sing what `Checker` accepts, to an
argument of the type it inferred, and compare its refusals with
`CheckerReference`, which guesses ground types for all names at once.

### Parser

`Parse` is a function of the token text; each parsing function takes position,
paren depth and expression depth and returns the expression with the new
position. A lexeme is given as a whole; how characters form numbers, strings and
identifiers is left out. What the lexer does with newlines, semicolons, comments
and sung lines is modelled, because the parser's behaviour hangs on it.
`ParserReference` writes programs down with the fewest parentheses.

### DegreeOp, Cantus

A pitch is a MIDI number. `DegreeOp` is the table both directions share, with the
first half of `transcribe`, which turns pitches into a mode and operations
(`Hear`). In `Cantus`, `RenderVerse` and `RenderProgram` give the notes with
onset and duration, `Transcribe` gives the verse that the parser reads from the
text `transcribe` emits.

### Instruments

`mode` says what the shell task is doing. Fingers press, hold (the keyboard
repeats) and release keys at any time (`held`); the events go through `queue`,
which drops what does not fit, and whatever the shell is doing when it reads
them gets them. An action of an instrument is the whole reaction to one event.
`play` is three loops per tick (`strike`, `sleep`, `release`). The card may be
absent, then the speaker stands in where the code says so. `lost`, `pressed` and
`crowded` are history variables: a release the queue dropped is the one way a
note may stay on, and it is named in NoStuckNote instead of being left out.

### UserMemory

One action per request to the allocator that can fail: mapping a page takes the
frame first and then one per missing page table (`LEVELS`, some of which the
bootloader already made). `alloc_contiguous` looks at one frame per step. The
ring 3 program is its list of system calls. After a failed second mapping the
first page is there and MAPPED is not set, so a retry would find it already
mapped. NeverMapsTwice says why it does not come to that: the only failure is
the end of memory, and then the retry already fails to get its frame.

### Console

`_print` takes the spinlock with interrupts off, writes one character per step
and restores the flag it found; a handler may preempt the task wherever the flag
allows it. The lock spins: an attempt on a held lock changes nothing. `printed`
is a history variable, the text since the last clear; a message enters it whole
when its print takes the lock. `Sheets` is what an endless roll of paper of the
screen's width would show after each character of it, without a cursor row and
without scrolling. `MaxPrinted` bounds the characters between two clears.

## Runs

A run asks one question of one part of the system; its instance is made large
enough for all of that part's properties, so that they are checked on the same
states.

| Run | Checks | Bounds and why they are enough |
|---|---|---|
| `kernel_safety` | TypeOK, NoLostWakeup, ParkedIsArmed, HaltOnlyIdle, ImplementsScheduler | queue of 3, one scancode slot and one i8042 byte (so both overflow), one page, sleeps of 1-2 ticks: each interrupt can hit each window, queues run full and the panic is reached |
| `kernel_input` | KeyIsRead, SleepEnds, StrandedBytesDrained | no pages; one sleep tick |
| `kernel_sound` | RefillIsTaken | one page |
| `kernel_interrupt_flag` | InterruptsOnBetweenPolls, *violated* | the kernel's own capacities |
| `kernel_queue_overflow` | TaskQueueNeverFull, *violated* | the kernel's queue of 100 ids |
| `ac97_ring` | TypeOK, LagIsExact, NoRefillLost, QuietIsUpToDate, DmaRestarts, PagesAreRefilled | 6 descriptors over 3 pages, bursts of 5: a whole ring but one |
| `officium` | machine: TypeOK, DepthIsLifts, LayersMatch, AgreesWithReference, CommitIsConsecrated; checker: AcceptedVersesStayInTune, RefusesOnlyIllTyped, RhymesAgree; audio: RenderReadsBack, PlainSkeletonsRun | all verses of effect operations to depth 2 in eight modes, throws and handlers to depth 4 in the mode with two Except layers; meteor.off, factorials, closures across layers, every builtin against ten arguments; lambdas, applications, builtins, cells, throws and lifts nested two deep for the checker, whose reference guesses from num, bool, unit and num -> num, enough for this depth; transcripts of up to four lines between branches in three octaves. Slices of 4 turns, so a pause falls everywhere |
| `office` | SinkIsOwed, OfficeEnds | scores around meteor.off (missing, failing, endless, ill-typed and reordered verses), three bodies |
| `instruments` | SilentPrompt, SoundFollowsKeys, NoStuckNote, NotesSoundInFull | two voices and a queue of two. Three sets of keys: three letters and escape in the instruments (one key too many for the synth, and events get dropped), two letters, escape, return and backspace for typing, one letter for scores; MaxTyped 2, with card and without. Two fugues with and without subject and pedal on different finals |
| `user_memory` | FramesAreExclusive, RingThreeIsMapped, NeverMapsTwice | all maps of up to 11 frames with up to two gaps, two heap pages, a ring of 3 frames looked for in 6, two levels of tables: memory ends at every single request, and the search meets a gap at every position; three retries |
| `parser` | ReadsBack, LayoutIsInert, AcceptsOnlyPrograms | expressions two levels deep (every production inside every other), bodies with branches in branches, pairs of fugues; all strings of five tokens behind a header; all descents of eight levels by lambda, parenthesis and minus under a limit of 7, so it is crossed in every mixture; sung verses of eight lines, all schemes of three labels for the branching one, of two for the plain |
| `console` | TypeOK, LockIsSafe, ShowsTheEnd | a screen of 3 by 2, messages of up to four characters with line breaks, backspaces and carriage returns, eight characters between two clears: it wraps and scrolls twice and in the middle of a message, and a handler can print in every gap |

`parser` has no deadlock check because a text is parsed once, and `user_memory`
has none because a panic at boot is final.

The two violated properties are what a comment or an assertion of the kernel
says; `PROJECT.json` quotes each next to what the code does. After `SYS_EXIT`
the kernel runs with interrupts off until the executor next goes idle, and the
task queue can be filled with duplicates of one task id.

### Fairness

`AsyncKernel!Fairness`: the CPU executes (WF of the main thread), the PIT ticks
(WF), and a latched line is taken if the CPU keeps accepting interrupts, even if
it is off in between (SF per handler; the PIC holds the line). The liveness
properties are conditional on `PollsEnd`: the executor is cooperative and the
code does not prevent a task whose future is always ready from keeping the CPU,
so this cannot be assumed away silently. `Ac97Ring!Fairness`: the card plays,
the raised line is served, the handler finishes, the synth task is run
(SF; that it is woken is AsyncKernel's RefillIsTaken). `Celebrare` needs only
that the shell task continues to be polled (WF of `Proceed`); OfficeEnds says of
the verses too that each of them ends. The other modules are checked for safety
only and assume no fairness.

### Where code and comments part

Writing the model showed more places where a comment promises more than the code
does. Where a property is about such a place, its premise or its family of inputs
leaves the case out, and with the case let in TLC finds the counterexample.

| Code | Comment | What the code does |
|---|---|---|
| `officium-core/src/machine.rs:513` | lines 1-3, "No native recursion" | apply calls itself when a builtin asks for a closure to be applied, and once more for each partial application nested in it |
| `officium-core/src/machine.rs:318` | line 20, "`value` is `None` when the verse cadenced with `nihil`" | nihil returns `Err(Dissonance::Silent)` and no outcome |
| `officium-core/src/check.rs:465` | lines 4-5, "mirroring the machine's semantics exactly" | a verse that reads the cell before it writes it is accepted and may raise a type error: the cell holds unit until then |
| `officium-core/src/check.rs:396` | line 7, "the capability mask is checked statically too" | a lambda whose body lifts, called inside a lift, is accepted and ends in WrongMode |
| `officium-audio/src/transcribe.rs:49` | `degree_op.rs:4-5`, "a rendered verse transcribes back to the same operation sequence" | a plagal melody that never goes below its final is heard as authentic |
| `officium-audio/src/transcribe.rs:161` | lines 16-17, "skeletal but well-typed and runnable" | the second arm of a branch can name a binder of the first; the answer of a resolve can become the operand of cmd |
| `kernel/src/task/shell.rs:209` | lines 180-181, "the tone sounds for as long as the key is held" | the piano falls silent when the newest key is released, though an older one is down |
| `kernel/src/ac97.rs:229` | `shell.rs:219`, "every held key is a voice" | a note that found no free voice stays mute after one becomes free |
| `kernel/src/task/shell.rs:294` | lines 257-258, "Notes sound as they are played and are collected" | the repeats of a held key are collected as notes of their own |
| `kernel/src/celebrare.rs:218` | `officium-audio/src/render.rs:96`, "held under the whole exposition" | after a fugue without a subject the next pedal starts with the first; on the same final the first release cuts it short |
| `kernel/src/memory.rs:104` | line 87, "Map one fresh, zeroed 4 KiB frame" | a user page is mapped with what its frame held before |
| `officium-parse/src/parser.rs:150` | lines 2-3, "inside parentheses newlines are insignificant" | a newline before the parenthesis that closes a subject's header is an error |
| `officium-parse/src/parser.rs:474` | lines 26-27, "refuse pathological nesting politely" | prefix operators recurse without being counted |

## Proofs

Eight modules hold proofs. Each but the last, which is about pure operators, has
an inductive invariant, checked by TLC on the instance of the run before it was
proved, and the theorems that follow from it. The theorems hold for all values of the constants that satisfy the named
ASSUMEs of the component's module.

*AsyncKernelProofs.* `IInv` is TypeOK, NoLostWakeup and ParkedIsArmed
strengthened with two facts about positions inside a poll: `RecheckIsArmed`
(between registering and the re-check, the task is armed or already queued: this
is what makes Pending safe) and `IdleSafe` (with IF off and the queue seen empty,
the queue stays empty up to `hlt`). From it follow TypeCorrect,
WakeupsAreNotLost, SuspendedTasksAreArmed and HaltsOnlyWhenIdle. They hold for
all capacities, page sets and bounds. KernelImplementsScheduler is the refinement: `TaskStatus`
(a task is new, runnable, running, blocked or finished), `TaskDue` (an event it waits for has
happened) and `Cpu` map the kernel's state to that of `Scheduler`. `IInv` does
not say which tasks exist, so `Live` is added: a polled task is in the map, and
after the spawns a task is missing from the map only if it is done. The proof has
one step per action. Most steps of a poll are stutters; a handler is one step of
the scheduler for all the tasks it wakes; a task may block only in the re-check,
and RecheckIsArmed says that nothing is due to it then; the step to `hlt` needs
IdleSafe and NoLostWakeup together.

*Ac97RingProofs.* The invariant couples the modular distance from NEXT_DONE to
CIV with the history count `lag`, and LVI with the positions the card can have
reached since CIV was read; without the bound on `Burst` a full turn would be
indistinguishable from none. RingTypeCorrect, CompletionsAreCounted and
RefillsAreNotLost hold for every ring size and page count that divides it. For
QuietRingIsUpToDate, `QuietInv` says at each position of handle_irq what a clear
BCIS means there: before the status is acknowledged, that there is nothing to
count; between the read of CIV and the end, that CIV has not moved. Acknowledging
after the read would falsify the second part.

*MachineProofs.* DepthIsLifts and LayersMatch are not inductive by themselves.
`StackInv` says of the whole stack that the k-th LiftK frame saved the depth k-1
and that each frame's layer exists in the tower and is of its kind; the tower
keeps the kinds of the mode whatever pone and mitte put into it. Pushing, popping
and cutting the stack preserve this (lemmas PushFrame, PushLift, PopFrame,
CutStack); for unwind, CatchStack shows that the lowest LiftK it pops saved the
number of lifts below the handler. `DriverInv` adds that a machine that yielded
is not inside apply. TypeCorrect, DepthCountsLifts and FramesFindTheirLayers hold
for all verses whose mode is one of the eight (VersesAssumption), all arguments,
environments and fuel. CatchStack is proved for any tower. With the eight towers
of `Mode::tower` no LiftK ever lies between a clama and the handler of its own
layer (each lift moves clama to a layer below that of the handlers outside), so
the assignment `m.depth = depth` in `unwind` is covered by the proof and
exercised by no run.
CommitsAreConsecrated needs that a PerageK frame on the stack is backed by a
Commit layer in the tower, which only Mixolydian has (CommitLayer), and that no
other way to end a verse can be taken for a commit: EvalEnds, ValueEnds and
ApplyEnds go through them, and CallFails shows of every builtin that what it
fails with is a dissonance.
VersesRunDown is the termination argument as an action property: `TurnsLeft`
counts the slices that are left, the fuel in this one and the yields in between;
every step lowers it, except for the calls of apply within a turn, which use no
fuel. Their number is that of the partial applications of solve nested in each
other, which the code does not bound either.

*CelebrareProofs.* The office restarts the machine for each verse, so the
machine's invariant is proved again for `Begin` (BeginInv) and kept by every turn
(InvStep and CommitStep of MachineProofs are lemmas of a step and not only of
`Spec`). `OfficeInv` adds that nothing is sung of a refused score and that all
bodies sunk or given up lie strictly before the one that is celebrated: this is
why a body is never sunk twice, nor sunk and given up. `SingInv` ties the mode of
the verse on the machine to the executio of the score. OnlyConsecratedPlansAreSunk
is the first conjunct of the property SinkIsOwed. SinkReceivesWhatIsOwed is the
whole of it, with one hypothesis, `SungAsMeant`: a verse that ends without running
out of fuel has the result `Means` says. The proof needs nothing else of
`Means`, so it separates what the driver must get right (which value of which
verse goes where, for which body, and what happens after a failure) from what the
machine must; of the machine the run `officium` checks the hypothesis as
AgreesWithReference (added to the invariants of `Celebrare.cfg`, SungAsMeant holds
on the scores of the office as well), and it is not an empty one, since any
meaning the machine agrees with will do. `OwedInv` says that the bodies behind the celebrated one are
settled and that the verse on the machine is sung to exactly what the verses
before it mean for this body. OfficeRunsDown extends `TurnsLeft` to the office:
three verses for each body still to come, each with the fuel of all its slices.
It is what OfficeEnds says without the fairness, for every score.

*InstrumentsProofs.* `IInv` is TypeOK, SoundFollowsKeys and two facts.
`SourceInv` says which of speaker and synth may sound in each mode, which is what
makes leaving an instrument (which silences only what that instrument used) leave
silence. `FingerInv` looks into the queue: for every key the instrument holds to
be down, and for every press still in the queue, the release is still to come,
namely the key is down, or its release lies further back in the queue, or it was
dropped. NoStuckNote alone is not inductive, because a press in the queue whose
release had already been read would turn into a stuck note. PromptIsSilent,
SoundIsUnderTheFingers and NoNoteGetsStuck hold for every keyboard, queue size,
number of voices and command table.
PlayableScoresSoundInFull has a hypothesis: every score is `Playable`, that is,
no two notes of one pitch overlap and no more notes are due at once than there
are voices. The player of celebrare.rs does not look for either (see the table
above), and without it the claim is false. TLC evaluates it for the rendered
scores of the run (`ScoresArePlayable`). `ScoreInv` says that between any two
iterations of the player's loops the synth plays exactly the notes that have been
struck and not yet released; that a free voice is found is a pigeonhole argument
on the cardinality of the notes that sound.

*UserMemoryProofs.* Exclusivity is not inductive because the frames
alloc_contiguous collects have no use yet. `FrameInv` says that each used frame is
among the first `Settled` ones the allocator gave out, where the block being
collected is not counted, and `BlockInv` that this block is the last `have`
frames given out, and contiguous. `MadeInv` orders what boot makes. `UserInv`
follows ensure_mapped across its failures: refused implies that the allocator is
exhausted, which gives RetriesMapNothingTwice. The memory map may be any sequence
of distinct frames (UserMemoryAssumption, the bootloader's promise).

*ConsoleProofs.* `LockInv` says that who holds the lock is writing, that a task
past without_interrupts runs with interrupts off, and that a handler found them
off; it gives PrintsDoNotDeadlock. `TextOK` says that what is still to be
written consists of characters that put_char can be given. ConsoleTypeCorrect goes through put_char
case by case (DrawnType, NewlineType, PutCharType): the column may be WIDTH
between two characters, but nothing is drawn there. ConsoleAssumption types the
messages as sequences of characters, none of which clears the screen.
ScreenShowsTheEnd relates two programs: put_char with a cursor and scrolling, and
the sheet, which never scrolls. `Shows` says that the grid is the end of a sheet
and the cursor at its last line; NewlineShows, StruckShows and PutCharShows keep
it for one character. `ShowInv` says that the screen shows the sheet of the text
without what the holder of the lock has still to write (`Behind`). `Sheets` is a
recursive function along a text of any length: that it exists and unfolds
(SheetsExist, SheetsUnfold), and that its beginning does not depend on what is
printed later (SheetsPrefix), is shown with a least counterexample, since the
natural numbers are well founded.

*DegreeOpProofs.* For MelodiesAreHeardBack, Offsets shows of
each mode that no two degrees share a pitch and that only the upper three of a
plagal mode lie below the final; FinalsDiffer that the final is found in any
octave; DegreesReadBack that the two directions of the table are inverse.
`HeardBack` has no premise about plagal modes: it also says what is heard instead
when the mode does not show (the case in the table above).

### What is only model-checked

- Liveness: KeyIsRead, SleepEnds, StrandedBytesDrained, RefillIsTaken,
  DmaRestarts, PagesAreRefilled, OfficeEnds. The provers do not handle fairness
  and ENABLED.
- Agreement with a reference that recurses over expressions, lines or tokens:
  AgreesWithReference, AcceptedVersesStayInTune, RefusesOnlyIllTyped, RhymesAgree,
  RenderReadsBack, PlainSkeletonsRun, ReadsBack, LayoutIsInert,
  AcceptsOnlyPrograms. `Checker`, `Parser`, `Cantus` and their references are
  RECURSIVE operators, about which the prover can say nothing; a recursive
  function along a sequence (`Sheets`) it can handle. Of RenderReadsBack,
  MelodiesAreHeardBack is the half that does not recurse.
- The two violated properties, which are counterexamples.

## What is left open

- SungAsMeant for every verse. It would need the machine's stack related to the
  recursion of the reference, and the reference as a function on expressions of a
  given depth.
- That the calls of apply within a turn come to an end, which is an induction over
  how deep partial applications are nested; with it VersesRunDown would bound all
  steps.
- The liveness of the kernel and of the ring beyond the checked instances.

## Not modelled

- How the lexer cuts characters into numbers, strings and identifiers, and f64
  arithmetic: values are opaque.
- The waveforms of `synthesize`, and the register sequence that resets the card
  and the codec: arithmetic on samples, port I/O.
- The exception handlers, which print and halt; the descriptor tables of
  `gdt.rs` and the page table walk above frame granularity, which are constants.
- Decoding of scancodes (`pc_keyboard`), the heap (`linked_list_allocator`),
  `AtomicWaker` and `ArrayQueue`: external crates, modelled by what they promise.
- Glyphs, pixels and colours; wording of messages; PCI configuration space.
- The host driver, which mirrors celebrare without the slice limit, and the QEMU
  runner, which keeps no state.
