---------------------------- MODULE UserMemory -----------------------------
(***************************************************************************)
(* Physical frames: the boot-time allocator (kernel/src/memory.rs), what   *)
(* boot takes from it for the heap (allocator.rs) and for the sound ring   *)
(* (ac97.rs), and the pages of the ring 3 process, which are mapped when   *)
(* the userspace command first runs (usermode.rs).  A frame is a number,   *)
(* the address divided by 4096.  Nothing is ever freed.                    *)
(***************************************************************************)
EXTENDS Integers, Sequences

CONSTANTS
    MemoryMaps,  \* what usable_frames may yield: frames in order; regions leave gaps
    HEAP_PAGES,  \* HEAP_SIZE / 4096 (25)
    RING_FRAMES, \* 1 + BUFFERS (5)
    MAX_TRIES,   \* frames alloc_contiguous looks at (4096)
    LEVELS,      \* page tables below the level 4 table that a page needs (3)
    Retries      \* bound: attempts to map the user pages once memory has run out

ASSUME UserMemoryAssumption ==
    /\ MemoryMaps \subseteq Seq(Nat)
    /\ \A m \in MemoryMaps : \A i, j \in DOMAIN m : m[i] = m[j] => i = j
    /\ HEAP_PAGES \in Nat \ {0} /\ RING_FRAMES \in Nat \ {0}
    /\ MAX_TRIES \in Nat /\ LEVELS \in Nat /\ Retries \in Nat

\* What a frame can be used for.
Heap(i) == [kind |-> "page", of |-> "heap", n |-> i]
Code == [kind |-> "page", of |-> "user", n |-> 1]
Stack == [kind |-> "page", of |-> "user", n |-> 2]
Table(region, level) == [kind |-> "table", of |-> region, n |-> level]
Ring(i) == [kind |-> "dma", of |-> "ring", n |-> i]
Use == [kind : {"page", "table", "dma"}, of : {"heap", "user", "ring"}, n : Nat]

NoFrame == -1

Payload == <<"SYS_SAY", "SYS_NOW", "SYS_COMMIT", "SYS_EXIT">>

VARIABLES
    Usable,   \* usable_frames
    pc,       \* how far boot, or the userspace command, has come
    next,     \* frames the allocator was asked for
    fresh,    \* the frame taken for the page that is being mapped
    uses,     \* the frame behind every page, page table and ring page
    levels,   \* how many of a region's page tables exist; the bootloader made some
    page,     \* init_heap: heap pages mapped
    start, have, tries,  \* alloc_contiguous
    MAPPED,
    step,     \* the instruction the layman's program has reached
    refused   \* history: userspace failed to map its pages

boot == <<Usable, page, start, have, tries>>
vars == <<pc, next, fresh, uses, levels, boot, MAPPED, step, refused>>

TypeOK ==
    /\ Usable \in Seq(Nat)
    /\ pc \in {"heap", "ring", "shell", "code", "stack", "copy", "user", "panic"}
    /\ next \in Nat /\ fresh \in Nat \cup {NoFrame}
    /\ DOMAIN uses \subseteq Use /\ \A u \in DOMAIN uses : uses[u] \in Nat
    /\ levels \in [{"heap", "user"} -> 0..LEVELS]
    /\ page \in 0..HEAP_PAGES
    /\ have \in 0..RING_FRAMES /\ tries \in 0..MAX_TRIES /\ start \in Nat
    /\ MAPPED \in BOOLEAN /\ refused \in BOOLEAN
    /\ step \in 1..Len(Payload)

Init ==
    /\ Usable \in MemoryMaps
    /\ pc = "heap" /\ next = 0 /\ fresh = NoFrame
    /\ uses = <<>> /\ levels \in [{"heap", "user"} -> 0..LEVELS]
    /\ page = 0 /\ start = 0 /\ have = 0 /\ tries = 0
    /\ MAPPED = FALSE /\ step = 1 /\ refused = FALSE

----------------------------------------------------------------------------
(* Mapping a page: map_to, and the frame its caller allocated before.      *)

\* allocate_frame counts the frames it was asked for, and has the first of them.
HasFrame == next < Len(Usable)
Frame == Usable[next + 1]
Advanced == next + 1

Extend(f, u, frame) == [x \in DOMAIN f \cup {u} |-> IF x = u THEN frame ELSE f[x]]

Region == IF pc = "heap" THEN "heap" ELSE "user"
Target == CASE pc = "heap" -> Heap(page + 1) [] pc = "code" -> Code [] pc = "stack" -> Stack
Mapping == pc \in {"heap", "code", "stack"}
Complete == levels[Region] = LEVELS

\* A mapping fails: boot panics, the userspace command gives up.  The frame
\* and the page tables it took are not given back.
Fail ==
    /\ fresh' = NoFrame
    /\ IF pc = "heap" THEN pc' = "panic" /\ UNCHANGED refused
       ELSE pc' = "shell" /\ refused' = TRUE

TakeFrame ==
    /\ Mapping /\ fresh = NoFrame /\ HasFrame
    /\ fresh' = Frame /\ next' = Advanced
    /\ UNCHANGED <<pc, uses, levels, boot, MAPPED, step, refused>>

\* The mapper creates the region's missing page tables, top down, each in a
\* frame of its own.
MakeTable ==
    /\ Mapping /\ fresh # NoFrame /\ ~Complete /\ HasFrame
    /\ levels' = [levels EXCEPT ![Region] = @ + 1]
    /\ uses' = Extend(uses, Table(Region, levels[Region] + 1), Frame)
    /\ next' = Advanced
    /\ UNCHANGED <<pc, fresh, boot, MAPPED, step, refused>>

OutOfFrames ==
    /\ Mapping /\ (fresh = NoFrame \/ ~Complete) /\ ~HasFrame
    /\ next' = Advanced
    /\ Fail
    /\ UNCHANGED <<uses, levels, boot, MAPPED, step>>

\* Mutant: MAPPED is never set.
MarksNever == FALSE
\* Mutant: MAPPED is set as soon as the code page is there.
MarksEarly == pc = "code"
Marks == pc = "stack"

\* The entry is written, unless there is one.  init_heap goes on to the next
\* page, ensure_mapped from the code to the stack page and then sets MAPPED.
MapPage ==
    /\ Mapping /\ fresh # NoFrame /\ Complete
    /\ IF Target \in DOMAIN uses THEN Fail /\ UNCHANGED <<uses, page, MAPPED>>
       ELSE /\ uses' = Extend(uses, Target, fresh)
            /\ fresh' = NoFrame
            /\ page' = IF pc = "heap" THEN page + 1 ELSE page
            /\ pc' = CASE pc = "heap" -> IF page + 1 = HEAP_PAGES THEN "ring" ELSE "heap"
                       [] pc = "code" -> "stack"
                       [] pc = "stack" -> "copy"
            /\ MAPPED' = (MAPPED \/ Marks)
            /\ UNCHANGED refused
    /\ UNCHANGED <<Usable, next, levels, start, have, tries, step>>

----------------------------------------------------------------------------
(* ac97::init: the ring's frames have to be contiguous.                    *)

\* No card on the bus, or its registers or its interrupt line are unusable.
NoCard ==
    /\ pc = "ring" /\ tries = 0
    /\ pc' = "shell"
    /\ UNCHANGED <<next, fresh, uses, levels, boot, MAPPED, step, refused>>

\* Mutant: a gap starts a new block without forgetting the length of the old.
BlockAfterKept(frame) == IF have # 0 /\ frame = start + have THEN <<start, have + 1>> ELSE <<frame, have + 1>>
\* The block that ends with this frame: it grows, or a gap starts a new one.
BlockAfter(frame) == IF have # 0 /\ frame = start + have THEN <<start, have + 1>> ELSE <<frame, 1>>

\* One iteration of alloc_contiguous.  A block that is complete becomes the
\* descriptor list and the buffers of the ring.
Contiguous ==
    /\ pc = "ring" /\ tries < MAX_TRIES /\ HasFrame
    /\ next' = Advanced /\ tries' = tries + 1
    /\ start' = BlockAfter(Frame)[1] /\ have' = BlockAfter(Frame)[2]
    /\ IF have' = RING_FRAMES
       THEN /\ pc' = "shell"
            /\ uses' = [u \in DOMAIN uses \cup {Ring(i) : i \in 0..(RING_FRAMES - 1)} |->
                          IF u.kind = "dma" THEN start' + u.n ELSE uses[u]]
       ELSE UNCHANGED <<pc, uses>>
    /\ UNCHANGED <<Usable, fresh, levels, page, MAPPED, step, refused>>

NoContiguous ==
    /\ pc = "ring" /\ (tries = MAX_TRIES \/ ~HasFrame)
    /\ next' = IF tries = MAX_TRIES THEN next ELSE Advanced
    /\ pc' = "shell"
    /\ UNCHANGED <<fresh, uses, levels, boot, MAPPED, step, refused>>

----------------------------------------------------------------------------
(* usermode::run and the gate.                                             *)

Run ==
    /\ pc = "shell"
    /\ next < Len(Usable) + Retries \/ MAPPED
    /\ pc' = IF MAPPED THEN "copy" ELSE "code"
    /\ UNCHANGED <<next, fresh, uses, levels, boot, MAPPED, step, refused>>

\* The payload is copied into the code page, and enter_user drops to ring 3.
EnterUser ==
    /\ pc = "copy"
    /\ pc' = "user" /\ step' = 1
    /\ UNCHANGED <<next, fresh, uses, levels, boot, MAPPED, refused>>

AfterCall(call) ==
    \/ call = "SYS_EXIT" /\ pc' = "shell" /\ UNCHANGED step
    \/ call # "SYS_EXIT" /\ step' = step + 1 /\ UNCHANGED pc

\* int 0x80: the next call of the layman's program; exit returns to run.
Syscall ==
    /\ pc = "user"
    /\ AfterCall(Payload[step])
    /\ UNCHANGED <<next, fresh, uses, levels, boot, MAPPED, refused>>

----------------------------------------------------------------------------
Map == TakeFrame \/ MakeTable \/ OutOfFrames \/ MapPage
Next == Map \/ NoCard \/ Contiguous \/ NoContiguous \/ Run \/ EnterUser \/ Syscall

Spec == Init /\ [][Next]_vars

----------------------------------------------------------------------------
(* Properties.                                                             *)

\* No frame has two uses, whatever gaps the memory map has and wherever the
\* frames run out: heap, page tables, ring buffers and user pages never
\* overlap, and all of them are usable memory.
FramesAreExclusive ==
    /\ \A u, v \in DOMAIN uses : uses[u] = uses[v] => u = v
    /\ \A u \in DOMAIN uses : \E i \in DOMAIN Usable : uses[u] = Usable[i]

\* The kernel copies the payload and drops to ring 3 only with both pages
\* mapped, also when an earlier attempt failed half-way.
RingThreeIsMapped ==
    (pc \in {"copy", "user"} \/ MAPPED) => Code \in DOMAIN uses /\ Stack \in DOMAIN uses

\* A failed ensure_mapped leaves nothing a retry could trip over: the only
\* failure is the end of memory, which is final, so that map_to never meets a
\* page that is already mapped and userspace, once refused, stays refused.
NeverMapsTwice ==
    /\ Mapping /\ fresh # NoFrame => Target \notin DOMAIN uses
    /\ refused => ~MAPPED /\ pc \notin {"copy", "user"}

=============================================================================
