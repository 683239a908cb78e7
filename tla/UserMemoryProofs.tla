-------------------------- MODULE UserMemoryProofs --------------------------
(***************************************************************************)
(* Proofs about UserMemory for every memory map, heap and ring size, and   *)
(* wherever the frames run out.                                            *)
(***************************************************************************)
EXTENDS UserMemory, TLAPS

----------------------------------------------------------------------------
(* The inductive invariant.                                                *)

\* The frame is one of the first n usable ones.
Among(f, n) == \E i \in DOMAIN Usable : i <= n /\ f = Usable[i]

\* How many of the frames the allocator gave out may be in use: the block that
\* alloc_contiguous is collecting is not, before it is complete.
Settled == IF pc = "ring" THEN next - have ELSE next

\* Every frame is used once, and what is behind a use was given out before.
FrameInv ==
    /\ Usable \in MemoryMaps
    /\ \A u \in DOMAIN uses : Among(uses[u], Settled)
    /\ \A u, v \in DOMAIN uses : uses[u] = uses[v] => u = v
    /\ fresh # NoFrame => Mapping /\ Among(fresh, next) /\ \A u \in DOMAIN uses : uses[u] # fresh

\* What init_heap, the mapper and ac97::init have made so far.
MadeInv ==
    /\ \A u \in DOMAIN uses :
         /\ u.kind = "page" /\ u.of = "heap" => u.n <= page
         /\ u.kind = "table" => u.of \in {"heap", "user"} /\ u.n <= levels[u.of]
         /\ u.kind = "dma" => pc \notin {"heap", "ring"}
    /\ pc = "heap" => page < HEAP_PAGES /\ have = 0
    /\ pc \in {"heap", "ring"} => next <= Len(Usable)

\* alloc_contiguous: the block is the last `have` frames that were given out.
BlockInv ==
    pc = "ring" =>
      /\ have < RING_FRAMES /\ have <= next
      /\ \A k \in 0..(have - 1) : start + k = Usable[next - have + 1 + k]

\* ensure_mapped: its two pages, MAPPED, and a failure, which only the end of
\* memory brings about.
UserInv ==
    /\ Stack \in DOMAIN uses => MAPPED
    /\ Code \in DOMAIN uses => MAPPED \/ pc = "stack" \/ refused
    /\ MAPPED => /\ Code \in DOMAIN uses /\ Stack \in DOMAIN uses
                 /\ ~refused /\ pc \in {"shell", "copy", "user"}
    /\ pc = "stack" => Code \in DOMAIN uses
    /\ pc \in {"copy", "user"} => MAPPED
    /\ refused => next >= Len(Usable) /\ pc \in {"shell", "code"} /\ fresh = NoFrame

IInv == TypeOK /\ FrameInv /\ MadeInv /\ BlockInv /\ UserInv

LEMMA IInvInit == Init => IInv
<1> SUFFICES ASSUME Init PROVE IInv
  OBVIOUS
<1>0. DOMAIN uses = {}
  BY DEF Init
<1>1. Usable \in Seq(Nat)
  BY UserMemoryAssumption DEF Init
<1>2. TypeOK
  <2>1. 0 \in 0..HEAP_PAGES /\ 0 \in 0..RING_FRAMES /\ 0 \in 0..MAX_TRIES /\ 0 \in Nat
    BY UserMemoryAssumption
  <2>2. 1 \in 1..Len(Payload)
    BY DEF Payload
  <2> QED
    BY <1>0, <1>1, <2>1, <2>2, Zenon DEF Init, TypeOK
<1>3. FrameInv
  BY <1>0 DEF Init, FrameInv
<1>4. MadeInv /\ BlockInv
  BY <1>0, <1>1, UserMemoryAssumption DEF Init, MadeInv, BlockInv
<1>5. UserInv
  BY <1>0 DEF Init, UserInv
<1> QED
  BY <1>2, <1>3, <1>4, <1>5 DEF IInv

----------------------------------------------------------------------------
(* The allocator.                                                          *)

\* The memory map is a sequence of distinct frames.
LEMMA UsableType ==
    ASSUME IInv
    PROVE  /\ Usable \in Seq(Nat) /\ Len(Usable) \in Nat /\ DOMAIN Usable = 1..Len(Usable)
           /\ \A i \in DOMAIN Usable : Usable[i] \in Nat
           /\ \A i, j \in DOMAIN Usable : Usable[i] = Usable[j] => i = j
           /\ next \in Nat
BY UserMemoryAssumption DEF IInv, FrameInv, TypeOK

\* What is among the first frames stays among more of them.
LEMMA AmongMore ==
    ASSUME IInv, NEW f, NEW m \in Int, NEW n \in Int, m <= n, Among(f, m)
    PROVE  Among(f, n)
BY UsableType DEF Among

\* allocate_frame gives out a frame it has not given out before.
LEMMA NewFrame ==
    ASSUME IInv, HasFrame
    PROVE  /\ Frame \in Nat /\ Frame # NoFrame
           /\ Among(Frame, next + 1)
           /\ \A f : Among(f, next) => f # Frame
<1>1. next + 1 \in DOMAIN Usable
  BY UsableType DEF HasFrame
<1>2. Frame \in Nat /\ Among(Frame, next + 1)
  BY <1>1, UsableType DEF Frame, Among
<1>3. ASSUME NEW f, Among(f, next) PROVE f # Frame
  <2>1. PICK i \in DOMAIN Usable : i <= next /\ f = Usable[i]
    BY <1>3 DEF Among
  <2>2. i # next + 1
    BY <2>1, UsableType
  <2> QED
    BY <1>1, <2>1, <2>2, UsableType DEF Frame
<1>4. Frame # NoFrame
  BY <1>2 DEF NoFrame
<1> QED
  BY <1>2, <1>3, <1>4

\* Outside of alloc_contiguous all frames that were given out may be in use.
LEMMA SettledMapping == ASSUME Mapping PROVE Settled = next /\ pc # "ring"
BY DEF Mapping, Settled

----------------------------------------------------------------------------
(* Mapping a page.                                                         *)

LEMMA IInvTakeFrame == ASSUME IInv, TakeFrame PROVE IInv'
<1>0. /\ Mapping /\ fresh = NoFrame /\ HasFrame /\ fresh' = Frame /\ next' = next + 1
      /\ UNCHANGED <<pc, uses, levels, Usable, page, start, have, tries, MAPPED, step, refused>>
  BY DEF TakeFrame, Advanced, boot
<1>1. TypeOK'
  BY <1>0, NewFrame DEF IInv, TypeOK
<1>2. FrameInv'
  <2>1. ASSUME NEW u \in DOMAIN uses PROVE Among(uses[u], next) /\ Among(uses[u], next + 1)
    BY <1>0, SettledMapping, AmongMore, UsableType DEF IInv, FrameInv
  <2>2. Mapping' /\ Settled' = next + 1
    BY <1>0 DEF Mapping, Settled
  <2>3. Among(fresh, next)' /\ \A u \in DOMAIN uses : uses[u] # Frame
    BY <1>0, <2>1, NewFrame DEF Among
  <2>4. \A u \in DOMAIN uses : Among(uses[u], Settled)'
    BY <1>0, <2>1, <2>2 DEF Among
  <2> QED
    BY <1>0, <2>2, <2>3, <2>4 DEF IInv, FrameInv
<1>3. MadeInv' /\ BlockInv'
  BY <1>0, SettledMapping, UsableType DEF IInv, MadeInv, BlockInv, HasFrame
<1>4. UserInv'
  BY <1>0, UsableType DEF IInv, UserInv, HasFrame
<1> QED
  BY <1>1, <1>2, <1>3, <1>4 DEF IInv

LEMMA IInvMakeTable == ASSUME IInv, MakeTable PROVE IInv'
<1> DEFINE t == Table(Region, levels[Region] + 1)
<1>0. /\ Mapping /\ fresh # NoFrame /\ HasFrame /\ next' = next + 1
      /\ levels[Region] # LEVELS /\ levels' = [levels EXCEPT ![Region] = @ + 1]
      /\ uses' = Extend(uses, t, Frame)
      /\ UNCHANGED <<pc, fresh, Usable, page, start, have, tries, MAPPED, step, refused>>
  BY DEF MakeTable, Advanced, boot, Complete
<1>1. /\ Region \in {"heap", "user"} /\ levels[Region] \in Nat
      /\ levels[Region] + 1 \in 0..LEVELS
  BY <1>0, UserMemoryAssumption DEF IInv, TypeOK, Region
<1>2. /\ t \in Use /\ t.kind = "table" /\ t.of = Region /\ t.n = levels[Region] + 1
      /\ t # Code /\ t # Stack
  BY <1>1 DEF Table, Use, Code, Stack
<1>3. t \notin DOMAIN uses
  BY <1>1, <1>2 DEF IInv, MadeInv
<1>4. /\ DOMAIN uses' = DOMAIN uses \cup {t}
      /\ uses'[t] = Frame
      /\ \A u \in DOMAIN uses : uses'[u] = uses[u]
  BY <1>0, <1>3 DEF Extend
<1>5. TypeOK'
  <2>1. levels' \in [{"heap", "user"} -> 0..LEVELS]
    BY <1>0, <1>1 DEF IInv, TypeOK
  <2>2. DOMAIN uses' \subseteq Use /\ \A u \in DOMAIN uses' : uses'[u] \in Nat
    BY <1>0, <1>2, <1>4, NewFrame DEF IInv, TypeOK
  <2>3. next' \in Nat
    BY <1>0, UsableType
  <2> QED
    BY <1>0, <2>1, <2>2, <2>3 DEF IInv, TypeOK
<1>6. FrameInv'
  <2>1. ASSUME NEW u \in DOMAIN uses PROVE Among(uses[u], next) /\ Among(uses[u], next + 1)
    BY <1>0, SettledMapping, AmongMore, UsableType DEF IInv, FrameInv
  <2>2. Mapping' /\ Settled' = next + 1
    BY <1>0 DEF Mapping, Settled
  <2>3. \A u \in DOMAIN uses : uses[u] # Frame
    BY <1>0, <2>1, NewFrame
  <2>4. \A u \in DOMAIN uses' : Among(uses[u], Settled)'
    BY <1>0, <1>4, <2>1, <2>2, NewFrame DEF Among
  <2>5. \A u, v \in DOMAIN uses' : uses'[u] = uses'[v] => u = v
    BY <1>4, <2>3 DEF IInv, FrameInv
  <2>6. Among(fresh, next) /\ Among(fresh, next + 1)
    BY <1>0, AmongMore, UsableType DEF IInv, FrameInv
  <2>7. fresh # Frame
    BY <1>0, <2>6, NewFrame
  <2>8. \A u \in DOMAIN uses' : uses'[u] # fresh
    BY <1>0, <1>4, <2>7 DEF IInv, FrameInv
  <2>9. Among(fresh, next)'
    BY <1>0, <2>6 DEF Among
  <2> QED
    BY <1>0, <2>2, <2>4, <2>5, <2>8, <2>9 DEF IInv, FrameInv
<1>7. MadeInv'
  <2>1. ASSUME NEW u \in DOMAIN uses, u.kind = "table"
        PROVE  u.of \in {"heap", "user"} /\ u.n <= levels'[u.of]
    <3>1. u.of \in {"heap", "user"} /\ u.n <= levels[u.of] /\ u.n \in Nat
      BY <2>1 DEF IInv, MadeInv, TypeOK, Use
    <3>2. levels[u.of] <= levels'[u.of] /\ levels[u.of] \in Nat /\ levels'[u.of] \in Nat
      BY <1>0, <1>1, <3>1 DEF IInv, TypeOK
    <3> QED
      BY <3>1, <3>2
  <2>2. t.n <= levels'[t.of]
    BY <1>0, <1>1, <1>2 DEF IInv, TypeOK
  <2> QED
    BY <1>0, <1>1, <1>2, <1>4, <2>1, <2>2, UsableType DEF IInv, MadeInv, HasFrame
<1>8. BlockInv'
  BY <1>0, SettledMapping DEF BlockInv
<1>9. UserInv'
  BY <1>0, <1>2, <1>4, UsableType DEF IInv, UserInv, HasFrame
<1> QED
  BY <1>5, <1>6, <1>7, <1>8, <1>9 DEF IInv

\* The end of memory is final.
LEMMA IInvOutOfFrames == ASSUME IInv, OutOfFrames PROVE IInv'
<1>0. /\ Mapping /\ ~HasFrame /\ next' = next + 1 /\ Fail /\ fresh' = NoFrame
      /\ UNCHANGED <<uses, levels, Usable, page, start, have, tries, MAPPED, step>>
  BY DEF OutOfFrames, Advanced, boot, Fail
<1>1. pc' \in {"panic", "shell"} /\ (pc' = "shell" => refused' = TRUE /\ pc # "heap")
      /\ (pc' = "panic" => refused' = refused /\ pc = "heap")
  BY <1>0 DEF Fail
<1>2. TypeOK'
  <2>1. next' \in Nat
    BY <1>0, UsableType
  <2>0. refused' \in BOOLEAN
    BY <1>0, <1>1, Zenon DEF IInv, TypeOK
  <2>2. fresh' \in Nat \cup {NoFrame}
    BY <1>0
  <2>3. pc' \in {"heap", "ring", "shell", "code", "stack", "copy", "user", "panic"}
    BY <1>1
  <2> QED
    BY <1>0, <2>1, <2>0, <2>2, <2>3 DEF IInv, TypeOK
<1>3. FrameInv'
  <2>1. ASSUME NEW u \in DOMAIN uses PROVE Among(uses[u], next + 1)
    BY <1>0, SettledMapping, AmongMore, UsableType DEF IInv, FrameInv
  <2>2. Settled' = next + 1
    BY <1>0, <1>1 DEF Settled
  <2>3. \A u \in DOMAIN uses : Among(uses[u], Settled)'
    BY <1>0, <2>1, <2>2 DEF Among
  <2> QED
    BY <1>0, <2>3 DEF IInv, FrameInv
<1>4. MadeInv' /\ BlockInv'
  BY <1>0, <1>1 DEF IInv, MadeInv, BlockInv
<1>5. UserInv'
  BY <1>0, <1>1, UsableType DEF IInv, UserInv, HasFrame, Mapping
<1> QED
  BY <1>2, <1>3, <1>4, <1>5 DEF IInv

\* map_to never finds the page mapped already.
LEMMA TargetIsNew ==
    ASSUME IInv, Mapping, fresh # NoFrame
    PROVE  /\ Target \in Use /\ Target.kind = "page" /\ Target \notin DOMAIN uses
           /\ pc = "heap" => Target.of = "heap" /\ Target.n = page + 1
           /\ pc # "heap" => Target.of = "user"
           /\ pc = "code" <=> Target = Code
           /\ pc = "stack" <=> Target = Stack
<1>1. CASE pc = "heap"
  <2>1. Target = Heap(page + 1) /\ page \in Nat
    BY <1>1 DEF Target, IInv, TypeOK
  <2>2. /\ Target \in Use /\ Target.kind = "page" /\ Target.of = "heap" /\ Target.n = page + 1
        /\ Target # Code /\ Target # Stack
    BY <2>1 DEF Heap, Use, Code, Stack
  <2>3. Target \notin DOMAIN uses
    BY <2>1, <2>2 DEF IInv, MadeInv
  <2> QED
    BY <1>1, <2>2, <2>3
<1>2. CASE pc = "code"
  BY <1>2 DEF Target, Code, Stack, Use, IInv, UserInv
<1>3. CASE pc = "stack"
  BY <1>3 DEF Target, Code, Stack, Use, IInv, UserInv
<1> QED
  BY <1>1, <1>2, <1>3 DEF Mapping

LEMMA IInvMapPage == ASSUME IInv, MapPage PROVE IInv'
<1>0. /\ Mapping /\ fresh # NoFrame /\ Target \notin DOMAIN uses
      /\ uses' = Extend(uses, Target, fresh) /\ fresh' = NoFrame
      /\ page' = IF pc = "heap" THEN page + 1 ELSE page
      /\ pc' = CASE pc = "heap" -> IF page + 1 = HEAP_PAGES THEN "ring" ELSE "heap"
                  [] pc = "code" -> "stack"
                  [] pc = "stack" -> "copy"
      /\ MAPPED' = (MAPPED \/ pc = "stack")
      /\ UNCHANGED <<Usable, next, levels, start, have, tries, step, refused>>
  BY TargetIsNew DEF MapPage, Marks
<1>1. /\ DOMAIN uses' = DOMAIN uses \cup {Target}
      /\ uses'[Target] = fresh
      /\ \A u \in DOMAIN uses : uses'[u] = uses[u]
  BY <1>0 DEF Extend
<1>2. /\ page \in 0..HEAP_PAGES /\ page' \in 0..HEAP_PAGES /\ page <= page'
      /\ pc = "heap" => page' = page + 1 /\ page < HEAP_PAGES /\ have = 0
                         /\ pc' \in {"heap", "ring"} /\ (pc' = "heap" => page' < HEAP_PAGES)
      /\ pc = "code" => pc' = "stack"
      /\ pc = "stack" => pc' = "copy"
  BY <1>0, UserMemoryAssumption DEF IInv, TypeOK, MadeInv
<1>3. pc \in {"heap", "code", "stack"} /\ Settled = next /\ Settled' = next
  BY <1>0, <1>2, SettledMapping, UsableType DEF Mapping, Settled
<1>4. TypeOK'
  <2>1. pc' \in {"heap", "ring", "stack", "copy"}
    BY <1>2, <1>3
  <2>2. fresh \in Nat
    BY <1>0 DEF IInv, TypeOK
  <2>3. DOMAIN uses' \subseteq Use /\ \A u \in DOMAIN uses' : uses'[u] \in Nat
    BY <1>0, <1>1, <2>2, TargetIsNew DEF IInv, TypeOK
  <2> QED
    BY <1>0, <1>2, <2>1, <2>3 DEF IInv, TypeOK
<1>5. FrameInv'
  <2>1. Among(fresh, next) /\ \A u \in DOMAIN uses : uses[u] # fresh
    BY <1>0 DEF IInv, FrameInv
  <2>2. \A u \in DOMAIN uses' : Among(uses[u], Settled)'
    BY <1>0, <1>1, <1>3, <2>1 DEF IInv, FrameInv, Among
  <2>3. \A u, v \in DOMAIN uses' : uses'[u] = uses'[v] => u = v
    BY <1>1, <2>1 DEF IInv, FrameInv
  <2> QED
    BY <1>0, <2>2, <2>3 DEF IInv, FrameInv
<1>6. MadeInv'
  <2>1. \A u \in DOMAIN uses : u.n \in Nat
    BY DEF IInv, TypeOK, Use
  <2>2. ASSUME NEW u \in DOMAIN uses'
        PROVE  /\ u.kind = "page" /\ u.of = "heap" => u.n <= page'
               /\ u.kind = "table" => u.of \in {"heap", "user"} /\ u.n <= levels'[u.of]
               /\ u.kind = "dma" => pc' \notin {"heap", "ring"}
    <3>1. CASE u \in DOMAIN uses
      BY <1>0, <1>2, <1>3, <2>1, <3>1 DEF IInv, MadeInv
    <3>2. CASE u = Target
      BY <1>0, <1>2, <3>2, TargetIsNew
    <3> QED
      BY <1>1, <3>1, <3>2
  <2> QED
    BY <1>0, <1>2, <1>3, <2>2 DEF IInv, MadeInv
<1>7. BlockInv'
  BY <1>0, <1>2, <1>3, UserMemoryAssumption, UsableType DEF IInv, BlockInv
<1>8. UserInv'
  <2>1. ~refused /\ ~MAPPED
    BY <1>0, <1>3 DEF IInv, UserInv
  <2>2. (Code \in DOMAIN uses' <=> Code \in DOMAIN uses \/ pc = "code")
        /\ (Stack \in DOMAIN uses' <=> Stack \in DOMAIN uses \/ pc = "stack")
    BY <1>0, <1>1, TargetIsNew
  <2> QED
    BY <1>0, <1>2, <1>3, <2>1, <2>2 DEF IInv, UserInv
<1> QED
  BY <1>4, <1>5, <1>6, <1>7, <1>8 DEF IInv

----------------------------------------------------------------------------
(* The sound ring.                                                         *)

\* The block that ends with the next frame.
LEMMA BlockGrows ==
    ASSUME IInv, pc = "ring", HasFrame
    PROVE  LET b == BlockAfter(Frame) IN
           /\ b[1] \in Nat /\ b[2] \in 1..RING_FRAMES /\ b[2] <= have + 1
           /\ \A k \in 0..(b[2] - 1) : b[1] + k = Usable[next + 1 - b[2] + 1 + k]
<1>0. /\ next \in Nat /\ have \in Nat /\ start \in Nat /\ have < RING_FRAMES /\ have <= next
      /\ RING_FRAMES \in Nat \ {0}
      /\ \A k \in 0..(have - 1) : start + k = Usable[next - have + 1 + k]
  BY UserMemoryAssumption DEF IInv, TypeOK, BlockInv
<1>1. Frame \in Nat /\ Frame = Usable[next + 1]
  BY NewFrame DEF Frame
<1>2. CASE have # 0 /\ Frame = start + have
  <2>1. BlockAfter(Frame)[1] = start /\ BlockAfter(Frame)[2] = have + 1
    BY <1>2 DEF BlockAfter
  <2>2. ASSUME NEW k \in 0..have PROVE start + k = Usable[next + 1 - (have + 1) + 1 + k]
    <3>1. next + 1 - (have + 1) + 1 + k = next - have + 1 + k
      BY <1>0
    <3>2. CASE k = have
      <4>1. next - have + 1 + k = next + 1
        BY <1>0, <3>2
      <4> QED
        BY <1>1, <1>2, <3>1, <3>2, <4>1
    <3>3. CASE k # have
      BY <1>0, <3>1, <3>3
    <3> QED
      BY <3>2, <3>3
  <2> QED
    BY <1>0, <2>1, <2>2
<1>3. CASE ~(have # 0 /\ Frame = start + have)
  <2>1. BlockAfter(Frame)[1] = Frame /\ BlockAfter(Frame)[2] = 1
    BY <1>3 DEF BlockAfter
  <2>2. ASSUME NEW k \in 0..0 PROVE Frame + k = Usable[next + 1 - 1 + 1 + k]
    <3>1. k = 0 /\ next + 1 - 1 + 1 + k = next + 1
      BY <1>0
    <3> QED
      BY <1>1, <3>1
  <2> QED
    BY <1>0, <1>1, <2>1, <2>2
<1> QED
  BY <1>2, <1>3

\* The frames of the completed block are the last ones that were given out.
LEMMA IInvContiguous == ASSUME IInv, Contiguous PROVE IInv'
<1>0. /\ pc = "ring" /\ tries < MAX_TRIES /\ HasFrame /\ next' = next + 1 /\ tries' = tries + 1
      /\ start' = BlockAfter(Frame)[1] /\ have' = BlockAfter(Frame)[2]
      /\ UNCHANGED <<Usable, fresh, levels, page, MAPPED, step, refused>>
  BY DEF Contiguous, Advanced
<1>a. start' \in Nat /\ have' \in 1..RING_FRAMES /\ have' <= have + 1
  BY <1>0, BlockGrows
<1>b. PICK h \in Nat : h = have' /\ 1 <= h /\ h <= RING_FRAMES /\ h <= have + 1
  BY <1>a
<1>c. h \in Nat /\ 1 <= h /\ h <= RING_FRAMES /\ h <= have + 1
  BY <1>b
<1> DEFINE n == next + 1 - h
<1>1. \A k \in 0..(h - 1) : start' + k = Usable[n + 1 + k]
  BY <1>0, <1>b, BlockGrows
<1>2. /\ next \in Nat /\ have \in Nat /\ have <= next /\ next < Len(Usable)
      /\ RING_FRAMES \in Nat \ {0} /\ tries' \in 0..MAX_TRIES
  BY <1>0, UserMemoryAssumption DEF IInv, TypeOK, BlockInv, HasFrame
<1>n. n \in Nat /\ n + h = next + 1 /\ next - have <= n /\ n <= next
  BY <1>c, <1>2
<1> HIDE DEF n
<1>3. fresh = NoFrame /\ ~MAPPED /\ ~refused /\ Code \notin DOMAIN uses /\ Stack \notin DOMAIN uses
  BY <1>0 DEF IInv, FrameInv, UserInv, Mapping
<1>4. \A u \in DOMAIN uses : u.kind # "dma"
  BY <1>0 DEF IInv, MadeInv
<1>5. \A u \in DOMAIN uses : Among(uses[u], next - have) /\ Among(uses[u], n)
                             /\ Among(uses[u], next + 1)
  BY <1>0, <1>2, <1>n, AmongMore DEF IInv, FrameInv, Settled
<1>6. CASE h # RING_FRAMES
  <2>0. UNCHANGED <<pc, uses>>
    BY <1>b, <1>6 DEF Contiguous
  <2>1. TypeOK'
    BY <1>0, <1>a, <1>b, <1>2, <2>0 DEF IInv, TypeOK
  <2>2. FrameInv'
    <3>1. Settled' = n
      <4>1. pc' = "ring" /\ next' = next + 1
        BY <1>0, <2>0
      <4>2. Settled' = next' - have'
        BY <4>1 DEF Settled
      <4>3. h = have'
        BY <1>b
      <4>4. next' - have' = next' - h
        BY <4>3
      <4>5. next' - h = next + 1 - h
        BY <1>2, <4>1
      <4> QED
        BY <4>2, <4>4, <4>5 DEF n
    <3>2. \A u \in DOMAIN uses : Among(uses[u], Settled)'
      BY <1>0, <1>5, <2>0, <3>1 DEF Among
    <3> QED
      BY <1>0, <1>3, <2>0, <3>2 DEF IInv, FrameInv
  <2>3. MadeInv'
    BY <1>0, <1>2, <2>0, UsableType DEF IInv, MadeInv
  <2>4. BlockInv'
    BY <1>0, <1>1, <1>b, <1>2, <1>6 DEF BlockInv, n
  <2>5. UserInv'
    BY <1>0, <1>3, <2>0 DEF IInv, UserInv
  <2> QED
    BY <2>1, <2>2, <2>3, <2>4, <2>5 DEF IInv
<1>7. CASE h = RING_FRAMES
  <2> DEFINE R == {Ring(i) : i \in 0..(RING_FRAMES - 1)}
  <2>0. /\ pc' = "shell"
        /\ uses' = [u \in DOMAIN uses \cup R |-> IF u.kind = "dma" THEN start' + u.n ELSE uses[u]]
    BY <1>b, <1>7 DEF Contiguous
  <2>1. \A u \in R : u \in Use /\ u.kind = "dma" /\ u.of = "ring" /\ u.n \in 0..(RING_FRAMES - 1)
                     /\ u = Ring(u.n) /\ u # Code /\ u # Stack
    BY <1>2 DEF Ring, Use, Code, Stack
  <2>2. /\ DOMAIN uses' = DOMAIN uses \cup R
        /\ \A u \in DOMAIN uses : uses'[u] = uses[u]
        /\ \A u \in R : uses'[u] = start' + u.n
    BY <1>4, <2>0, <2>1
  <2>3. ASSUME NEW u \in R
        PROVE  /\ n + 1 + u.n \in DOMAIN Usable
               /\ uses'[u] = Usable[n + 1 + u.n]
    <3>1. u.n \in 0..(h - 1) /\ u.n \in Nat /\ u.n < h
      BY <1>2, <1>7, <2>1
    <3>2. uses'[u] = start' + u.n
      BY <2>2
    <3>3. start' + u.n = Usable[n + 1 + u.n]
      BY <1>1, <3>1
    <3>4. n + 1 + u.n \in DOMAIN Usable
      BY <1>2, <1>n, <3>1, UsableType
    <3> QED
      BY <3>2, <3>3, <3>4
  <2>4. TypeOK'
    <3>1. DOMAIN uses' \subseteq Use /\ \A u \in DOMAIN uses' : uses'[u] \in Nat
      <4>1. \A u \in R : uses'[u] \in Nat
        BY <2>3, UsableType
      <4> HIDE DEF R
      <4> QED
        BY <2>1, <2>2, <4>1 DEF IInv, TypeOK
    <3>2. have' \in 0..RING_FRAMES /\ start' \in Nat /\ tries' \in 0..MAX_TRIES /\ next' \in Nat
      BY <1>0, <1>a, <1>2
    <3> QED
      BY <1>0, <2>0, <3>1, <3>2 DEF IInv, TypeOK
  <2>5. FrameInv'
    <3>1. Settled' = next + 1
      BY <1>0, <2>0 DEF Settled
    <3>2. \A u \in R : Among(uses'[u], next + 1)
      <4> SUFFICES ASSUME NEW u \in R PROVE Among(uses'[u], next + 1)
        OBVIOUS
      <4>1. u.n \in Nat /\ u.n < h /\ n + 1 + u.n \in DOMAIN Usable
        BY <1>2, <1>7, <2>1, <2>3
      <4>2. n + 1 + u.n <= next + 1
        BY <1>2, <1>n, <4>1
      <4> QED
        BY <2>3, <4>1, <4>2 DEF Among
    <3> HIDE DEF R
    <3>3. \A u \in DOMAIN uses' : Among(uses[u], Settled)'
      BY <1>0, <1>5, <2>2, <3>1, <3>2 DEF Among
    <3>4. ASSUME NEW u \in R, NEW v \in R, uses'[u] = uses'[v] PROVE u = v
      <4>1. n + 1 + u.n = n + 1 + v.n
        BY <2>3, <3>4, UsableType
      <4>2. u.n = v.n
        BY <1>2, <1>n, <2>1, <4>1
      <4> QED
        BY <2>1, <4>2
    <3>5. ASSUME NEW u \in DOMAIN uses, NEW v \in R PROVE uses'[u] # uses'[v]
      <4>1. PICK i \in DOMAIN Usable : i <= n /\ uses[u] = Usable[i]
        BY <1>5 DEF Among
      <4>2. i # n + 1 + v.n
        BY <1>2, <1>n, <2>1, <4>1, UsableType
      <4> QED
        BY <2>2, <2>3, <4>1, <4>2, UsableType
    <3>6. \A u, v \in DOMAIN uses' : uses'[u] = uses'[v] => u = v
      BY <2>2, <3>4, <3>5 DEF IInv, FrameInv
    <3> QED
      BY <1>0, <1>3, <3>3, <3>6 DEF IInv, FrameInv
  <2>6. MadeInv' /\ BlockInv'
    <3> HIDE DEF R
    <3> QED
      BY <1>0, <2>0, <2>1, <2>2 DEF IInv, MadeInv, BlockInv
  <2>7. UserInv'
    <3>1. Code \notin DOMAIN uses' /\ Stack \notin DOMAIN uses'
      BY <1>3, <2>1, <2>2
    <3> QED
      BY <1>0, <1>3, <2>0, <3>1 DEF UserInv
  <2> QED
    BY <2>4, <2>5, <2>6, <2>7 DEF IInv
<1> QED
  BY <1>6, <1>7

\* No card, or no block: the frames that were looked at are lost.
LEMMA IInvNoRing == ASSUME IInv, NoCard \/ NoContiguous PROVE IInv'
<1>0. /\ pc = "ring" /\ pc' = "shell" /\ next' \in Nat /\ next' >= next
      /\ UNCHANGED <<fresh, uses, levels, Usable, page, start, have, tries, MAPPED, step, refused>>
  BY UsableType DEF NoCard, NoContiguous, Advanced, boot
<1>1. TypeOK'
  BY <1>0 DEF IInv, TypeOK
<1>2. FrameInv'
  <2>1. Settled \in Int /\ Settled <= next' /\ Settled' = next'
    BY <1>0, UsableType DEF Settled, IInv, TypeOK
  <2>2. \A u \in DOMAIN uses : Among(uses[u], next')
    BY <1>0, <2>1, AmongMore DEF IInv, FrameInv
  <2>3. \A u \in DOMAIN uses : Among(uses[u], Settled)'
    BY <1>0, <2>1, <2>2 DEF Among
  <2>4. fresh = NoFrame
    BY <1>0 DEF IInv, FrameInv, Mapping
  <2> QED
    BY <1>0, <2>3, <2>4 DEF IInv, FrameInv
<1>3. MadeInv' /\ BlockInv'
  BY <1>0 DEF IInv, MadeInv, BlockInv
<1>4. UserInv'
  BY <1>0 DEF IInv, UserInv
<1> QED
  BY <1>1, <1>2, <1>3, <1>4 DEF IInv

----------------------------------------------------------------------------
(* usermode::run.                                                          *)

LEMMA IInvRun == ASSUME IInv, Run \/ EnterUser \/ Syscall PROVE IInv'
<1>0. /\ pc \in {"shell", "copy", "user"}
      /\ pc' \in {"code", "copy", "user", "shell"}
      /\ pc' = "code" => pc = "shell" /\ ~MAPPED
      /\ pc' \in {"copy", "user"} => MAPPED
      /\ UNCHANGED <<next, fresh, uses, levels, Usable, page, start, have, tries, MAPPED, refused>>
  BY DEF Run, EnterUser, Syscall, AfterCall, boot, IInv, UserInv
<1>1. fresh = NoFrame
  BY <1>0 DEF IInv, FrameInv, Mapping
<1>2. step' \in 1..Len(Payload)
  <2>1. Len(Payload) = 4 /\ Payload[4] = "SYS_EXIT"
    BY DEF Payload
  <2>2. step \in 1..4
    BY <2>1 DEF IInv, TypeOK
  <2> QED
    BY <2>1, <2>2 DEF Run, EnterUser, Syscall, AfterCall
<1>3. TypeOK'
  BY <1>0, <1>2 DEF IInv, TypeOK
<1>4. FrameInv'
  <2>1. Settled' = Settled
    BY <1>0 DEF Settled
  <2> QED
    BY <1>0, <1>1, <2>1 DEF IInv, FrameInv, Among
<1>5. MadeInv' /\ BlockInv'
  BY <1>0 DEF IInv, MadeInv, BlockInv
<1>6. UserInv'
  BY <1>0, <1>1 DEF IInv, UserInv
<1> QED
  BY <1>3, <1>4, <1>5, <1>6 DEF IInv

----------------------------------------------------------------------------
(* The theorems.                                                           *)

\* The inductive invariant of the frames.
THEOREM InductiveInvariant == Spec => []IInv
<1>1. IInv /\ [Next]_vars => IInv'
  <2> SUFFICES ASSUME IInv, [Next]_vars PROVE IInv'
    OBVIOUS
  <2>1. CASE Next
    BY <2>1, IInvTakeFrame, IInvMakeTable, IInvOutOfFrames, IInvMapPage, IInvContiguous,
       IInvNoRing, IInvRun DEF Next, Map
  <2>2. CASE UNCHANGED vars
    BY <2>2 DEF vars, boot, IInv, TypeOK, FrameInv, MadeInv, BlockInv, UserInv, Among, Settled,
       Mapping
  <2> QED
    BY <2>1, <2>2
<1> QED
  BY <1>1, IInvInit, PTL DEF Spec

\* The allocator, boot and the userspace command keep their types.
THEOREM UserMemoryTypeCorrect == Spec => []TypeOK
BY InductiveInvariant, PTL DEF IInv

\* allocate_frame, map_to and alloc_contiguous never give one frame two uses,
\* for every memory map and however the frames run out.
THEOREM EveryFrameHasOneUse == Spec => []FramesAreExclusive
<1>1. IInv => FramesAreExclusive
  BY DEF IInv, FrameInv, FramesAreExclusive, Among
<1> QED
  BY <1>1, InductiveInvariant, PTL

\* enter_user is reached only with the code and the stack page mapped.
THEOREM RingThreeHasItsPages == Spec => []RingThreeIsMapped
<1>1. IInv => RingThreeIsMapped
  BY DEF IInv, UserInv, RingThreeIsMapped
<1> QED
  BY <1>1, InductiveInvariant, PTL

\* map_to never meets a page that is mapped, although a failed ensure_mapped
\* undoes nothing: the failure is the end of memory, which a retry meets again.
THEOREM RetriesMapNothingTwice == Spec => []NeverMapsTwice
<1>1. IInv => NeverMapsTwice
  BY TargetIsNew DEF IInv, UserInv, NeverMapsTwice
<1> QED
  BY <1>1, InductiveInvariant, PTL

=============================================================================
