--------------------------- MODULE MachineProofs ----------------------------
(***************************************************************************)
(* Proofs about Machine: the lift depth and the layers that frames point   *)
(* at stay right through every turn, unwinding included, for every verse.  *)
(***************************************************************************)
EXTENDS Machine, FiniteSetTheorems, WellFoundedInduction, TLAPS

----------------------------------------------------------------------------
(* Least and greatest elements.                                            *)

\* The least element of a set of naturals is one of its elements (Min, as
\* unwind and layer search use it).
LEMMA MinIsLeast ==
    ASSUME NEW S \in SUBSET Nat, S # {}
    PROVE  Min(S) \in S /\ \A x \in S : Min(S) <= x
<1>1. IsWellFoundedOn(OpToRel(<, Nat), Nat)
  BY NatLessThanWellFounded
<1>2. PICK m \in S : \A y \in S : ~(<<y, m>> \in OpToRel(<, Nat))
  BY <1>1, WFMin
<1>3. \A y \in S : m <= y
  <2>1. SUFFICES ASSUME NEW y \in S PROVE m <= y
    OBVIOUS
  <2>2. y \in Nat /\ m \in Nat
    OBVIOUS
  <2>3. ~(y < m)
    BY <1>2, <2>2 DEF OpToRel
  <2>4. QED BY <2>2, <2>3
<1>4. QED BY <1>3 DEF Min

\* The greatest element of a bounded set of naturals is one of its elements
\* (Max, the nearest handler on the stack).
LEMMA MaxIsGreatest ==
    ASSUME NEW n \in Nat, NEW S \in SUBSET (0..n), S # {}
    PROVE  Max(S) \in S /\ \A x \in S : Max(S) >= x
<1> DEFINE T == {n - x : x \in S}
<1>1. T \in SUBSET Nat /\ T # {}
  <2>1. \A x \in S : x \in Nat /\ x <= n /\ n - x \in Nat
    OBVIOUS
  <2>2. PICK x \in S : TRUE
    OBVIOUS
  <2>3. n - x \in T
    OBVIOUS
  <2>4. QED BY <2>1, <2>3
<1>2. PICK m \in S : Min(T) = n - m
  BY <1>1, MinIsLeast
<1>3. \A x \in S : n - m <= n - x
  BY <1>1, <1>2, MinIsLeast
<1>4. \A x \in S : m >= x
  BY <1>3
<1>5. QED BY <1>4 DEF Max

----------------------------------------------------------------------------
(* The stack invariant, as a predicate of a stack, a tower and a depth.    *)

FrameOK(f, tw) ==
    /\ f.k \in Frame
    /\ f.k \in {"ClamaK", "RecipeH"} => f.layer \in DOMAIN tw /\ tw[f.layer].kind = "Except"
    /\ f.k = "PoneK" => f.layer \in DOMAIN tw /\ tw[f.layer].kind = "State"
    /\ f.k = "MitteK" => f.layer \in DOMAIN tw /\ tw[f.layer].kind = "Writer"
    /\ f.k = "PerageK" => \E i \in DOMAIN tw : tw[i].kind = "Commit"
    /\ f.k = "LiftK" => f.depth \in 0..(Len(tw) - 1)

Below(st, n) == {i \in Lifts(st) : i < n}

StackOK(st, tw, d) ==
    /\ \E S : st \in Seq(S)
    /\ \A i \in 1..Len(st) : FrameOK(st[i], tw)
    /\ \A i \in Lifts(st) : st[i].depth = Cardinality(Below(st, i))
    /\ d = Cardinality(Lifts(st))
    /\ d \in 0..(Len(tw) - 1)

\* Lifts of a stack is a finite set of positions.
LEMMA LiftsFinite ==
    ASSUME NEW S, NEW st \in Seq(S)
    PROVE  /\ Lifts(st) \in SUBSET (1..Len(st))
           /\ IsFiniteSet(Lifts(st)) /\ Cardinality(Lifts(st)) \in Nat
<1>1. Lifts(st) \in SUBSET (1..Len(st))
  BY DEF Lifts
<1>2. IsFiniteSet(1..Len(st))
  BY FS_Interval
<1>3. IsFiniteSet(Lifts(st))
  BY <1>1, <1>2, FS_Subset
<1>4. QED BY <1>1, <1>3, FS_CardinalityType

\* Pushing any frame but a LiftK.
LEMMA PushFrame ==
    ASSUME NEW st, NEW tw, NEW d, NEW f,
           StackOK(st, tw, d), FrameOK(f, tw), f.k # "LiftK"
    PROVE  StackOK(Append(st, f), tw, d)
<1>1. PICK S : st \in Seq(S)
  BY DEF StackOK
<1> DEFINE new == Append(st, f)
<1>2. st \in Seq(S \cup {f}) /\ Len(st) \in Nat
  BY <1>1
<1>3. /\ new \in Seq(S \cup {f}) /\ Len(new) = Len(st) + 1
      /\ \A i \in 1..Len(st) : new[i] = st[i]
      /\ new[Len(st) + 1] = f
  BY <1>2
<1> HIDE DEF new
<1>4. Lifts(new) = Lifts(st)
  BY <1>1, <1>3 DEF Lifts
<1>5. \A i : Below(new, i) = Below(st, i)
  BY <1>4 DEF Below
<1>6. \A i \in 1..Len(new) : FrameOK(new[i], tw)
  BY <1>2, <1>3 DEF StackOK
<1>7. \A i \in Lifts(new) : new[i].depth = Cardinality(Below(new, i))
  <2>1. \A i \in Lifts(new) : new[i] = st[i]
    BY <1>1, <1>3, <1>4, LiftsFinite
  <2>2. QED BY <2>1, <1>4, <1>5 DEF StackOK
<1>8. QED BY <1>3, <1>4, <1>6, <1>7 DEF StackOK, new

\* Lift: the frame saves the depth, and there is one more of them.
LEMMA PushLift ==
    ASSUME NEW st, NEW tw, NEW d,
           StackOK(st, tw, d), Len(tw) \in Nat, d + 1 \in 0..(Len(tw) - 1)
    PROVE  StackOK(Append(st, [k |-> "LiftK", depth |-> d]), tw, d + 1)
<1> DEFINE f == [k |-> "LiftK", depth |-> d]
<1> DEFINE new == Append(st, f)
<1>1. PICK S : st \in Seq(S)
  BY DEF StackOK
<1>2. st \in Seq(S \cup {f}) /\ Len(st) \in Nat
  BY <1>1
<1>3. /\ new \in Seq(S \cup {f}) /\ Len(new) = Len(st) + 1
      /\ \A i \in 1..Len(st) : new[i] = st[i]
      /\ new[Len(st) + 1] = f
  BY <1>2
<1>4. f.k = "LiftK" /\ f.depth = d
  OBVIOUS
<1>5. FrameOK(f, tw)
  BY DEF FrameOK, Frame, StackOK
<1> HIDE DEF new, f
<1>6. Lifts(st) \in SUBSET (1..Len(st)) /\ IsFiniteSet(Lifts(st)) /\ d = Cardinality(Lifts(st))
  BY <1>1, LiftsFinite DEF StackOK
<1>7. Lifts(new) = Lifts(st) \cup {Len(st) + 1}
  BY <1>1, <1>3, <1>4 DEF Lifts
<1>8. Cardinality(Lifts(new)) = d + 1
  <2>1. Len(st) + 1 \notin Lifts(st)
    BY <1>2, <1>6
  <2>2. QED BY <1>6, <1>7, <2>1, FS_AddElement
<1>9. Below(new, Len(st) + 1) = Lifts(st) /\ \A i \in Lifts(st) : Below(new, i) = Below(st, i)
  BY <1>2, <1>6, <1>7 DEF Below
<1>10. \A i \in 1..Len(new) : FrameOK(new[i], tw)
  BY <1>2, <1>3, <1>5 DEF StackOK
<1>11. \A i \in Lifts(new) : new[i].depth = Cardinality(Below(new, i))
  <2>1. \A i \in Lifts(st) : new[i] = st[i]
    BY <1>3, <1>6
  <2>2. QED BY <2>1, <1>3, <1>4, <1>6, <1>7, <1>9 DEF StackOK
<1>12. QED BY <1>3, <1>8, <1>10, <1>11 DEF StackOK, new, f

\* Cutting the stack off above n; the depth is the number of lifts left.
LEMMA CutStack ==
    ASSUME NEW st, NEW tw, NEW d, StackOK(st, tw, d), Len(tw) \in Nat,
           NEW n \in 0..Len(st), NEW e \in 0..(Len(tw) - 1),
           e = Cardinality(Below(st, n + 1))
    PROVE  StackOK(SubSeq(st, 1, n), tw, e)
<1>1. PICK S : st \in Seq(S)
  BY DEF StackOK
<1> DEFINE new == SubSeq(st, 1, n)
<1>2. Len(st) \in Nat /\ n \in Nat /\ n <= Len(st)
  BY <1>1
<1>3. new \in Seq(S) /\ Len(new) = n /\ \A i \in 1..n : new[i] = st[i]
  BY <1>1, <1>2
<1> HIDE DEF new
<1>4. Lifts(new) = Below(st, n + 1)
  BY <1>1, <1>2, <1>3 DEF Lifts, Below
<1>5. \A i \in Lifts(new) : i \in 1..n /\ i \in Lifts(st) /\ Below(new, i) = Below(st, i)
  BY <1>1, <1>2, <1>3, <1>4, LiftsFinite DEF Below
<1>6. \A i \in Lifts(new) : new[i].depth = Cardinality(Below(new, i))
  BY <1>3, <1>5 DEF StackOK
<1>7. \A i \in 1..Len(new) : FrameOK(new[i], tw)
  BY <1>2, <1>3 DEF StackOK
<1>8. QED BY <1>3, <1>4, <1>6, <1>7 DEF StackOK, new

\* Popping the top frame; a LiftK gives its depth back.
LEMMA PopFrame ==
    ASSUME NEW st, NEW tw, NEW d, StackOK(st, tw, d), Len(tw) \in Nat, st # <<>>
    PROVE  LET top == st[Len(st)] IN
           /\ FrameOK(top, tw)
           /\ top.k # "LiftK" => StackOK(SubSeq(st, 1, Len(st) - 1), tw, d)
           /\ top.k = "LiftK" => StackOK(SubSeq(st, 1, Len(st) - 1), tw, top.depth)
<1> DEFINE n == Len(st) - 1
<1> DEFINE top == st[Len(st)]
<1>1. PICK S : st \in Seq(S)
  BY DEF StackOK
<1>2. Len(st) \in Nat \ {0} /\ n \in 0..Len(st) /\ n + 1 = Len(st)
  BY <1>1
<1>3. FrameOK(top, tw)
  BY <1>2 DEF StackOK
<1>4. ASSUME top.k # "LiftK" PROVE StackOK(SubSeq(st, 1, n), tw, d)
  <2>1. Below(st, n + 1) = Lifts(st)
    BY <1>1, <1>2, <1>4 DEF Below, Lifts
  <2>2. d = Cardinality(Below(st, n + 1)) /\ d \in 0..(Len(tw) - 1)
    BY <2>1 DEF StackOK
  <2>3. QED BY <1>2, <2>2, CutStack
<1>5. ASSUME top.k = "LiftK" PROVE StackOK(SubSeq(st, 1, n), tw, top.depth)
  <2>1. Len(st) \in Lifts(st)
    BY <1>1, <1>2, <1>5 DEF Lifts
  <2>2. top.depth = Cardinality(Below(st, n + 1))
    BY <1>2, <2>1 DEF StackOK
  <2>3. top.depth \in 0..(Len(tw) - 1)
    BY <1>3, <1>5 DEF FrameOK
  <2>4. QED BY <1>2, <2>2, <2>3, CutStack
<1>6. QED BY <1>3, <1>4, <1>5

\* Another tower of the same layers.
LEMMA SameLayers ==
    ASSUME NEW st, NEW tw, NEW d, NEW tv, StackOK(st, tw, d),
           DOMAIN tv = DOMAIN tw, Len(tv) = Len(tw),
           \A i \in DOMAIN tw : tv[i].kind = tw[i].kind
    PROVE  StackOK(st, tv, d)
BY DEF StackOK, FrameOK

----------------------------------------------------------------------------
(* The inductive invariant.                                                *)

\* The tower has the layers of the mode, and a Writer layer its plan.
Layered(tw, mode) ==
    /\ \E S : tw \in Seq(S)
    /\ Kinds(tw) = Tower(mode)
    /\ \A i \in DOMAIN tw : tw[i].kind = "Writer" => tw[i] = [kind |-> "Writer", plan |-> tw[i].plan]

StackInv ==
    /\ StackOK(stack, tower, depth)
    /\ Layered(tower, verse.mode)
    /\ thrown \in 1..Len(tower)
    /\ verse.mode \in Mode

DriverInv ==
    /\ control.at \in {"Eval", "Value", "Apply"}
    /\ fuel \in 0..FUEL_SLICE
    /\ slices \in 0..MAX_SLICES
    /\ phase \in {"sing", "yield", "done"}
    /\ phase # "done" => slices < MAX_SLICES
    /\ phase = "yield" => control.at # "Apply"
    /\ native \in Nat
    /\ native > 0 <=> phase = "sing" /\ control.at = "Apply"

IInv == StackInv /\ DriverInv

\* Every mode has a tower of at least one layer (Mode::tower).
LEMMA TowerIsSeq ==
    ASSUME NEW m \in Mode
    PROVE  \E S : Tower(m) \in Seq(S) /\ Len(Tower(m)) >= 1
<1> DEFINE K == {"Maybe", "Except", "State", "Commit", "Writer"}
<1>1. \A x \in K : <<x>> \in Seq(K) /\ Len(<<x>>) = 1
  OBVIOUS
<1>2. \A x \in K : <<x, x>> \in Seq(K) /\ Len(<<x, x>>) = 2
  OBVIOUS
<1>3. \E x \in K : Tower(m) \in {<<x>>, <<x, x>>}
  <2>1. CASE m = "Dorian"
    <3>1. Tower(m) = <<"Maybe">>
      BY <2>1 DEF Tower
    <3>2. QED BY <3>1
  <2>2. CASE m = "Hypodorian"
    <3>1. Tower(m) = <<"Maybe", "Maybe">>
      BY <2>2 DEF Tower
    <3>2. QED BY <3>1
  <2>3. CASE m = "Phrygian"
    <3>1. Tower(m) = <<"Except">>
      BY <2>3 DEF Tower
    <3>2. QED BY <3>1
  <2>4. CASE m = "Hypophrygian"
    <3>1. Tower(m) = <<"Except", "Except">>
      BY <2>4 DEF Tower
    <3>2. QED BY <3>1
  <2>5. CASE m = "Lydian"
    <3>1. Tower(m) = <<"State">>
      BY <2>5 DEF Tower
    <3>2. QED BY <3>1
  <2>6. CASE m = "Hypolydian"
    <3>1. Tower(m) = <<"State", "State">>
      BY <2>6 DEF Tower
    <3>2. QED BY <3>1
  <2>7. CASE m = "Mixolydian"
    <3>1. Tower(m) = <<"Commit">>
      BY <2>7 DEF Tower
    <3>2. QED BY <3>1
  <2>8. CASE m = "Hypomixolydian"
    <3>1. Tower(m) = <<"Writer">>
      BY <2>8 DEF Tower
    <3>2. QED BY <3>1
  <2>9. QED BY <2>1, <2>2, <2>3, <2>4, <2>5, <2>6, <2>7, <2>8 DEF Mode
<1> HIDE DEF K
<1>4. Tower(m) \in Seq(K) /\ Len(Tower(m)) >= 1
  <2>1. PICK x \in K : Tower(m) \in {<<x>>, <<x, x>>}
    BY <1>3
  <2>2. CASE Tower(m) = <<x>>
    BY <1>1, <2>2
  <2>3. CASE Tower(m) = <<x, x>>
    BY <1>2, <2>3
  <2>4. QED BY <2>1, <2>2, <2>3
<1>5. QED BY <1>4

\* build_tower gives each layer of the mode its kind.
LEMMA BuildTowerLayered ==
    ASSUME NEW m \in Mode, NEW st
    PROVE  Layered(BuildTower(m, st), m) /\ Len(BuildTower(m, st)) >= 1
<1> DEFINE kinds == Tower(m)
<1> DEFINE first(i) == \A j \in 1..(i - 1) : kinds[j] # "State"
<1> DEFINE layer(i) == CASE kinds[i] = "State" -> [kind |-> "State",
                                      st |-> IF first(i) THEN st ELSE EmptyState]
                         [] kinds[i] = "Writer" -> [kind |-> "Writer", plan |-> <<>>]
                         [] OTHER -> [kind |-> kinds[i]]
<1> DEFINE tw == [i \in DOMAIN kinds |-> layer(i)]
<1>1. BuildTower(m, st) = tw
  BY DEF BuildTower
<1>2. Len(kinds) \in Nat /\ Len(kinds) >= 1 /\ DOMAIN kinds = 1..Len(kinds)
  BY TowerIsSeq
<1>3. \A i : /\ layer(i).kind = kinds[i]
             /\ layer(i).kind = "Writer" => layer(i) = [kind |-> "Writer", plan |-> layer(i).plan]
  <2>1. SUFFICES ASSUME NEW i
                 PROVE  /\ layer(i).kind = kinds[i]
                        /\ layer(i).kind = "Writer" =>
                              layer(i) = [kind |-> "Writer", plan |-> layer(i).plan]
    OBVIOUS
  <2> HIDE DEF first, kinds
  <2>2. QED OBVIOUS
<1> DEFINE S == {layer(i) : i \in DOMAIN kinds}
<1> HIDE DEF layer, kinds
<1>4. tw \in Seq(S) /\ Len(tw) = Len(kinds) /\ DOMAIN tw = DOMAIN kinds
  BY <1>2
<1>5. Kinds(tw) = kinds
  <2>1. PICK K : kinds \in Seq(K)
    BY TowerIsSeq DEF kinds
  <2>2. kinds = [i \in DOMAIN kinds |-> kinds[i]]
    BY <2>1
  <2>3. \A i \in DOMAIN tw : tw[i].kind = kinds[i]
    BY <1>3, <1>4
  <2> HIDE DEF tw
  <2>4. QED BY <1>4, <2>2, <2>3 DEF Kinds
<1>6. \A i \in DOMAIN tw : tw[i].kind = "Writer" => tw[i] = [kind |-> "Writer", plan |-> tw[i].plan]
  BY <1>3, <1>4
<1>7. Layered(tw, m)
  BY <1>4, <1>5, <1>6 DEF Layered, kinds
<1>8. QED BY <1>1, <1>2, <1>4, <1>7

\* run_verse starts in the invariant.
LEMMA InitInv == Init => IInv
<1> SUFFICES ASSUME Init PROVE IInv
  OBVIOUS
<1>1. verse.mode \in Mode
  BY VersesAssumption DEF Init
<1>2. Layered(tower, verse.mode) /\ Len(tower) >= 1 /\ Len(tower) \in Nat
  <2>1. Layered(tower, verse.mode) /\ Len(tower) >= 1
    BY <1>1, BuildTowerLayered DEF Init
  <2>2. QED BY <2>1 DEF Layered
<1>3. stack = <<>> /\ depth = 0 /\ thrown = 1
  BY DEF Init
<1>4. Lifts(stack) = {}
  BY <1>3 DEF Lifts
<1>5. Cardinality({}) = 0
  BY FS_EmptySet
<1>6. StackOK(stack, tower, depth)
  <2>1. stack \in Seq({})
    BY <1>3
  <2>2. QED BY <1>2, <1>3, <1>4, <1>5, <2>1 DEF StackOK
<1>7. StackInv
  BY <1>1, <1>2, <1>3, <1>6 DEF StackInv
<1>8. DriverInv
  BY FuelAssumption DEF Init, DriverInv, Eval
<1>9. QED BY <1>7, <1>8 DEF IInv

\* The turn, the slices and the native calls of every step.
LEMMA DriverStep == DriverInv /\ Next => DriverInv'
<1> SUFFICES ASSUME DriverInv, Next PROVE DriverInv'
  OBVIOUS
<1> USE FuelAssumption
<1>1. CASE EvalStep
  <2>1. /\ phase = "sing" /\ fuel > 0 /\ fuel' = fuel - 1 /\ slices' = slices
        /\ control.at = "Eval" /\ native' = native
    BY <1>1 DEF EvalStep, EvalLit, EvalVar, EvalLam, EvalApp, EvalIf, EvalFix, EvalPure,
       EvalReturn, EvalBind, EvalArg, EvalAsk, EvalResolve, EvalNihil, EvalClama, EvalRecipe,
       EvalLege, EvalPone, EvalMitte, EvalPerage, EvalLift, Evaluates, Turn, driver
  <2>2. \/ control'.at \in {"Eval", "Value"} /\ phase' = phase
        \/ control' = control /\ phase' = "done"
    BY <1>1 DEF EvalStep, EvalLit, EvalVar, EvalLam, EvalApp, EvalIf, EvalFix, EvalPure,
       EvalReturn, EvalBind, EvalArg, EvalAsk, EvalResolve, EvalNihil, EvalClama, EvalRecipe,
       EvalLege, EvalPone, EvalMitte, EvalPerage, EvalLift, OnLayer, Yields, Pushes, Abort,
       Continue, End, Eval, Value
  <2>3. QED BY <2>1, <2>2 DEF DriverInv
<1>2. CASE ValueStep
  <2>1. /\ phase = "sing" /\ fuel > 0 /\ fuel' = fuel - 1 /\ slices' = slices
        /\ control.at = "Value"
    BY <1>2 DEF ValueStep, MeetAppArg, MeetAppCall, MeetIfK, MeetBindK, Cadence, MeetClamaK,
       MeetRecipeH, MeetPoneK, MeetMitteK, MeetPerageK, MeetResolveK, MeetFixK, MeetLiftK,
       MeetBuiltinPost, Meets, Turn, driver
  <2>2. \/ control'.at \in {"Eval", "Value"} /\ phase' = phase /\ native' = native
        \/ control'.at = "Apply" /\ phase' = phase /\ native' = 1
        \/ control' = control /\ phase' = "done" /\ native' = native
    BY <1>2 DEF ValueStep, MeetAppArg, MeetAppCall, MeetIfK, MeetBindK, Cadence, MeetClamaK,
       MeetRecipeH, MeetPoneK, MeetMitteK, MeetPerageK, MeetResolveK, MeetFixK, MeetLiftK,
       MeetBuiltinPost, Catch, Calls, Goes, Fail, Abort, Continue, End, Eval, Value, Applying
  <2>3. QED BY <2>1, <2>2 DEF DriverInv
<1>3. CASE ApplyStep
  <2>1. /\ phase = "sing" /\ fuel' = fuel /\ slices' = slices /\ control.at = "Apply"
    BY <1>3 DEF ApplyStep, ApplyClosure, ApplyBuiltin, ApplyOther, CallsApply, driver
  <2>2. \/ control'.at \in {"Eval", "Value"} /\ phase' = phase /\ native' = 0
        \/ control'.at = "Apply" /\ phase' = phase /\ native' = native + 1
        \/ control' = control /\ phase' = "done" /\ native' = 0
    BY <1>3 DEF ApplyStep, ApplyClosure, ApplyBuiltin, ApplyOther, Applied, Continue, End,
       Eval, Value, Applying
  <2>3. QED BY <2>1, <2>2 DEF DriverInv
<1>4. CASE RunOut
  BY <1>4 DEF RunOut, DriverInv, machine
<1>5. CASE Resume
  BY <1>5 DEF Resume, DriverInv, machine, driver
<1>6. CASE Rests
  BY <1>6 DEF Rests, DriverInv, machine, driver, vars
<1>7. QED BY <1>1, <1>2, <1>3, <1>4, <1>5, <1>6 DEF Next, Step

----------------------------------------------------------------------------
(* What the turns do to the stack.                                         *)

\* A turn that leaves the machine's stack and tower alone.
LEMMA Unmoved ==
    ASSUME StackInv, UNCHANGED <<verse, stack, tower, depth, thrown>>
    PROVE  StackInv'
BY DEF StackInv

\* A turn that only pushes a frame.
LEMMA Pushed ==
    ASSUME StackInv, NEW f, FrameOK(f, tower), f.k # "LiftK",
           stack' = Append(stack, f), UNCHANGED <<verse, tower, depth, thrown>>
    PROVE  StackInv'
<1>1. StackOK(Append(stack, f), tower, depth)
  BY PushFrame DEF StackInv
<1>2. QED BY <1>1 DEF StackInv

\* The layer an operation finds is a layer of its kind (Continuation::layer).
LEMMA VisibleLayer ==
    ASSUME StackInv, NEW kind, Visible(kind) # {}
    PROVE  Min(Visible(kind)) \in DOMAIN tower /\ tower[Min(Visible(kind))].kind = kind
<1>1. PICK S : tower \in Seq(S)
  BY DEF StackInv, Layered
<1>2. depth \in Nat /\ Len(tower) \in Nat /\ DOMAIN tower = 1..Len(tower)
  BY <1>1 DEF StackInv, StackOK
<1>3. Visible(kind) \in SUBSET Nat
  BY <1>2 DEF Visible
<1>4. Min(Visible(kind)) \in Visible(kind)
  BY <1>3, MinIsLeast
<1>5. QED BY <1>2, <1>4 DEF Visible

\* An operation that is given a layer and waits for its value.
LEMMA LayerPushed ==
    ASSUME StackInv, NEW kind, NEW op, NEW k, OnLayer(kind, op, k), UNCHANGED verse,
           <<kind, k>> \in {<<"Except", "ClamaK">>, <<"State", "PoneK">>, <<"Writer", "MitteK">>}
    PROVE  StackInv'
<1>1. CASE Visible(kind) = {}
  BY <1>1, Unmoved DEF OnLayer, Abort, End
<1>2. CASE Visible(kind) # {}
  <2> DEFINE f == [k |-> k, layer |-> Min(Visible(kind))]
  <2>1. Min(Visible(kind)) \in DOMAIN tower /\ tower[Min(Visible(kind))].kind = kind
    BY <1>2, VisibleLayer
  <2>2. f.k = k /\ f.layer = Min(Visible(kind))
    OBVIOUS
  <2>3. stack' = Append(stack, f) /\ UNCHANGED <<verse, tower, depth, thrown>>
    BY <1>2 DEF OnLayer, Pushes, Continue
  <2> HIDE DEF f
  <2>4. FrameOK(f, tower) /\ f.k # "LiftK"
    BY <2>1, <2>2 DEF FrameOK, Frame
  <2>5. QED BY <2>3, <2>4, Pushed
<1>3. QED BY <1>1, <1>2

\* eval_step.
LEMMA EvalStack == StackInv /\ EvalStep => StackInv'
<1> SUFFICES ASSUME StackInv, EvalStep PROVE StackInv'
  OBVIOUS
<1> USE DEF Evaluates, Turn, driver
<1>1. CASE EvalLit \/ EvalLam \/ EvalArg
  BY <1>1, Unmoved DEF EvalLit, EvalLam, EvalArg, Yields, Continue
<1>2. CASE EvalVar \/ EvalAsk \/ EvalLege \/ EvalNihil \/ EvalPure
  BY <1>2, Unmoved DEF EvalVar, EvalAsk, EvalLege, EvalNihil, EvalPure, Yields, Continue, Abort, End
<1>3. ASSUME NEW f, NEW e, Pushes(f, e), UNCHANGED verse, FrameOK(f, tower), f.k # "LiftK"
      PROVE  StackInv'
  BY <1>3, Pushed DEF Pushes, Continue
<1>4. CASE EvalApp
  BY <1>3, <1>4 DEF EvalApp, FrameOK, Frame
<1>5. CASE EvalIf
  BY <1>3, <1>5 DEF EvalIf, FrameOK, Frame
<1>6. CASE EvalFix
  BY <1>3, <1>6 DEF EvalFix, FrameOK, Frame
<1>7. CASE EvalReturn
  BY <1>3, <1>7 DEF EvalReturn, FrameOK, Frame
<1>8. CASE EvalBind
  BY <1>3, <1>8 DEF EvalBind, FrameOK, Frame
<1>9. CASE EvalResolve
  BY <1>3, <1>9 DEF EvalResolve, FrameOK, Frame
<1>10. CASE EvalClama \/ EvalPone \/ EvalMitte
  BY <1>10, LayerPushed DEF EvalClama, EvalPone, EvalMitte
<1>11. CASE EvalRecipe
  <2>1. CASE Visible("Except") = {}
    BY <1>11, <2>1, Unmoved DEF EvalRecipe, Abort, End
  <2>2. CASE Visible("Except") # {}
    <3> DEFINE f == [k |-> "RecipeH", x |-> E.x, e |-> E.h, scope |-> Scope,
                     layer |-> Min(Visible("Except"))]
    <3>1. f.layer \in DOMAIN tower /\ tower[f.layer].kind = "Except"
      BY <2>2, VisibleLayer
    <3>2. f.k = "RecipeH"
      OBVIOUS
    <3>3. Pushes(f, E.m) /\ UNCHANGED verse
      BY <1>11, <2>2 DEF EvalRecipe
    <3> HIDE DEF f
    <3>4. FrameOK(f, tower) /\ f.k # "LiftK"
      BY <3>1, <3>2 DEF FrameOK, Frame
    <3>5. QED BY <1>3, <3>3, <3>4
  <2>3. QED BY <2>1, <2>2
<1>12. CASE EvalPerage
  <2>1. CASE Visible("Commit") = {}
    BY <1>12, <2>1, Unmoved DEF EvalPerage, Abort, End
  <2>2. CASE Visible("Commit") # {}
    <3> DEFINE f == [k |-> "PerageK"]
    <3>1. \E i \in DOMAIN tower : tower[i].kind = "Commit"
      BY <2>2, VisibleLayer
    <3>2. f.k = "PerageK"
      OBVIOUS
    <3>3. Pushes(f, E.e) /\ UNCHANGED verse
      BY <1>12, <2>2 DEF EvalPerage
    <3> HIDE DEF f
    <3>4. FrameOK(f, tower) /\ f.k # "LiftK"
      BY <3>1, <3>2 DEF FrameOK, Frame
    <3>5. QED BY <1>3, <3>3, <3>4
  <2>3. QED BY <2>1, <2>2
<1>13. CASE EvalLift
  <2>1. CASE Len(tower) - depth < 2
    BY <1>13, <2>1, Unmoved DEF EvalLift, Abort, End
  <2>2. CASE ~(Len(tower) - depth < 2)
    <3>1. Len(tower) \in Nat /\ depth \in 0..(Len(tower) - 1)
      BY DEF StackInv, StackOK, Layered
    <3>2. depth + 1 \in 0..(Len(tower) - 1)
      BY <2>2, <3>1
    <3>3. StackOK(Append(stack, [k |-> "LiftK", depth |-> depth]), tower, depth + 1)
      BY <3>1, <3>2, PushLift DEF StackInv
    <3>4. QED BY <1>13, <2>2, <3>3 DEF EvalLift, Continue, StackInv
  <2>3. QED BY <2>1, <2>2
<1>14. QED BY <1>1, <1>2, <1>4, <1>5, <1>6, <1>7, <1>8, <1>9, <1>10, <1>11, <1>12, <1>13
       DEF EvalStep

\* unwind cuts the stack off at a handler: the lowest LiftK frame it pops
\* saved the number of lifts that remain.
LEMMA CatchStack ==
    ASSUME NEW st, NEW tw, NEW d, StackOK(st, tw, d), Len(tw) \in Nat,
           NEW i \in DOMAIN st, st[i].k # "LiftK",
           NEW above, above = {j \in DOMAIN st : j > i /\ st[j].k = "LiftK"}
    PROVE  StackOK(SubSeq(st, 1, i - 1), tw, IF above = {} THEN d ELSE st[Min(above)].depth)
<1> DEFINE e == IF above = {} THEN d ELSE st[Min(above)].depth
<1>1. PICK S : st \in Seq(S)
  BY DEF StackOK
<1>2. /\ Len(st) \in Nat /\ DOMAIN st = 1..Len(st) /\ i \in 1..Len(st)
      /\ i - 1 \in 0..Len(st) /\ (i - 1) + 1 = i
  BY <1>1
<1>3. Lifts(st) \in SUBSET (1..Len(st)) /\ i \notin Lifts(st)
  BY <1>2 DEF Lifts
<1>4. above = {j \in Lifts(st) : j > i}
  BY DEF Lifts
<1>5. e = Cardinality(Below(st, i)) /\ e \in 0..(Len(tw) - 1)
  <2>1. CASE above = {}
    <3>1. Below(st, i) = Lifts(st)
      BY <1>2, <1>3, <1>4, <2>1 DEF Below
    <3>2. QED BY <2>1, <3>1 DEF StackOK
  <2>2. CASE above # {}
    <3>1. above \in SUBSET Nat
      BY <1>3, <1>4
    <3>2. PICK m : m = Min(above) /\ m \in above /\ \A x \in above : m <= x
      BY <2>2, <3>1, MinIsLeast
    <3>3. m \in Lifts(st) /\ m > i /\ m \in 1..Len(st) /\ st[m].k = "LiftK"
      BY <1>3, <1>4, <3>2 DEF Lifts
    <3>4. Below(st, m) = Below(st, i)
      <4>1. \A j \in Lifts(st) : j < m <=> j < i
        <5>1. SUFFICES ASSUME NEW j \in Lifts(st) PROVE j < m <=> j < i
          OBVIOUS
        <5>2. j \in Nat /\ i \in Nat /\ m \in Nat /\ j # i /\ m > i
          BY <1>2, <1>3, <3>3
        <5>3. j > i => m <= j
          BY <1>4, <3>2
        <5>4. QED BY <5>2, <5>3
      <4>2. QED BY <4>1 DEF Below
    <3>5. st[m].depth = Cardinality(Below(st, m)) /\ FrameOK(st[m], tw)
      BY <3>3 DEF StackOK
    <3>6. QED BY <2>2, <3>2, <3>3, <3>4, <3>5 DEF FrameOK
  <2>3. QED BY <2>1, <2>2
<1> HIDE DEF e
<1>6. StackOK(SubSeq(st, 1, i - 1), tw, e)
  BY <1>2, <1>5, CutStack
<1>7. QED BY <1>6 DEF e

\* Replacing what a layer holds, not its kind.
LEMMA SetLayer ==
    ASSUME NEW st, NEW tw, NEW d, NEW mode, StackOK(st, tw, d), Layered(tw, mode),
           NEW l \in DOMAIN tw, NEW x, x.kind = tw[l].kind,
           x.kind = "Writer" => x = [kind |-> "Writer", plan |-> x.plan],
           NEW tv, tv = [tw EXCEPT ![l] = x]
    PROVE  StackOK(st, tv, d) /\ Layered(tv, mode) /\ Len(tv) = Len(tw)
<1>1. PICK S : tw \in Seq(S)
  BY DEF Layered
<1>2. tw \in Seq(S \cup {x}) /\ tv \in Seq(S \cup {x}) /\ Len(tv) = Len(tw) /\ DOMAIN tv = DOMAIN tw
  BY <1>1
<1>3. tv[l] = x /\ \A j \in DOMAIN tw : j # l => tv[j] = tw[j]
  BY <1>1
<1>4. \A j \in DOMAIN tw : tv[j].kind = tw[j].kind
  BY <1>3
<1>5. StackOK(st, tv, d)
  BY <1>2, <1>4, SameLayers
<1>6. Kinds(tv) = Kinds(tw)
  BY <1>2, <1>4 DEF Kinds
<1>7. \A j \in DOMAIN tv : tv[j].kind = "Writer" => tv[j] = [kind |-> "Writer", plan |-> tv[j].plan]
  <2>1. SUFFICES ASSUME NEW j \in DOMAIN tw, tv[j].kind = "Writer"
                 PROVE  tv[j] = [kind |-> "Writer", plan |-> tv[j].plan]
    BY <1>2
  <2>2. CASE j = l
    BY <1>3, <2>1, <2>2
  <2>3. CASE j # l
    BY <1>3, <2>1, <2>3 DEF Layered
  <2>4. QED BY <2>2, <2>3
<1>8. Layered(tv, mode)
  BY <1>2, <1>6, <1>7 DEF Layered
<1>9. QED BY <1>2, <1>5, <1>8

\* value_step.
LEMMA ValueStack == StackInv /\ ValueStep => StackInv'
<1> SUFFICES ASSUME StackInv, ValueStep PROVE StackInv'
  OBVIOUS
<1> USE DEF Meets, Turn, driver
<1>1. Len(tower) \in Nat /\ DOMAIN tower = 1..Len(tower)
  BY DEF StackInv, Layered
<1>2. ASSUME stack # <<>>, Top.k # "LiftK"
      PROVE  FrameOK(Top, tower) /\ StackOK(Rest, tower, depth)
  BY <1>1, <1>2, PopFrame DEF StackInv, Top, Rest
<1>3. ASSUME stack # <<>>, Top.k # "LiftK", NEW c, Goes(c), UNCHANGED verse
      PROVE  StackInv'
  BY <1>2, <1>3 DEF Goes, Continue, StackInv
<1>4. ASSUME NEW d, Fail(d), UNCHANGED verse PROVE StackInv'
  BY <1>4, Unmoved DEF Fail, Abort, End
<1>5. CASE MeetAppArg
  <2> DEFINE f == [k |-> "AppCall", f |-> V]
  <2>1. StackOK(Rest, tower, depth)
    BY <1>2, <1>5 DEF MeetAppArg
  <2>2. FrameOK(f, tower) /\ f.k # "LiftK"
    BY DEF FrameOK, Frame
  <2>3. stack' = Append(Rest, f) /\ UNCHANGED <<verse, tower, depth, thrown>>
    BY <1>5 DEF MeetAppArg, Continue
  <2> HIDE DEF f
  <2>4. StackOK(Append(Rest, f), tower, depth)
    BY <2>1, <2>2, PushFrame
  <2>5. QED BY <2>3, <2>4 DEF StackInv
<1>6. CASE MeetAppCall \/ MeetFixK
  BY <1>2, <1>6 DEF MeetAppCall, MeetFixK, Calls, Continue, StackInv
<1>7. CASE MeetIfK
  BY <1>3, <1>4, <1>7 DEF MeetIfK
<1>8. CASE MeetBindK \/ MeetRecipeH
  BY <1>3, <1>8 DEF MeetBindK, MeetRecipeH
<1>9. CASE Cadence
  BY <1>9, Unmoved DEF Cadence, End
<1>10. CASE MeetClamaK
  <2>1. /\ StackOK(Rest, tower, depth) /\ Layered(tower, verse.mode)
        /\ Top.layer \in 1..Len(tower)
    BY <1>1, <1>2, <1>10 DEF MeetClamaK, FrameOK, StackInv
  <2>2. thrown' = Top.layer /\ UNCHANGED <<verse, tower>>
    BY <1>10 DEF MeetClamaK
  <2>3. CASE Handlers(Top.layer) = {}
    <3>1. UNCHANGED <<stack, depth>>
      BY <1>10, <2>3 DEF MeetClamaK, End
    <3>2. QED BY <2>1, <2>2, <3>1 DEF StackInv
  <2>4. CASE Handlers(Top.layer) # {}
    <3> DEFINE i == Max(Handlers(Top.layer))
    <3>1. PICK S : Rest \in Seq(S)
      BY <2>1 DEF StackOK
    <3>2. Handlers(Top.layer) \in SUBSET (0..Len(Rest)) /\ Len(Rest) \in Nat
      BY <3>1 DEF Handlers
    <3>3. i \in Handlers(Top.layer)
      BY <2>4, <3>2, MaxIsGreatest
    <3>4. i \in DOMAIN Rest /\ Rest[i].k # "LiftK"
      BY <3>3 DEF Handlers
    <3>5. Catch(i)
      BY <1>10, <2>4 DEF MeetClamaK
    <3> HIDE DEF i
    <3>6. /\ stack' = SubSeq(Rest, 1, i - 1)
          /\ depth' = IF LiftsAbove(i) = {} THEN depth ELSE Rest[Min(LiftsAbove(i))].depth
      BY <3>5 DEF Catch, Continue
    <3>7. LiftsAbove(i) = {j \in DOMAIN Rest : j > i /\ Rest[j].k = "LiftK"}
      BY DEF LiftsAbove
    <3>8. StackOK(stack', tower, depth')
      BY <1>1, <2>1, <3>4, <3>6, <3>7, CatchStack
    <3>9. QED BY <2>1, <2>2, <3>8 DEF StackInv
  <2>5. QED BY <2>3, <2>4
<1>11. CASE MeetPoneK
  <2> DEFINE x == [kind |-> "State", st |-> V]
  <2>1. /\ StackOK(Rest, tower, depth) /\ Layered(tower, verse.mode)
        /\ Top.layer \in DOMAIN tower /\ tower[Top.layer].kind = "State"
    BY <1>2, <1>11 DEF MeetPoneK, FrameOK, StackInv
  <2>2. x.kind = "State"
    OBVIOUS
  <2>3. /\ stack' = Rest /\ tower' = [tower EXCEPT ![Top.layer] = x]
        /\ UNCHANGED <<verse, depth, thrown>>
    BY <1>11 DEF MeetPoneK, Continue
  <2> HIDE DEF x
  <2>4. StackOK(Rest, tower', depth) /\ Layered(tower', verse.mode) /\ Len(tower') = Len(tower)
    <3> DEFINE l == Top.layer
    <3> DEFINE tv == [tower EXCEPT ![l] = x]
    <3>1. /\ l \in DOMAIN tower /\ x.kind = tower[l].kind
          /\ x.kind = "Writer" => x = [kind |-> "Writer", plan |-> x.plan]
      BY <2>1, <2>2
    <3> HIDE DEF l
    <3>2. StackOK(Rest, tv, depth) /\ Layered(tv, verse.mode) /\ Len(tv) = Len(tower)
      BY <2>1, <3>1, SetLayer
    <3>3. QED BY <2>3, <3>2 DEF l
  <2>5. QED BY <2>3, <2>4 DEF StackInv
<1>12. CASE MeetMitteK
  <2>1. CASE V.ty \notin {"cmd", "plan"}
    BY <1>4, <1>12, <2>1 DEF MeetMitteK
  <2>2. CASE V.ty \in {"cmd", "plan"}
    <3> DEFINE l == Top.layer
    <3> DEFINE more == IF V.ty = "cmd" THEN <<V>> ELSE V.plan
    <3> DEFINE x == [kind |-> "Writer", plan |-> tower[l].plan \o more]
    <3>1. /\ StackOK(Rest, tower, depth) /\ Layered(tower, verse.mode)
          /\ l \in DOMAIN tower /\ tower[l].kind = "Writer"
      BY <1>2, <1>12 DEF MeetMitteK, FrameOK, StackInv
    <3>2. tower[l] = [kind |-> "Writer", plan |-> tower[l].plan]
      BY <3>1 DEF Layered
    <3>3. /\ stack' = Rest
          /\ tower' = [tower EXCEPT ![l] = [tower[l] EXCEPT !.plan = tower[l].plan \o more]]
          /\ UNCHANGED <<verse, depth, thrown>>
      BY <1>12, <2>2 DEF MeetMitteK, Continue
    <3>4. [tower[l] EXCEPT !.plan = tower[l].plan \o more] = x
      <4> DEFINE q == tower[l].plan \o more
      <4>1. ASSUME NEW r, NEW p, NEW z, r = [kind |-> "Writer", plan |-> p]
            PROVE  [r EXCEPT !.plan = z] = [kind |-> "Writer", plan |-> z]
        BY <4>1
      <4> HIDE DEF l, more, q
      <4>2. [tower[l] EXCEPT !.plan = q] = [kind |-> "Writer", plan |-> q]
        BY <3>2, <4>1
      <4>3. QED BY <4>2 DEF q
    <3>5. x.kind = "Writer" /\ x = [kind |-> "Writer", plan |-> x.plan]
      OBVIOUS
    <3>6. tower' = [tower EXCEPT ![l] = x]
      BY <3>3, <3>4
    <3> DEFINE tv == [tower EXCEPT ![l] = x]
    <3> HIDE DEF x, l
    <3>7. StackOK(Rest, tv, depth) /\ Layered(tv, verse.mode) /\ Len(tv) = Len(tower)
      BY <3>1, <3>5, SetLayer
    <3>8. QED BY <3>3, <3>6, <3>7 DEF StackInv
  <2>3. QED BY <2>1, <2>2
<1>13. CASE MeetPerageK
  BY <1>4, <1>13, Unmoved DEF MeetPerageK, End
<1>14. CASE MeetResolveK
  BY <1>3, <1>4, <1>14 DEF MeetResolveK
<1>15. CASE MeetLiftK
  <2>1. StackOK(Rest, tower, Top.depth)
    BY <1>1, <1>15, PopFrame DEF MeetLiftK, StackInv, Top, Rest
  <2>2. QED BY <1>15, <2>1 DEF MeetLiftK, Continue, StackInv
<1>16. CASE MeetBuiltinPost
  BY <1>3, <1>4, <1>16 DEF MeetBuiltinPost
<1>17. QED BY <1>5, <1>6, <1>7, <1>8, <1>9, <1>10, <1>11, <1>12, <1>13, <1>14, <1>15, <1>16
       DEF ValueStep

\* apply.
LEMMA ApplyStack == StackInv /\ ApplyStep => StackInv'
<1> SUFFICES ASSUME StackInv, ApplyStep PROVE StackInv'
  OBVIOUS
<1> USE DEF CallsApply, driver
<1>1. CASE ApplyClosure \/ ApplyOther
  BY <1>1, Unmoved DEF ApplyClosure, ApplyOther, Applied, Continue, End
<1>2. CASE ApplyBuiltin
  <2> DEFINE f == [k |-> "BuiltinPost"]
  <2>1. UNCHANGED <<verse, tower, depth, thrown>> /\ stack' \in {stack, Append(stack, f)}
    BY <1>2 DEF ApplyBuiltin, Applied, Continue, End
  <2>2. FrameOK(f, tower) /\ f.k # "LiftK"
    BY DEF FrameOK, Frame
  <2> HIDE DEF f
  <2>3. QED BY <2>1, <2>2, Unmoved, Pushed
<1>3. QED BY <1>1, <1>2 DEF ApplyStep

\* Every step of the machine and its driver keeps the invariant.
LEMMA InvStep == IInv /\ [Next]_vars => IInv'
<1> SUFFICES ASSUME IInv, [Next]_vars PROVE IInv'
  OBVIOUS
<1>1. CASE Next
  <2>1. DriverInv'
    BY <1>1, DriverStep DEF IInv
  <2>2. StackInv'
    <3>1. CASE EvalStep
      BY <3>1, EvalStack DEF IInv
    <3>2. CASE ValueStep
      BY <3>2, ValueStack DEF IInv
    <3>3. CASE ApplyStep
      BY <3>3, ApplyStack DEF IInv
    <3>4. CASE RunOut \/ Resume \/ Rests
      BY <3>4, Unmoved DEF RunOut, Resume, Rests, machine, driver, vars, IInv
    <3>5. QED BY <1>1, <3>1, <3>2, <3>3, <3>4 DEF Next, Step
  <2>3. QED BY <2>1, <2>2 DEF IInv
<1>2. CASE UNCHANGED vars
  <2>1. StackInv'
    BY <1>2, Unmoved DEF vars, machine, driver, IInv
  <2>2. DriverInv'
    BY <1>2 DEF vars, machine, driver, IInv, DriverInv
  <2>3. QED BY <2>1, <2>2 DEF IInv
<1>3. QED BY <1>1, <1>2

----------------------------------------------------------------------------
(* How a verse ends.                                                       *)

\* Only the commit mode has a Commit layer (Mode::tower).
LEMMA CommitLayer ==
    ASSUME NEW m \in Mode, NEW tw, Layered(tw, m), NEW i \in DOMAIN tw, tw[i].kind = "Commit"
    PROVE  m = "Mixolydian"
<1>1. Kinds(tw) = Tower(m)
  BY DEF Layered
<1>2. i \in DOMAIN Tower(m) /\ Tower(m)[i] = "Commit"
  BY <1>1 DEF Kinds
<1>3. CASE m \in {"Dorian", "Phrygian", "Lydian", "Hypomixolydian"}
  <2>1. \E x \in {"Maybe", "Except", "State", "Writer"} : Tower(m) = <<x>>
    BY <1>3 DEF Tower
  <2>2. QED BY <1>2, <2>1
<1>4. CASE m \in {"Hypodorian", "Hypophrygian", "Hypolydian"}
  <2>1. \E x \in {"Maybe", "Except", "State"} : Tower(m) = <<x, x>>
    BY <1>4 DEF Tower
  <2>2. QED BY <1>2, <2>1
<1>5. QED BY <1>3, <1>4 DEF Mode

\* A dissonance is none of the outcomes.
LEMMA DissonanceErr ==
    /\ \A op : WrongMode(op).err # "none"
    /\ \A n : UnboundVar(n).err # "none"
    /\ \A n, g : Unresolved(n, g).err # "none"
    /\ \A v : User(v).err # "none"
    /\ \A w, v : Dissonant(w, v).err # "none"
    /\ Silent.err # "none" /\ Premature.err # "none" /\ Unconsecrated.err # "none"
    /\ OutOfFuel.err # "none"
BY DEF WrongMode, UnboundVar, Unresolved, User, Dissonant, Silent, Premature, Unconsecrated, OutOfFuel

\* An answer of a builtin that fails carries a dissonance.
FailsWell(answer) == answer.answer = "fails" => answer.d.err # "none"

LEMMA FailsDissonant ==
    /\ \A w, v : FailsWell(Fails(Dissonant(w, v)))
    /\ \A n : FailsWell(Fails(UnboundVar(n)))
    /\ \A v : FailsWell(Done(v))
    /\ \A f, a : FailsWell(Apply(f, a))
<1>1. \A d : Fails(d).answer = "fails" /\ Fails(d).d = d
  BY DEF Fails
<1>2. \A v : Done(v).answer = "done"
  BY DEF Done
<1>3. \A f, a : Apply(f, a).answer = "apply"
  BY DEF Apply
<1>4. QED BY <1>1, <1>2, <1>3, DissonanceErr DEF FailsWell

LEMMA TypedFails ==
    ASSUME NEW ty, NEW vs, NEW answer, FailsWell(answer)
    PROVE  FailsWell(Typed(ty, vs, answer))
BY FailsDissonant DEF Typed

LEMMA RecordGetFails ==
    ASSUME NEW v, NEW key
    PROVE  FailsWell(RecordGet(v, key))
<1> DEFINE answer == IF key \in DOMAIN v.map THEN Done(v.map[key]) ELSE Fails(UnboundVar(key))
<1>1. FailsWell(answer)
  BY FailsDissonant
<1> HIDE DEF answer
<1>2. FailsWell(Typed("record", <<v>>, answer))
  BY <1>1, TypedFails
<1>3. QED BY <1>2 DEF RecordGet, answer

\* builtins::call answers with a value, a closure to apply or a dissonance.
LEMMA CallFails ==
    ASSUME NEW name, NEW args
    PROVE  FailsWell(Call(name, args))
<1>1. ASSUME NEW ty, NEW vs, NEW v PROVE FailsWell(Typed(ty, vs, Done(v)))
  BY FailsDissonant, TypedFails
<1>2. CASE name \in {"add", "sub", "mul", "div"}
  <2>1. Call(name, args) = Typed("num", args, Done(Num(F64(name, Nums(args)))))
    BY <1>2 DEF Call
  <2>2. QED BY <1>1, <2>1
<1>3. CASE name \in {"le", "lt"}
  <2>1. Call(name, args) = Typed("num", args, Done(Bool(Holds(name, Nums(args)))))
    BY <1>3 DEF Call
  <2>2. QED BY <1>1, <2>1
<1>4. CASE name = "eq"
  <2>1. Call(name, args) = Done(Bool(Same(args[1], args[2])))
    BY <1>4 DEF Call
  <2>2. QED BY <2>1, FailsDissonant
<1>5. CASE name = "not"
  <2>1. Call(name, args) = Typed("bool", args, Done(Bool(~args[1].bool)))
    BY <1>5 DEF Call
  <2>2. QED BY <1>1, <2>1
<1>6. CASE name \in {"dist", "mass", "genus"}
  <2>1. Call(name, args) = RecordGet(args[1], name)
    BY <1>6 DEF Call
  <2>2. QED BY <2>1, RecordGetFails
<1>7. CASE name = "outgassing"
  <2> DEFINE got == RecordGet(args[1], name)
  <2>1. Call(name, args) \in {got, Done(Num(F64("vent", <<>>)))}
    BY <1>7 DEF Call
  <2>2. QED BY <2>1, RecordGetFails, FailsDissonant
<1>8. CASE name = "safe"
  <2> DEFINE mass == RecordGet(args[1], "mass")
             dist == RecordGet(args[1], "dist")
             operands == <<mass.value, dist.value, args[2]>>
  <2>1. Call(name, args) \in {mass, dist, Fails(Dissonant("num", mass.value)),
                              Typed("num", operands, Done(Bool(Holds("safe", Nums(operands)))))}
    BY <1>8 DEF Call
  <2>2. FailsWell(mass) /\ FailsWell(dist)
    BY RecordGetFails
  <2>3. FailsWell(Typed("num", operands, Done(Bool(Holds("safe", Nums(operands))))))
    BY <1>1
  <2> HIDE DEF mass, dist, operands
  <2>4. QED BY <2>1, <2>2, <2>3, FailsDissonant
<1>9. CASE name = "solve"
  <2>1. Call(name, args) = Apply(args[1], args[2])
    BY <1>9 DEF Call
  <2>2. QED BY <2>1, FailsDissonant
<1>10. CASE name = "deflect"
  <2>1. Call(name, args) = Typed("num", args, Done(Field(1, args[1].num, 0)))
    BY <1>10 DEF Call
  <2>2. QED BY <1>1, <2>1
<1>11. CASE name \in {"target", "dv_of", "at"}
  <2>1. \E v : Call(name, args) = Typed("field", args, Done(v))
    BY <1>11 DEF Call
  <2>2. QED BY <1>1, <2>1
<1>12. CASE name = "cmd"
  <2>1. \E v : Call(name, args) = Typed("num", args, Done(v))
    BY <1>12 DEF Call
  <2>2. QED BY <1>1, <2>1
<1>13. CASE name = "plan_of"
  <2>1. \E v : Call(name, args) = Typed("field", args, Done(v))
    BY <1>13 DEF Call
  <2>2. QED BY <1>1, <2>1
<1>14. CASE name \notin {"add", "sub", "mul", "div", "le", "lt", "eq", "not", "dist", "mass", "genus",
                          "outgassing", "safe", "solve", "deflect", "target", "dv_of", "at", "cmd",
                          "plan_of"}
  <2>1. \E v : Call(name, args) =
                 Typed("num", <<args[1]>>,
                       IF args[2].ty \notin {"genus", "str"} THEN Fails(Dissonant("genus", args[2]))
                       ELSE Typed("num", <<args[3], args[4]>>, Done(v)))
    BY <1>14 DEF Call
  <2>2. PICK v : Call(name, args) =
                   Typed("num", <<args[1]>>,
                         IF args[2].ty \notin {"genus", "str"} THEN Fails(Dissonant("genus", args[2]))
                         ELSE Typed("num", <<args[3], args[4]>>, Done(v)))
    BY <2>1
  <2> DEFINE answer == IF args[2].ty \notin {"genus", "str"} THEN Fails(Dissonant("genus", args[2]))
                       ELSE Typed("num", <<args[3], args[4]>>, Done(v))
  <2>3. FailsWell(answer)
    BY <1>1, FailsDissonant
  <2>4. Call(name, args) = Typed("num", <<args[1]>>, answer)
    BY <2>2
  <2> HIDE DEF answer
  <2>5. QED BY <2>3, <2>4, TypedFails
<1>15. QED BY <1>2, <1>3, <1>4, <1>5, <1>6, <1>7, <1>8, <1>9, <1>10, <1>11, <1>12, <1>13, <1>14

\* A turn of eval_step, of value_step and of apply that ends the verse.
LEMMA EvalEnds ==
    ASSUME EvalStep
    PROVE  phase' = phase \/ result'.err # "none"
<1> USE DEF Yields, Pushes, Continue, Abort, End
<1>1. CASE EvalLit \/ EvalLam \/ EvalArg \/ EvalApp \/ EvalIf \/ EvalFix \/ EvalPure
  BY <1>1 DEF EvalLit, EvalLam, EvalArg, EvalApp, EvalIf, EvalFix, EvalPure
<1>2. CASE EvalReturn \/ EvalBind \/ EvalResolve
  BY <1>2 DEF EvalReturn, EvalBind, EvalResolve
<1>3. CASE EvalVar \/ EvalAsk
  BY <1>3, DissonanceErr DEF EvalVar, EvalAsk
<1>4. CASE EvalNihil
  BY <1>4, DissonanceErr DEF EvalNihil
<1>5. CASE EvalClama \/ EvalPone \/ EvalMitte
  BY <1>5, DissonanceErr DEF EvalClama, EvalPone, EvalMitte, OnLayer
<1>6. CASE EvalRecipe \/ EvalLege \/ EvalPerage \/ EvalLift
  BY <1>6, DissonanceErr DEF EvalRecipe, EvalLege, EvalPerage, EvalLift
<1>7. QED BY <1>1, <1>2, <1>3, <1>4, <1>5, <1>6 DEF EvalStep

LEMMA ValueEnds ==
    ASSUME ValueStep
    PROVE  \/ phase' = phase
           \/ result'.err # "none"
           \/ result'.committed = <<>>
           \/ Meets("PerageK") /\ result'.committed = <<V.plan>> /\ V.plan # <<>>
<1> USE DEF Goes, Calls, Continue, Fail, Abort, End
<1>1. CASE MeetAppArg \/ MeetAppCall \/ MeetBindK \/ MeetRecipeH \/ MeetPoneK \/ MeetFixK \/ MeetLiftK
  BY <1>1 DEF MeetAppArg, MeetAppCall, MeetBindK, MeetRecipeH, MeetPoneK, MeetFixK, MeetLiftK
<1>2. CASE MeetIfK \/ MeetMitteK
  BY <1>2, DissonanceErr DEF MeetIfK, MeetMitteK
<1>3. CASE MeetResolveK
  BY <1>3, DissonanceErr DEF MeetResolveK
<1>4. CASE MeetClamaK
  BY <1>4, DissonanceErr DEF MeetClamaK, Catch
<1>5. \A v, c : Finish(v, c).committed = c
  BY DEF Finish, Outcome
<1>6. CASE Cadence
  BY <1>5, <1>6 DEF Cadence
<1>7. CASE MeetPerageK
  BY <1>5, <1>7, DissonanceErr DEF MeetPerageK
<1>8. CASE MeetBuiltinPost
  <2> DEFINE post == SolveDv(V)
  <2>1. FailsWell(post)
    BY FailsDissonant, TypedFails DEF SolveDv
  <2>2. post.answer \in {"done", "fails"}
    BY DEF SolveDv, Typed, Done, Fails
  <2>3. phase' = phase \/ (post.answer # "done" /\ result' = post.d)
    BY <1>8 DEF MeetBuiltinPost
  <2> HIDE DEF post
  <2>4. QED BY <2>1, <2>2, <2>3 DEF FailsWell
<1>9. QED BY <1>1, <1>2, <1>3, <1>4, <1>6, <1>7, <1>8 DEF ValueStep

LEMMA ApplyEnds ==
    ASSUME ApplyStep
    PROVE  phase' = phase \/ result'.err # "none"
<1> USE DEF Applied, Continue, End
<1>1. CASE ApplyClosure
  BY <1>1 DEF ApplyClosure
<1>2. CASE ApplyOther
  BY <1>2, DissonanceErr DEF ApplyOther
<1>3. CASE ApplyBuiltin
  <2> DEFINE r == Call(control.f.name, Append(control.f.args, control.a))
  <2>1. phase' = phase \/ (r.answer = "fails" /\ result' = r.d)
    BY <1>3 DEF ApplyBuiltin
  <2>2. FailsWell(r)
    BY CallFails
  <2> HIDE DEF r
  <2>3. QED BY <2>1, <2>2 DEF FailsWell
<1>4. QED BY <1>1, <1>2, <1>3 DEF ApplyStep

LEMMA CommitStep == IInv /\ CommitIsConsecrated /\ [Next]_vars => CommitIsConsecrated'
<1> SUFFICES ASSUME IInv, CommitIsConsecrated, [Next]_vars PROVE CommitIsConsecrated'
  OBVIOUS
<1>1. ASSUME phase' # "done" PROVE CommitIsConsecrated'
  BY <1>1 DEF CommitIsConsecrated
<1>2. ASSUME result'.err # "none" PROVE CommitIsConsecrated'
  BY <1>2 DEF CommitIsConsecrated
<1>3. ASSUME UNCHANGED <<verse, phase, result>> PROVE CommitIsConsecrated'
  BY <1>3 DEF CommitIsConsecrated
<1>4. CASE EvalStep
  <2>1. phase = "sing"
    BY <1>4 DEF EvalStep, EvalLit, EvalVar, EvalLam, EvalApp, EvalIf, EvalFix, EvalPure,
       EvalReturn, EvalBind, EvalArg, EvalAsk, EvalResolve, EvalNihil, EvalClama, EvalRecipe,
       EvalLege, EvalPone, EvalMitte, EvalPerage, EvalLift, Evaluates, Turn
  <2>2. QED BY <1>1, <1>2, <1>4, <2>1, EvalEnds
<1>5. CASE ValueStep
  <2>1. phase = "sing" /\ verse' = verse
    BY <1>5 DEF ValueStep, MeetAppArg, MeetAppCall, MeetIfK, MeetBindK, Cadence, MeetClamaK,
       MeetRecipeH, MeetPoneK, MeetMitteK, MeetPerageK, MeetResolveK, MeetFixK, MeetLiftK,
       MeetBuiltinPost, Meets, Turn, driver
  <2>2. CASE Meets("PerageK") /\ result'.committed = <<V.plan>> /\ V.plan # <<>>
    <3>1. FrameOK(Top, tower) /\ Top.k = "PerageK"
      <4>1. Len(tower) \in Nat
        BY DEF IInv, StackInv, Layered
      <4>2. QED BY <2>2, <4>1, PopFrame DEF IInv, StackInv, Meets, Top
    <3>2. \E i \in DOMAIN tower : tower[i].kind = "Commit"
      BY <3>1 DEF FrameOK
    <3>3. verse.mode = "Mixolydian"
      BY <3>2, CommitLayer DEF IInv, StackInv
    <3>4. result'.committed[1] # <<>>
      BY <2>2
    <3>5. QED BY <2>1, <3>3, <3>4 DEF CommitIsConsecrated
  <2>3. CASE result'.committed = <<>>
    BY <2>3 DEF CommitIsConsecrated
  <2>4. QED BY <1>1, <1>2, <1>5, <2>1, <2>2, <2>3, ValueEnds
<1>6. CASE ApplyStep
  <2>1. phase = "sing"
    BY <1>6 DEF ApplyStep, ApplyClosure, ApplyBuiltin, ApplyOther, CallsApply
  <2>2. QED BY <1>1, <1>2, <1>6, <2>1, ApplyEnds
<1>7. CASE RunOut
  <2>1. phase' = "yield" \/ result' = OutOfFuel
    BY <1>7 DEF RunOut
  <2>2. QED BY <1>1, <1>2, <2>1, DissonanceErr
<1>8. CASE Resume
  BY <1>1, <1>8 DEF Resume
<1>9. CASE Rests \/ UNCHANGED vars
  BY <1>3, <1>9 DEF Rests, vars, driver
<1>10. QED BY <1>4, <1>5, <1>6, <1>7, <1>8, <1>9 DEF Next, Step

----------------------------------------------------------------------------
(* The fuel runs down.                                                     *)

\* The turns a verse may still take, with the yields between its slices.
TurnsLeft ==
    IF phase = "done" THEN 0
    ELSE (MAX_SLICES - slices - 1) * (FUEL_SLICE + 2)
           + IF phase = "yield" THEN FUEL_SLICE + 2 ELSE fuel + 1

LEMMA Product == \A m, n \in Nat : m * n \in Nat /\ (m + 1) * n = m * n + n
OBVIOUS

\* A slice has been used up: the next one is taken from what is left.
LEMMA SliceOff ==
    ASSUME NEW s \in Nat, s + 1 < MAX_SLICES
    PROVE  (MAX_SLICES - s - 1) * (FUEL_SLICE + 2)
             = (MAX_SLICES - (s + 1) - 1) * (FUEL_SLICE + 2) + (FUEL_SLICE + 2)
<1> DEFINE m == MAX_SLICES - (s + 1) - 1
           n == FUEL_SLICE + 2
<1>1. m \in Nat /\ n \in Nat /\ MAX_SLICES - s - 1 = m + 1
  BY FuelAssumption
<1> HIDE DEF m, n
<1>2. (m + 1) * n = m * n + n
  BY <1>1, Product
<1> QED BY <1>1, <1>2 DEF m, n

LEMMA TurnsAreCounted == DriverInv => TurnsLeft \in Nat
<1> SUFFICES ASSUME DriverInv PROVE TurnsLeft \in Nat
  OBVIOUS
<1>1. CASE phase = "done"
  BY <1>1 DEF TurnsLeft
<1>2. CASE phase # "done"
  <2> DEFINE m == MAX_SLICES - slices - 1
             n == FUEL_SLICE + 2
  <2>1. m \in Nat /\ n \in Nat /\ fuel \in Nat
    BY <1>2, FuelAssumption DEF DriverInv
  <2>2. TurnsLeft = m * n + IF phase = "yield" THEN n ELSE fuel + 1
    BY <1>2 DEF TurnsLeft
  <2> HIDE DEF m, n
  <2>3. m * n \in Nat
    BY <2>1, Product
  <2> QED BY <2>1, <2>2, <2>3
<1> QED BY <1>1, <1>2

\* Every step of the machine uses up a turn, but for the calls of apply
\* within one.
LEMMA TurnsRunDown ==
    DriverInv /\ Step =>
        IF ApplyStep THEN TurnsLeft' <= TurnsLeft ELSE TurnsLeft' < TurnsLeft
<1> SUFFICES ASSUME DriverInv, Step
             PROVE  IF ApplyStep THEN TurnsLeft' <= TurnsLeft ELSE TurnsLeft' < TurnsLeft
  OBVIOUS
<1> DEFINE left == (MAX_SLICES - slices - 1) * (FUEL_SLICE + 2)
<1>1. TurnsLeft \in Nat
  BY TurnsAreCounted
<1>2. fuel \in Nat /\ slices \in Nat /\ FUEL_SLICE \in Nat /\ MAX_SLICES \in Nat
  BY FuelAssumption DEF DriverInv
<1>3. phase # "done" => left \in Nat /\ TurnsLeft = left + IF phase = "yield" THEN FUEL_SLICE + 2 ELSE fuel + 1
  <2> DEFINE m == MAX_SLICES - slices - 1
             n == FUEL_SLICE + 2
  <2>1. phase # "done" => m \in Nat /\ n \in Nat
    BY FuelAssumption DEF DriverInv
  <2>2. phase # "done" => TurnsLeft = m * n + IF phase = "yield" THEN n ELSE fuel + 1
    BY DEF TurnsLeft
  <2>3. left = m * n
    OBVIOUS
  <2> HIDE DEF m, left
  <2> QED BY <2>1, <2>2, <2>3, Product
<1>4. slices' = slices /\ phase' # "done" =>
          TurnsLeft' = left + IF phase' = "yield" THEN FUEL_SLICE + 2 ELSE fuel' + 1
  BY DEF TurnsLeft
<1>5. phase' = "done" => TurnsLeft' = 0
  BY DEF TurnsLeft
<1> HIDE DEF left
<1>6. CASE EvalStep
  <2>1. phase = "sing" /\ fuel > 0 /\ fuel' = fuel - 1 /\ slices' = slices
    BY <1>6 DEF EvalStep, EvalLit, EvalVar, EvalLam, EvalApp, EvalIf, EvalFix, EvalPure,
       EvalReturn, EvalBind, EvalArg, EvalAsk, EvalResolve, EvalNihil, EvalClama, EvalRecipe,
       EvalLege, EvalPone, EvalMitte, EvalPerage, EvalLift, Evaluates, Turn, driver
  <2>2. phase' = phase \/ phase' = "done"
    BY <1>6 DEF EvalStep, EvalLit, EvalVar, EvalLam, EvalApp, EvalIf, EvalFix, EvalPure,
       EvalReturn, EvalBind, EvalArg, EvalAsk, EvalResolve, EvalNihil, EvalClama, EvalRecipe,
       EvalLege, EvalPone, EvalMitte, EvalPerage, EvalLift, OnLayer, Yields, Pushes, Abort,
       Continue, End
  <2> QED BY <1>2, <1>3, <1>4, <1>5, <2>1, <2>2
<1>7. CASE ValueStep
  <2>1. phase = "sing" /\ fuel > 0 /\ fuel' = fuel - 1 /\ slices' = slices
    BY <1>7 DEF ValueStep, MeetAppArg, MeetAppCall, MeetIfK, MeetBindK, Cadence, MeetClamaK,
       MeetRecipeH, MeetPoneK, MeetMitteK, MeetPerageK, MeetResolveK, MeetFixK, MeetLiftK,
       MeetBuiltinPost, Meets, Turn, driver
  <2>2. phase' = phase \/ phase' = "done"
    BY <1>7 DEF ValueStep, MeetAppArg, MeetAppCall, MeetIfK, MeetBindK, Cadence, MeetClamaK,
       MeetRecipeH, MeetPoneK, MeetMitteK, MeetPerageK, MeetResolveK, MeetFixK, MeetLiftK,
       MeetBuiltinPost, Catch, Calls, Goes, Fail, Abort, Continue, End
  <2> QED BY <1>2, <1>3, <1>4, <1>5, <2>1, <2>2
<1>8. CASE ApplyStep
  <2>1. phase = "sing" /\ fuel' = fuel /\ slices' = slices
    BY <1>8 DEF ApplyStep, ApplyClosure, ApplyBuiltin, ApplyOther, CallsApply, driver
  <2>2. phase' = phase \/ phase' = "done"
    BY <1>8 DEF ApplyStep, ApplyClosure, ApplyBuiltin, ApplyOther, Applied, Continue, End
  <2>3. TurnsLeft' <= TurnsLeft
    BY <1>2, <1>3, <1>4, <1>5, <2>1, <2>2
  <2> QED BY <1>8, <2>3
<1>9. CASE RunOut
  <2>1. phase = "sing" /\ fuel = 0 /\ slices' = slices + 1
        /\ (IF slices' >= MAX_SLICES THEN phase' = "done" ELSE phase' = "yield")
    BY <1>9 DEF RunOut
  <2>2. CASE slices + 1 < MAX_SLICES
    <3>1. TurnsLeft' = (MAX_SLICES - (slices + 1) - 1) * (FUEL_SLICE + 2) + (FUEL_SLICE + 2)
      BY <1>2, <2>1, <2>2 DEF TurnsLeft
    <3>2. TurnsLeft' = left
      BY <1>2, <2>2, <3>1, SliceOff DEF left
    <3> QED BY <1>2, <1>3, <2>1, <3>2
  <2>3. CASE ~(slices + 1 < MAX_SLICES)
    BY <1>2, <1>3, <1>5, <2>1, <2>3
  <2> QED BY <2>2, <2>3
<1>10. CASE Resume
  BY <1>2, <1>3, <1>4, <1>10 DEF Resume, driver
<1> QED BY <1>6, <1>7, <1>8, <1>9, <1>10 DEF Step

----------------------------------------------------------------------------
(* The theorems.                                                           *)

\* Every reachable state of every verse is in the invariant.
THEOREM InductiveInvariant == Spec => []IInv
BY InitInv, InvStep, PTL DEF Spec

\* The machine keeps its shape: layers of the mode, a depth that leaves a
\* layer, apply only within a turn.
THEOREM TypeCorrect == Spec => []TypeOK
<1>1. IInv => TypeOK
  <2> SUFFICES ASSUME IInv PROVE TypeOK
    OBVIOUS
  <2>1. /\ \A i \in DOMAIN stack : stack[i].k \in Frame
        /\ Kinds(tower) = Tower(verse.mode)
        /\ depth \in 0..(Len(tower) - 1)
        /\ thrown \in DOMAIN tower
    BY DEF IInv, StackInv, StackOK, Layered, FrameOK
  <2>2. /\ control.at \in {"Eval", "Value", "Apply"}
        /\ fuel \in 0..FUEL_SLICE /\ slices \in 0..MAX_SLICES
        /\ phase \in {"sing", "yield", "done"}
        /\ native \in Nat /\ (native > 0 <=> phase = "sing" /\ control.at = "Apply")
    BY DEF IInv, DriverInv
  <2>3. QED BY <2>1, <2>2 DEF TypeOK
<1>2. QED BY InductiveInvariant, <1>1, PTL

\* The lift depth counts the Lift bodies being evaluated, throws included.
THEOREM DepthCountsLifts == Spec => []DepthIsLifts
<1>1. IInv => DepthIsLifts
  BY DEF IInv, StackInv, StackOK, Below, DepthIsLifts
<1>2. QED BY InductiveInvariant, <1>1, PTL

\* A frame that was given a layer finds one of its kind: the unreachable!()
\* arms of value_step are unreachable for every verse.
THEOREM FramesFindTheirLayers == Spec => []LayersMatch
<1>1. IInv => LayersMatch
  BY DEF IInv, StackInv, StackOK, FrameOK, LayersMatch
<1>2. QED BY InductiveInvariant, <1>1, PTL

\* Only a verse of the commit mode commits, and never an empty plan: whatever
\* the verse, what reaches perage and which of the builtins fails on the way.
THEOREM CommitsAreConsecrated == Spec => []CommitIsConsecrated
<1>1. Init => CommitIsConsecrated
  BY DEF Init, CommitIsConsecrated
<1>2. QED BY InductiveInvariant, <1>1, CommitStep, PTL DEF Spec

\* A verse ends, whatever it does: it has turns left, a number that every
\* step of the machine lowers, but for the calls of apply within a turn, which
\* never raise it.  A verse that recurses for ever is abandoned after
\* MAX_SLICES * (FUEL_SLICE + 2) steps at the latest.
THEOREM VersesRunDown ==
    Spec => /\ [](TurnsLeft \in Nat)
            /\ [][IF ApplyStep THEN TurnsLeft' <= TurnsLeft ELSE TurnsLeft' < TurnsLeft]_vars
<1> DEFINE A == IF ApplyStep THEN TurnsLeft' <= TurnsLeft ELSE TurnsLeft' < TurnsLeft
<1>1. IInv => TurnsLeft \in Nat
  BY TurnsAreCounted DEF IInv
<1>2. IInv /\ [Next]_vars => [A]_vars
  BY TurnsRunDown DEF IInv, Next, Rests
<1> HIDE DEF A
<1>3. Spec => [](TurnsLeft \in Nat) /\ [][A]_vars
  BY InductiveInvariant, <1>1, <1>2, PTL DEF Spec
<1> QED BY <1>3 DEF A

=============================================================================
