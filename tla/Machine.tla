------------------------------ MODULE Machine -------------------------------
(***************************************************************************)
(* The evaluator of officium-core (machine.rs) under the driver that feeds *)
(* it fuel (run_full of kernel/src/celebrare.rs).  One action is one turn  *)
(* of the trampoline: eval_step on the expression in control position, or  *)
(* value_step when a value meets the top frame of the stack.               *)
(***************************************************************************)
EXTENDS Officium, FiniteSets

CONSTANTS
    Verses,      \* the verses to sing: [mode, body]
    Args,        \* the values a verse is sung to
    Env,         \* the environment of the fugues: [pedals, real, tonal]
    FUEL_SLICE,  \* turns between two yields (20000 in the kernel)
    MAX_SLICES   \* slices before the verse is abandoned (500 in the kernel)

ASSUME FuelAssumption == FUEL_SLICE \in Nat \ {0} /\ MAX_SLICES \in Nat \ {0}
ASSUME VersesAssumption == \A v \in Verses : v.mode \in Mode

VARIABLES
    verse, arg,  \* what is sung, and to what
    control,     \* Eval(expression, scope), Value(v), or a call of apply
    stack,       \* the frames, the top last
    tower,       \* the layers of the mode with their effect state, the top first
    depth,       \* how many layers Lift has peeled away
    thrown,      \* the Except layer of the last clama
    fuel, slices,
    phase,       \* "sing", "yield" (run_full awaits yield_now), "done"
    result,      \* what run_full returns
    native       \* history: calls of apply that are on the native stack

machine == <<control, stack, tower, depth, thrown>>
driver == <<verse, arg, slices>>
vars == <<driver, machine, fuel, phase, result, native>>

Eval(e, scope) == [at |-> "Eval", e |-> e, scope |-> scope]
Value(v) == [at |-> "Value", v |-> v]
Applying(f, a) == [at |-> "Apply", f |-> f, a |-> a]

\* VerseOutcome; an Option is a sequence of at most one element.
Outcome(value, state, plan, committed) ==
    [err |-> "none", value |-> value, state |-> state, plan |-> plan, committed |-> committed]

NoResult == [err |-> "pending"]

----------------------------------------------------------------------------
\* run_verse, as run_full calls it: with an empty state and one slice of fuel.
Init ==
    /\ verse \in Verses
    /\ arg \in Args
    /\ control = Eval(verse.body, EmptyScope)
    /\ stack = <<>>
    /\ tower = BuildTower(verse.mode, EmptyState)
    /\ depth = 0
    /\ thrown = 1
    /\ fuel = FUEL_SLICE
    /\ slices = 0
    /\ phase = "sing"
    /\ result = NoResult
    /\ native = 0

----------------------------------------------------------------------------
(* How a turn ends: with a new control, or with the verse.                 *)

Turn ==
    /\ phase = "sing"
    /\ fuel > 0
    /\ fuel' = fuel - 1
    /\ UNCHANGED driver

Continue(c, frames) ==
    /\ control' = c
    /\ stack' = frames
    /\ UNCHANGED <<phase, result>>

End(r) ==
    /\ phase' = "done"
    /\ result' = r
    /\ UNCHANGED <<control, stack>>

\* unwind for every dissonance but User: nothing catches it.
Abort(d) == End(d) /\ UNCHANGED <<tower, depth, thrown>>

\* finish: the visible state and plan are those of the topmost such layers.
Finish(value, committed) ==
    LET top(kind) == {i \in DOMAIN tower : tower[i].kind = kind
                          /\ \A j \in 1..(i - 1) : tower[j].kind # kind}
    IN Outcome(value,
               IF top("State") = {} THEN Unit ELSE tower[Min(top("State"))].st,
               IF top("Writer") = {} THEN <<>> ELSE tower[Min(top("Writer"))].plan,
               committed)

\* Continuation::layer: the layers of the kind at or below the lift depth.
Visible(kind) == {i \in (depth + 1)..Len(tower) : tower[i].kind = kind}

----------------------------------------------------------------------------
(* eval_step.                                                              *)

E == control.e
Scope == control.scope

Evaluates(op) == Turn /\ control.at = "Eval" /\ E.op = op /\ UNCHANGED native

\* The turn only yields a value, or only pushes a frame and goes on with e.
Yields(v) == Continue(Value(v), stack) /\ UNCHANGED <<tower, depth, thrown>>
Pushes(frame, e) ==
    Continue(Eval(e, Scope), Append(stack, frame)) /\ UNCHANGED <<tower, depth, thrown>>

\* An operation that is legal only where some visible layer provides it: the
\* frame remembers the layer.
OnLayer(kind, op, k) ==
    IF Visible(kind) = {} THEN Abort(WrongMode(op))
    ELSE Pushes([k |-> k, layer |-> Min(Visible(kind))], E.e)

EvalLit == Evaluates("Lit") /\ Yields(E.v)

\* A name is looked up in the scope, then the builtins, then the pedals.
EvalVar ==
    /\ Evaluates("Var")
    /\ IF E.x \in DOMAIN Scope THEN Yields(Scope[E.x])
       ELSE IF E.x \in DOMAIN Arity THEN Yields(BuiltinV(E.x, <<>>))
       ELSE IF AskEnv(Env, E.x) # <<>> THEN Yields(AskEnv(Env, E.x)[1])
       ELSE Abort(UnboundVar(E.x))

EvalLam == Evaluates("Lam") /\ Yields(Closure(E.x, E.e, Scope))
EvalApp == Evaluates("App") /\ Pushes([k |-> "AppArg", e |-> E.a, scope |-> Scope], E.f)
EvalIf == Evaluates("If") /\ Pushes([k |-> "IfK", t |-> E.t, e |-> E.e, scope |-> Scope], E.c)
EvalFix == Evaluates("Fix") /\ Pushes([k |-> "FixK", f |-> E.f, scope |-> Scope], E.f)

EvalPure ==
    /\ Evaluates("Pure")
    /\ Continue(Eval(E.e, Scope), stack)
    /\ UNCHANGED <<tower, depth, thrown>>

EvalReturn == Evaluates("Return") /\ Pushes([k |-> "ReturnK"], E.e)
EvalBind == Evaluates("Bind") /\ Pushes([k |-> "BindK", x |-> E.x, e |-> E.k, scope |-> Scope], E.m)
EvalArg == Evaluates("Arg") /\ Yields(arg)

EvalAsk ==
    /\ Evaluates("Ask")
    /\ IF AskEnv(Env, E.x) = <<>> THEN Abort(UnboundVar(E.x)) ELSE Yields(AskEnv(Env, E.x)[1])

EvalResolve ==
    Evaluates("Resolve") /\ Pushes([k |-> "ResolveK", x |-> E.x, scope |-> Scope], E.g)

EvalNihil ==
    Evaluates("Nihil") /\ Abort(IF Visible("Maybe") = {} THEN WrongMode("Nihil") ELSE Silent)

EvalClama == Evaluates("Clama") /\ OnLayer("Except", "Clama", "ClamaK")

\* Mutant: recipe takes the layer on top, whatever its kind.
RecipeAnywhere ==
    /\ Evaluates("Recipe")
    /\ Pushes([k |-> "RecipeH", x |-> E.x, e |-> E.h, scope |-> Scope, layer |-> depth + 1], E.m)

EvalRecipe ==
    /\ Evaluates("Recipe")
    /\ IF Visible("Except") = {}
       THEN Abort(WrongMode("Recipe"))
       ELSE Pushes([k |-> "RecipeH", x |-> E.x, e |-> E.h, scope |-> Scope,
                    layer |-> Min(Visible("Except"))], E.m)

EvalLege ==
    /\ Evaluates("Lege")
    /\ IF Visible("State") = {} THEN Abort(WrongMode("Lege"))
       ELSE Yields(tower[Min(Visible("State"))].st)

EvalPone == Evaluates("Pone") /\ OnLayer("State", "Pone", "PoneK")
EvalMitte == Evaluates("Mitte") /\ OnLayer("Writer", "Mitte", "MitteK")

EvalPerage ==
    /\ Evaluates("Perage")
    /\ IF Visible("Commit") = {} THEN Abort(WrongMode("Perage"))
       ELSE Pushes([k |-> "PerageK"], E.e)

\* Mutant: lift below the last layer.
LiftUnbounded ==
    /\ Evaluates("Lift")
    /\ Continue(Eval(E.e, Scope), Append(stack, [k |-> "LiftK", depth |-> depth]))
    /\ depth' = depth + 1
    /\ UNCHANGED <<tower, thrown>>

EvalLift ==
    /\ Evaluates("Lift")
    /\ IF Len(tower) - depth < 2
       THEN Abort(WrongMode("Lift"))
       ELSE /\ Continue(Eval(E.e, Scope), Append(stack, [k |-> "LiftK", depth |-> depth]))
            /\ depth' = depth + 1
            /\ UNCHANGED <<tower, thrown>>

EvalStep ==
    \/ EvalLit \/ EvalVar \/ EvalLam \/ EvalApp \/ EvalIf \/ EvalFix \/ EvalPure
    \/ EvalReturn \/ EvalBind \/ EvalArg \/ EvalAsk \/ EvalResolve \/ EvalNihil
    \/ EvalClama \/ EvalRecipe \/ EvalLege \/ EvalPone \/ EvalMitte \/ EvalPerage
    \/ EvalLift

----------------------------------------------------------------------------
(* value_step: V meets the top frame, and Rest is the stack below it.      *)

V == control.v
Top == stack[Len(stack)]
Rest == SubSeq(stack, 1, Len(stack) - 1)

Meets(k) ==
    /\ Turn
    /\ control.at = "Value"
    /\ stack # <<>>
    /\ Top.k = k

\* The turn only replaces control and pops the frame.
Goes(c) == Continue(c, Rest) /\ UNCHANGED <<tower, depth, thrown, native>>
Fail(d) == Abort(d) /\ UNCHANGED native

MeetAppArg ==
    /\ Meets("AppArg")
    /\ Continue(Eval(Top.e, Top.scope), Append(Rest, [k |-> "AppCall", f |-> V]))
    /\ UNCHANGED <<tower, depth, thrown, native>>

Calls(f, a) ==
    /\ Continue(Applying(f, a), Rest)
    /\ native' = 1
    /\ UNCHANGED <<tower, depth, thrown>>

MeetAppCall == Meets("AppCall") /\ Calls(Top.f, V)

MeetIfK ==
    /\ Meets("IfK")
    /\ IF V.ty # "bool" THEN Fail(Dissonant("bool", V))
       ELSE Goes(Eval(IF V.bool THEN Top.t ELSE Top.e, Top.scope))

MeetBindK == Meets("BindK") /\ Goes(Eval(Top.e, Bind(Top.scope, Top.x, V)))

\* The chain ran dry, or Amen: the value is the verse's.
Cadence ==
    /\ Turn
    /\ control.at = "Value"
    /\ stack # <<>> => Top.k = "ReturnK"
    /\ End(Finish(<<V>>, <<>>))
    /\ UNCHANGED <<tower, depth, thrown, native>>

\* Mutant: any handler catches, on whatever layer it stands.
AnyHandler(layer) == {i \in DOMAIN Rest : Rest[i].k = "RecipeH"}

\* clama throws, and unwind pops frames down to the nearest handler on the
\* same layer; the last LiftK it pops says what depth that leaves.
Handlers(layer) == {i \in DOMAIN Rest : Rest[i].k = "RecipeH" /\ Rest[i].layer = layer}
LiftsAbove(i) == {j \in DOMAIN Rest : j > i /\ Rest[j].k = "LiftK"}

Catch(i) ==
    LET h == Rest[i]
    IN /\ Continue(Eval(h.e, Bind(h.scope, h.x, V)), SubSeq(Rest, 1, i - 1))
       /\ depth' = IF LiftsAbove(i) = {} THEN depth ELSE Rest[Min(LiftsAbove(i))].depth

\* A clama that nothing catches ends the verse, and run_full drops the
\* continuation that unwind has emptied.
MeetClamaK ==
    /\ Meets("ClamaK")
    /\ thrown' = Top.layer
    /\ IF Handlers(Top.layer) = {}
       THEN End(User(V)) /\ UNCHANGED depth
       ELSE Catch(Max(Handlers(Top.layer)))
    /\ UNCHANGED <<tower, native>>

MeetRecipeH == Meets("RecipeH") /\ Goes(Value(V))

MeetPoneK ==
    /\ Meets("PoneK")
    /\ Continue(Value(Unit), Rest)
    /\ tower' = [tower EXCEPT ![Top.layer] = [kind |-> "State", st |-> V]]
    /\ UNCHANGED <<depth, thrown, native>>

MeetMitteK ==
    /\ Meets("MitteK")
    /\ IF V.ty \notin {"cmd", "plan"} THEN Fail(Dissonant("cmd", V))
       ELSE /\ Continue(Value(Unit), Rest)
            /\ tower' = [tower EXCEPT ![Top.layer].plan =
                            @ \o (IF V.ty = "cmd" THEN <<V>> ELSE V.plan)]
            /\ UNCHANGED <<depth, thrown, native>>

\* Mutant: an empty plan is committed.
PerageEmpty ==
    /\ Meets("PerageK")
    /\ IF V.ty # "plan" THEN Fail(Unconsecrated)
       ELSE End(Finish(<<Unit>>, <<V.plan>>)) /\ UNCHANGED <<tower, depth, thrown, native>>

MeetPerageK ==
    /\ Meets("PerageK")
    /\ IF V.ty # "plan" THEN Fail(Unconsecrated)
       ELSE IF V.plan = <<>> THEN Fail(Premature)
       ELSE /\ End(Finish(<<Unit>>, <<V.plan>>))
            /\ UNCHANGED <<tower, depth, thrown, native>>

\* The overload is evaluated in the caller's scope.
MeetResolveK ==
    /\ Meets("ResolveK")
    /\ IF V.ty # "genus" THEN Fail(Dissonant("genus", V))
       ELSE IF ResolveEnv(Env, Top.x, V.genus) = <<>> THEN Fail(Unresolved(Top.x, V.genus))
       ELSE Goes(Eval(ResolveEnv(Env, Top.x, V.genus)[1], Top.scope))

\* fix f = f (\x -> (fix f) x), unrolled when the closure is applied.
Stretto(f, scope) == Closure("$stretto", App(Fix(f), Var("$stretto")), scope)
MeetFixK == Meets("FixK") /\ Calls(V, Stretto(Top.f, Top.scope))

\* Mutant: the depth is not restored when the body of a lift has its value.
LiftUnrestored ==
    /\ Meets("LiftK")
    /\ Continue(Value(V), Rest)
    /\ UNCHANGED <<tower, depth, thrown, native>>

MeetLiftK ==
    /\ Meets("LiftK")
    /\ Continue(Value(V), Rest)
    /\ depth' = Top.depth
    /\ UNCHANGED <<tower, thrown, native>>

MeetBuiltinPost ==
    /\ Meets("BuiltinPost")
    /\ LET post == SolveDv(V)
       IN IF post.answer = "done" THEN Goes(Value(post.value)) ELSE Fail(post.d)

ValueStep ==
    \/ MeetAppArg \/ MeetAppCall \/ MeetIfK \/ MeetBindK \/ Cadence \/ MeetClamaK
    \/ MeetRecipeH \/ MeetPoneK \/ MeetMitteK \/ MeetPerageK \/ MeetResolveK
    \/ MeetFixK \/ MeetLiftK \/ MeetBuiltinPost

----------------------------------------------------------------------------
(* apply.  It runs to its end within the turn that called it; a builtin    *)
(* that applies a closure calls apply again, on the native stack.          *)

CallsApply ==
    /\ phase = "sing"
    /\ control.at = "Apply"
    /\ UNCHANGED <<driver, tower, depth, thrown, fuel>>

Applied(c) == Continue(c, stack) /\ native' = 0

ApplyClosure ==
    /\ CallsApply
    /\ control.f.ty = "closure"
    /\ Applied(Eval(control.f.body, Bind(control.f.env, control.f.param, control.a)))

ApplyBuiltin ==
    /\ CallsApply
    /\ control.f.ty = "builtin"
    /\ LET name == control.f.name
           args == Append(control.f.args, control.a)
           r == Call(name, args)
       IN \/ /\ Len(args) < Arity[name]
             /\ Applied(Value(BuiltinV(name, args)))
          \/ /\ Len(args) >= Arity[name]
             /\ r.answer = "done"
             /\ Applied(Value(r.value))
          \/ /\ Len(args) >= Arity[name]
             /\ r.answer = "apply"
             /\ Continue(Applying(r.f, r.a), Append(stack, [k |-> "BuiltinPost"]))
             /\ native' = native + 1
          \/ /\ Len(args) >= Arity[name]
             /\ r.answer = "fails"
             /\ End(r.d)
             /\ native' = 0

ApplyOther ==
    /\ CallsApply
    /\ control.f.ty \notin {"closure", "builtin"}
    /\ End(Dissonant("closure", control.f))
    /\ native' = 0

ApplyStep == ApplyClosure \/ ApplyBuiltin \/ ApplyOther

----------------------------------------------------------------------------
(* run_full.                                                               *)

\* Mutant: the slices are not counted.
RunOutForever ==
    /\ phase = "sing"
    /\ fuel = 0
    /\ control.at # "Apply"
    /\ phase' = "yield"
    /\ UNCHANGED <<driver, machine, fuel, result, native>>

\* resume returns OutOfFuel with the continuation; the verse is given up
\* after MAX_SLICES of them.
RunOut ==
    /\ phase = "sing"
    /\ fuel = 0
    /\ control.at # "Apply"
    /\ slices' = slices + 1
    /\ IF slices' >= MAX_SLICES
       THEN phase' = "done" /\ result' = OutOfFuel
       ELSE phase' = "yield" /\ UNCHANGED result
    /\ UNCHANGED <<verse, arg, machine, fuel, native>>

Resume ==
    /\ phase = "yield"
    /\ phase' = "sing"
    /\ fuel' = FUEL_SLICE
    /\ UNCHANGED <<driver, machine, result, native>>

Step == EvalStep \/ ValueStep \/ ApplyStep \/ RunOut \/ Resume

\* The verse has been sung.
Rests == phase = "done" /\ UNCHANGED vars

Next == Step \/ Rests

Spec == Init /\ [][Next]_vars

----------------------------------------------------------------------------
(* Properties.                                                             *)

Frame == {"AppArg", "AppCall", "IfK", "BindK", "ReturnK", "ClamaK", "RecipeH", "PoneK",
          "MitteK", "PerageK", "ResolveK", "FixK", "LiftK", "BuiltinPost"}

Kinds(layers) == [i \in DOMAIN layers |-> layers[i].kind]

\* The shape of the state: the tower keeps the layers of the mode, and the
\* lift depth never peels off its last layer.
TypeOK ==
    /\ control.at \in {"Eval", "Value", "Apply"}
    /\ \A i \in DOMAIN stack : stack[i].k \in Frame
    /\ Kinds(tower) = Tower(verse.mode)
    /\ depth \in 0..(Len(tower) - 1)
    /\ thrown \in DOMAIN tower
    /\ fuel \in 0..FUEL_SLICE /\ slices \in 0..MAX_SLICES
    /\ phase \in {"sing", "yield", "done"}
    /\ native \in Nat /\ (native > 0 <=> phase = "sing" /\ control.at = "Apply")

Lifts(frames) == {i \in DOMAIN frames : frames[i].k = "LiftK"}

\* The lift depth is the number of Lift bodies being evaluated, and each LiftK
\* frame remembers the depth outside its own: whatever clama cut short, an
\* operation binds to the layer its place in the verse says.
DepthIsLifts ==
    /\ depth = Cardinality(Lifts(stack))
    /\ \A i \in Lifts(stack) : stack[i].depth = Cardinality({j \in Lifts(stack) : j < i})

\* A frame that was given a layer finds a layer of that kind when it gets its
\* value: the unreachable!() arms of value_step are unreachable, and a
\* handler and the clama it catches are on an Except layer.
LayersMatch ==
    \A i \in DOMAIN stack :
        /\ stack[i].k \in {"ClamaK", "RecipeH"} => tower[stack[i].layer].kind = "Except"
        /\ stack[i].k = "PoneK" => tower[stack[i].layer].kind = "State"
        /\ stack[i].k = "MitteK" => tower[stack[i].layer].kind = "Writer"

\* Only a verse of the commit mode commits, and never an empty plan.
CommitIsConsecrated ==
    phase = "done" /\ result.err = "none" /\ result.committed # <<>> =>
        verse.mode = "Mixolydian" /\ result.committed[1] # <<>>

=============================================================================
