------------------------------ MODULE Officium ------------------------------
(***************************************************************************)
(* The language of officium-core: expressions (ir.rs), values and modes    *)
(* (types.rs), the Reader environment (env.rs) and the builtins            *)
(* (builtins.rs).  Numbers are opaque: what f64 arithmetic computes is a   *)
(* parameter, that an argument has to be a number is not.                  *)
(***************************************************************************)
EXTENDS Naturals, Sequences, SequencesExt

CONSTANTS
    F64(_, _),   \* F64(op, args): the number an arithmetic builtin computes
    Holds(_, _)  \* Holds(op, args): whether a comparison of numbers holds

----------------------------------------------------------------------------
(* Values.                                                                 *)

Unit == [ty |-> "unit"]
Num(n) == [ty |-> "num", num |-> n]
Bool(b) == [ty |-> "bool", bool |-> b]
Genus(g) == [ty |-> "genus", genus |-> g]
Str(s) == [ty |-> "str", str |-> s]
Closure(param, body, env) == [ty |-> "closure", param |-> param, body |-> body, env |-> env]
BuiltinV(name, args) == [ty |-> "builtin", name |-> name, args |-> args]
Cmd(target, dv, at) == [ty |-> "cmd", target |-> target, dv |-> dv, at |-> at]
PlanV(p) == [ty |-> "plan", plan |-> p]
Field(target, dv, at) == [ty |-> "field", target |-> target, dv |-> dv, at |-> at]
Record(map) == [ty |-> "record", map |-> map]

\* A scope is the function its linked list of bindings denotes: the newest
\* binding of a name hides the older ones.
EmptyScope == <<>>
Bind(scope, name, value) ==
    [n \in DOMAIN scope \cup {name} |-> IF n = name THEN value ELSE scope[n]]

EmptyState == Record(<<>>)

----------------------------------------------------------------------------
(* Expressions.  The mode tags of Pure, Return and Bind are never read.    *)

Lit(v) == [op |-> "Lit", v |-> v]
Var(x) == [op |-> "Var", x |-> x]
Lam(x, e) == [op |-> "Lam", x |-> x, e |-> e]
App(f, a) == [op |-> "App", f |-> f, a |-> a]
If(c, t, e) == [op |-> "If", c |-> c, t |-> t, e |-> e]
Fix(f) == [op |-> "Fix", f |-> f]
Pure(e) == [op |-> "Pure", e |-> e]
Return(e) == [op |-> "Return", e |-> e]
BindE(m, x, k) == [op |-> "Bind", m |-> m, x |-> x, k |-> k]
Arg == [op |-> "Arg"]
Ask(x) == [op |-> "Ask", x |-> x]
Resolve(x, g) == [op |-> "Resolve", x |-> x, g |-> g]
Nihil == [op |-> "Nihil"]
Clama(e) == [op |-> "Clama", e |-> e]
Recipe(m, x, h) == [op |-> "Recipe", m |-> m, x |-> x, h |-> h]
Lege == [op |-> "Lege"]
Pone(e) == [op |-> "Pone", e |-> e]
Mitte(e) == [op |-> "Mitte", e |-> e]
Perage(e) == [op |-> "Perage", e |-> e]
Lift(e) == [op |-> "Lift", e |-> e]

----------------------------------------------------------------------------
(* Dissonances.                                                            *)

WrongMode(op) == [err |-> "WrongMode", op |-> op]
Unresolved(name, genus) == [err |-> "Unresolved", name |-> name, genus |-> genus]
Silent == [err |-> "Silent"]
User(v) == [err |-> "User", value |-> v]
Dissonant(want, got) == [err |-> "Dissonant", want |-> want, got |-> got.ty]
Premature == [err |-> "Premature"]
Unconsecrated == [err |-> "Unconsecrated"]
UnboundVar(name) == [err |-> "UnboundVar", name |-> name]
OutOfFuel == [err |-> "OutOfFuel"]

----------------------------------------------------------------------------
(* Modes.                                                                  *)

Mode == {"Dorian", "Hypodorian", "Phrygian", "Hypophrygian",
         "Lydian", "Hypolydian", "Mixolydian", "Hypomixolydian"}

\* The authentic and the plagal mode of each final.
ModesOf ==
    [Re |-> <<"Dorian", "Hypodorian">>, Mi |-> <<"Phrygian", "Hypophrygian">>,
     Fa |-> <<"Lydian", "Hypolydian">>, Sol |-> <<"Mixolydian", "Hypomixolydian">>]
FromFinal(f, plagal) == ModesOf[f][IF plagal THEN 2 ELSE 1]
FinalOf(mode) == CHOOSE f \in DOMAIN ModesOf : mode \in {FromFinal(f, FALSE), FromFinal(f, TRUE)}
IsPlagal(mode) == mode = FromFinal(FinalOf(mode), TRUE)

\* Mode::tower, the top layer first.
Tower(mode) ==
    CASE mode = "Dorian"         -> <<"Maybe">>
      [] mode = "Hypodorian"     -> <<"Maybe", "Maybe">>
      [] mode = "Phrygian"       -> <<"Except">>
      [] mode = "Hypophrygian"   -> <<"Except", "Except">>
      [] mode = "Lydian"         -> <<"State">>
      [] mode = "Hypolydian"     -> <<"State", "State">>
      [] mode = "Mixolydian"     -> <<"Commit">>
      [] mode = "Hypomixolydian" -> <<"Writer">>

\* build_tower: the topmost State layer gets st, a deeper one starts empty.
BuildTower(mode, st) ==
    LET kinds == Tower(mode)
        firstState(i) == \A j \in 1..(i - 1) : kinds[j] # "State"
    IN [i \in DOMAIN kinds |->
          CASE kinds[i] = "State" -> [kind |-> "State",
                                      st |-> IF firstState(i) THEN st ELSE EmptyState]
            [] kinds[i] = "Writer" -> [kind |-> "Writer", plan |-> <<>>]
            [] OTHER -> [kind |-> kinds[i]]]

----------------------------------------------------------------------------
(* The Reader environment: pedals, real and tonal answers.                 *)

\* Env::ask over the association list; the first entry of a name counts.
FirstOf(entries, key) ==
    LET hits == {i \in DOMAIN entries : entries[i].key = key}
    IN IF hits = {} THEN <<>> ELSE <<entries[Min(hits)].val>>

AskEnv(env, name) == FirstOf(env.pedals, name)

\* Env::resolve: a real answer comes before a tonal one.
ResolveEnv(env, name, genus) ==
    LET real == FirstOf(env.real, <<name, genus>>)
    IN IF real # <<>> THEN real ELSE FirstOf(env.tonal, <<name, genus>>)

----------------------------------------------------------------------------
(* Builtins.                                                               *)

Arity ==
    [b \in {"add", "sub", "mul", "div", "eq", "le", "lt", "safe", "solve"} |-> 2] @@
    [b \in {"dist", "mass", "genus", "outgassing", "deflect", "target", "dv_of",
            "at", "plan_of", "not"} |-> 1] @@
    ("cmd" :> 3) @@ ("corpus" :> 4)

\* What builtins::call answers: a value, a closure to apply, or a dissonance.
Done(v) == [answer |-> "done", value |-> v]
Apply(f, a) == [answer |-> "apply", f |-> f, a |-> a]
Fails(d) == [answer |-> "fails", d |-> d]

\* The arguments in turn have to be of the type; the first that is not is
\* reported.
Typed(ty, vs, answer) ==
    LET bad == {i \in DOMAIN vs : vs[i].ty # ty}
    IN IF bad = {} THEN answer ELSE Fails(Dissonant(ty, vs[Min(bad)]))

RecordGet(v, key) ==
    Typed("record", <<v>>,
          IF key \in DOMAIN v.map THEN Done(v.map[key]) ELSE Fails(UnboundVar(key)))

\* Structural equality; functions never compare equal.
Same(v, w) == v.ty \notin {"closure", "builtin"} /\ v.ty = w.ty /\ v = w

Nums(vs) == [i \in DOMAIN vs |-> vs[i].num]

Call(name, args) ==
    CASE name \in {"add", "sub", "mul", "div"} ->
            Typed("num", args, Done(Num(F64(name, Nums(args)))))
      [] name \in {"le", "lt"} ->
            Typed("num", args, Done(Bool(Holds(name, Nums(args)))))
      [] name = "eq" -> Done(Bool(Same(args[1], args[2])))
      [] name = "not" -> Typed("bool", args, Done(Bool(~args[1].bool)))
      [] name \in {"dist", "mass", "genus"} -> RecordGet(args[1], name)
      [] name = "outgassing" ->
            LET got == RecordGet(args[1], name)
            IN IF got.answer = "done" THEN got ELSE Done(Num(F64("vent", <<>>)))
      [] name = "safe" ->
            LET mass == RecordGet(args[1], "mass")
                dist == RecordGet(args[1], "dist")
                operands == <<mass.value, dist.value, args[2]>>
            IN IF mass.answer # "done" THEN mass
               ELSE IF mass.value.ty # "num" THEN Fails(Dissonant("num", mass.value))
               ELSE IF dist.answer # "done" THEN dist
               ELSE Typed("num", operands, Done(Bool(Holds("safe", Nums(operands)))))
      [] name = "solve" -> Apply(args[1], args[2])
      [] name = "deflect" -> Typed("num", args, Done(Field(1, args[1].num, 0)))
      [] name \in {"target", "dv_of", "at"} ->
            Typed("field", args,
                  Done(Num(CASE name = "target" -> F64("from_u64", <<args[1].target>>)
                             [] name = "dv_of"  -> args[1].dv
                             [] name = "at"     -> F64("from_u64", <<args[1].at>>))))
      [] name = "cmd" ->
            Typed("num", args,
                  Done(Cmd(F64("as_u64", <<args[1].num>>), args[2].num,
                           F64("as_u64", <<args[3].num>>))))
      [] name = "plan_of" ->
            Typed("field", args,
                  Done(PlanV(<<Cmd(args[1].target, args[1].dv, args[1].at)>>)))
      [] OTHER ->  \* "corpus", the last of them
            Typed("num", <<args[1]>>,
                  IF args[2].ty \notin {"genus", "str"}
                  THEN Fails(Dissonant("genus", args[2]))
                  ELSE Typed("num", <<args[3], args[4]>>,
                             Done(Record(("id" :> Num(F64("from_u64",
                                             <<F64("as_u64", <<args[1].num>>)>>))) @@
                                         ("genus" :> Genus(IF args[2].ty = "genus"
                                                           THEN args[2].genus
                                                           ELSE args[2].str)) @@
                                         ("mass" :> args[3]) @@ ("dist" :> args[4])))))

\* apply_post for SolveDv.
SolveDv(force) == Typed("num", <<force>>, Done(Num(F64("solve_dv", <<force.num>>))))

=============================================================================
