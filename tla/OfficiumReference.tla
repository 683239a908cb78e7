------------------------- MODULE OfficiumReference --------------------------
(***************************************************************************)
(* What a verse means: a big-step evaluator over the transformer tower.    *)
(* There is no stack to unwind and no depth to restore: lift evaluates its *)
(* body one layer down, and recipe runs its handler where the recipe       *)
(* stands.  The machine is checked against it.                             *)
(***************************************************************************)
EXTENDS Officium, FiniteSets

CONSTANTS
    RefEnv,   \* the environment of the fugues
    RefDepth  \* bound: nesting of evaluations before the answer is given up

Val(v, tower) == [out |-> "val", v |-> v, tower |-> tower]
Halt(v, committed, tower) == [out |-> "halt", v |-> v, tower |-> tower, committed |-> committed]
Throw(layer, v, tower) == [out |-> "throw", layer |-> layer, v |-> v, tower |-> tower]
Bad(d) == [out |-> "bad", d |-> d]
Lost == [out |-> "lost"]

\* The topmost layer of the kind below depth d.
Nearest(kind, d, tower) == {i \in (d + 1)..Len(tower) :
    tower[i].kind = kind /\ \A j \in (d + 1)..(i - 1) : tower[j].kind # kind}

AndThen(r, K(_, _)) == IF r.out = "val" THEN K(r.v, r.tower) ELSE r

Needs(kind, op, d, tower, K(_)) ==
    IF Nearest(kind, d, tower) = {} THEN Bad(WrongMode(op))
    ELSE K(CHOOSE i \in Nearest(kind, d, tower) : TRUE)

RECURSIVE Den(_, _, _, _, _, _)
RECURSIVE Run(_, _, _, _, _, _)

\* f applied to a, n evaluations deep.
Run(f, a, d, tower, arg, n) ==
    IF n = 0 THEN Lost
    ELSE IF f.ty = "closure" THEN Den(f.body, Bind(f.env, f.param, a), d, tower, arg, n - 1)
    ELSE IF f.ty = "builtin" THEN
        LET args == Append(f.args, a)
            r == Call(f.name, args)
            Post(v, t) == LET p == SolveDv(v) IN IF p.answer = "done" THEN Val(p.value, t) ELSE Bad(p.d)
        IN IF Len(args) < Arity[f.name] THEN Val(BuiltinV(f.name, args), tower)
           ELSE CASE r.answer = "done"  -> Val(r.value, tower)
                  [] r.answer = "fails" -> Bad(r.d)
                  [] r.answer = "apply" -> AndThen(Run(r.f, r.a, d, tower, arg, n - 1), Post)
    ELSE Bad(Dissonant("closure", f))

Lookup(x, scope) ==
    IF x \in DOMAIN scope THEN <<scope[x]>>
    ELSE IF x \in DOMAIN Arity THEN <<BuiltinV(x, <<>>)>>
    ELSE AskEnv(RefEnv, x)

Den(e, scope, d, tower, arg, n) ==
    LET Sub(x, s, t) == IF n = 0 THEN Lost ELSE Den(x, s, d, t, arg, n - 1)
        Here(x) == Sub(x, scope, tower)
        Found(hit, x) == IF hit = <<>> THEN Bad(UnboundVar(x)) ELSE Val(hit[1], tower)
    IN CASE e.op = "Lit" -> Val(e.v, tower)
         [] e.op = "Var" -> Found(Lookup(e.x, scope), e.x)
         [] e.op = "Ask" -> Found(AskEnv(RefEnv, e.x), e.x)
         [] e.op = "Arg" -> Val(arg, tower)
         [] e.op = "Lam" -> Val(Closure(e.x, e.e, scope), tower)
         [] e.op = "App" ->
               AndThen(Here(e.f), LAMBDA f, t :
                   AndThen(Sub(e.a, scope, t), LAMBDA a, u : Run(f, a, d, u, arg, n)))
         [] e.op = "If" ->
               AndThen(Here(e.c), LAMBDA c, t :
                   IF c.ty # "bool" THEN Bad(Dissonant("bool", c))
                   ELSE Sub(IF c.bool THEN e.t ELSE e.e, scope, t))
         [] e.op = "Fix" ->
               AndThen(Here(e.f), LAMBDA f, t :
                   Run(f, Closure("$stretto", App(Fix(e.f), Var("$stretto")), scope),
                       d, t, arg, n))
         [] e.op = "Pure" -> Here(e.e)
         [] e.op = "Return" -> AndThen(Here(e.e), LAMBDA v, t : Halt(v, <<>>, t))
         [] e.op = "Bind" ->
               AndThen(Here(e.m), LAMBDA v, t : Sub(e.k, Bind(scope, e.x, v), t))
         [] e.op = "Resolve" ->
               AndThen(Here(e.g), LAMBDA g, t :
                   IF g.ty # "genus" THEN Bad(Dissonant("genus", g))
                   ELSE IF ResolveEnv(RefEnv, e.x, g.genus) = <<>>
                        THEN Bad(Unresolved(e.x, g.genus))
                   ELSE Sub(ResolveEnv(RefEnv, e.x, g.genus)[1], scope, t))
         [] e.op = "Nihil" -> Needs("Maybe", "Nihil", d, tower, LAMBDA i : Bad(Silent))
         [] e.op = "Clama" ->
               Needs("Except", "Clama", d, tower, LAMBDA i :
                   AndThen(Here(e.e), LAMBDA v, t : Throw(i, v, t)))
         [] e.op = "Recipe" ->
               Needs("Except", "Recipe", d, tower, LAMBDA i :
                   LET r == Here(e.m)
                   IN IF r.out = "throw" /\ r.layer = i
                      THEN Sub(e.h, Bind(scope, e.x, r.v), r.tower) ELSE r)
         [] e.op = "Lege" ->
               Needs("State", "Lege", d, tower, LAMBDA i : Val(tower[i].st, tower))
         [] e.op = "Pone" ->
               Needs("State", "Pone", d, tower, LAMBDA i :
                   AndThen(Here(e.e), LAMBDA v, t :
                       Val(Unit, [t EXCEPT ![i] = [kind |-> "State", st |-> v]])))
         [] e.op = "Mitte" ->
               Needs("Writer", "Mitte", d, tower, LAMBDA i :
                   AndThen(Here(e.e), LAMBDA v, t :
                       CASE v.ty = "cmd" -> Val(Unit, [t EXCEPT ![i].plan = Append(@, v)])
                         [] v.ty = "plan" -> Val(Unit, [t EXCEPT ![i].plan = @ \o v.plan])
                         [] OTHER -> Bad(Dissonant("cmd", v))))
         [] e.op = "Perage" ->
               Needs("Commit", "Perage", d, tower, LAMBDA i :
                   AndThen(Here(e.e), LAMBDA v, t :
                       IF v.ty # "plan" THEN Bad(Unconsecrated)
                       ELSE IF v.plan = <<>> THEN Bad(Premature)
                       ELSE Halt(Unit, <<v.plan>>, t)))
         [] e.op = "Lift" ->
               IF d + 2 > Len(tower) THEN Bad(WrongMode("Lift"))
               ELSE IF n = 0 THEN Lost ELSE Den(e.e, scope, d + 1, tower, arg, n - 1)

\* The outcome of a verse: value, state of the outer cell, plan, commit; or
\* the dissonance it ends in.
Answer(r) ==
    LET first(kind) == Nearest(kind, 0, r.tower)
        get(kind) == r.tower[CHOOSE i \in first(kind) : TRUE]
    IN CASE r.out = "lost"  -> OutOfFuel
         [] r.out = "bad"   -> r.d
         [] r.out = "throw" -> User(r.v)
         [] OTHER -> [err |-> "none", value |-> <<r.v>>,
                      state |-> IF first("State") = {} THEN Unit ELSE get("State").st,
                      plan |-> IF first("Writer") = {} THEN <<>> ELSE get("Writer").plan,
                      committed |-> IF r.out = "halt" THEN r.committed ELSE <<>>]

Meaning(mode, body, arg) ==
    Answer(Den(body, EmptyScope, 0, BuildTower(mode, EmptyState), arg, RefDepth))

=============================================================================
