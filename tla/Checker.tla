------------------------------ MODULE Checker -------------------------------
(***************************************************************************)
(* The static checker of officium-core (check.rs): monomorphic inference   *)
(* over a verse, the mode mask, and rhyme = unification.                   *)
(*                                                                         *)
(* A checker c is threaded through the walk.  infer leaves the type of its *)
(* expression on top of c.tys, also after a clash, which is kept and makes *)
(* every later step void: the first Err is what the caller sees.           *)
(***************************************************************************)
EXTENDS Officium

----------------------------------------------------------------------------
(* Types: a base type is its hint, a variable an index into c.subst.       *)

T(hint) == [t |-> hint]
TVar(i) == [t |-> "?", i |-> i]
Fun(a, r) == [t |-> "closure", a |-> a, r |-> r]
Fun2(a, b, r) == Fun(a, Fun(b, r))

\* The variables every verse starts with.
ArgT == TVar(1)
StateT == TVar(2)
ThrowT == TVar(3)
ResultT == TVar(4)

NewChecker(env) ==
    [env |-> env, subst |-> <<<<>>, <<>>, <<>>, <<>>>>, preds |-> {}, clash |-> "none", tys |-> <<>>]

Clashing(c, kind) == IF c.clash = "none" THEN [c EXCEPT !.clash = kind] ELSE c

Push(c, t) == [c EXCEPT !.tys = <<t>> \o @]
Drop(c) == [c EXCEPT !.tys = Tail(@)]

NewVar(c) == TVar(Len(c.subst) + 1)
Grow(c) == [c EXCEPT !.subst = Append(@, <<>>)]
Fresh(c) == Push(Grow(c), NewVar(c))

\* A deferred "one of these".
Among(c, t, allowed) == [c EXCEPT !.preds = @ \cup {[ty |-> t, allowed |-> allowed]}]

----------------------------------------------------------------------------
(* Unification.                                                            *)

RECURSIVE Shallow(_, _), Occurs(_, _, _), Unify(_, _, _)

Shallow(subst, t) ==
    IF t.t # "?" \/ subst[t.i] = <<>> THEN t ELSE Shallow(subst, subst[t.i][1])

OccursIn(subst, i, t) ==
    \/ t = TVar(i)
    \/ t.t = "closure" /\ (Occurs(subst, i, t.a) \/ Occurs(subst, i, t.r))
Occurs(subst, i, t) == OccursIn(subst, i, Shallow(subst, t))

Assign(c, i, t) ==
    IF Occurs(c.subst, i, t) THEN Clashing(c, "Infinite") ELSE [c EXCEPT !.subst[i] = <<t>>]

\* Mutant: a variable is not recognised as itself.
UnifyHeadsBlind(c, a, b) ==
    CASE a.t = "?" -> Assign(c, a.i, b)
      [] a.t # "?" /\ b.t = "?" -> Assign(c, b.i, a)
      [] a.t = "closure" /\ b.t = "closure" -> Unify(Unify(c, a.a, b.a), a.r, b.r)
      [] OTHER -> IF a.t = b.t THEN c ELSE Clashing(c, "Types")

UnifyHeads(c, a, b) ==
    CASE a.t = "?" /\ a = b -> c
      [] a.t = "?" /\ a # b -> Assign(c, a.i, b)
      [] a.t # "?" /\ b.t = "?" -> Assign(c, b.i, a)
      [] a.t = "closure" /\ b.t = "closure" -> Unify(Unify(c, a.a, b.a), a.r, b.r)
      [] OTHER -> IF a.t = b.t THEN c ELSE Clashing(c, "Types")

\* Mutant: two functions agree when their results do.
UnifyResults(c, a, b) ==
    IF c.clash # "none" THEN c
    ELSE LET x == Shallow(c.subst, a)
             y == Shallow(c.subst, b)
         IN IF x.t = "closure" /\ y.t = "closure" THEN Unify(c, x.r, y.r)
            ELSE UnifyHeads(c, x, y)

Unify(c, a, b) ==
    IF c.clash # "none" THEN c ELSE UnifyHeads(c, Shallow(c.subst, a), Shallow(c.subst, b))

\* The top type has to be t; it stays on top, or is dropped.
Fits(c, t) == Unify(c, Head(c.tys), t)
Want(c, t) == Drop(Fits(c, t))

----------------------------------------------------------------------------
(* Names.                                                                  *)

TypeOfValue(v) ==
    CASE v.ty \in {"closure", "builtin"} -> T("unit")
      [] OTHER -> T(v.ty)

Allows(mode, op) ==
    LET kinds == {Tower(mode)[i] : i \in DOMAIN Tower(mode)}
    IN CASE op = "Nihil" -> "Maybe" \in kinds
         [] op \in {"Clama", "Recipe"} -> "Except" \in kinds
         [] op \in {"Lege", "Pone"} -> "State" \in kinds
         [] op = "Mitte" -> "Writer" \in kinds
         [] op = "Perage" -> "Commit" \in kinds
         [] op = "Lift" -> Len(Tower(mode)) > 1

CheckMode(c, mode, op) == IF Allows(mode, op) THEN c ELSE Clashing(c, "Mode")

Builtin(c, name) ==
    CASE name \in {"add", "sub", "mul", "div"} -> Push(c, Fun2(T("num"), T("num"), T("num")))
      [] name \in {"le", "lt"} -> Push(c, Fun2(T("num"), T("num"), T("bool")))
      [] name = "eq" -> Push(Grow(c), Fun2(NewVar(c), NewVar(c), T("bool")))
      [] name = "not" -> Push(c, Fun(T("bool"), T("bool")))
      [] name \in {"dist", "mass", "outgassing"} -> Push(c, Fun(T("record"), T("num")))
      [] name = "genus" -> Push(c, Fun(T("record"), T("genus")))
      [] name = "safe" -> Push(c, Fun2(T("record"), T("num"), T("bool")))
      [] name = "solve" -> Push(Grow(c), Fun2(Fun(NewVar(c), T("num")), NewVar(c), T("num")))
      [] name = "deflect" -> Push(c, Fun(T("num"), T("field")))
      [] name \in {"target", "dv_of", "at"} -> Push(c, Fun(T("field"), T("num")))
      [] name = "cmd" -> Push(c, Fun2(T("num"), T("num"), Fun(T("num"), T("cmd"))))
      [] name = "plan_of" -> Push(c, Fun(T("field"), T("plan")))
      [] name = "corpus" ->
            Push(Among(Grow(c), NewVar(c), {"genus", "str"}),
                 Fun2(T("num"), NewVar(c), Fun2(T("num"), T("num"), T("record"))))

Pedal(c, name) ==
    IF AskEnv(c.env, name) = <<>> THEN Push(Clashing(c, "Unbound"), T("unit"))
    ELSE Push(c, TypeOfValue(AskEnv(c.env, name)[1]))

\* Scope, then builtins, then pedals, as on the machine.
Lookup(c, gamma, name) ==
    IF name \in DOMAIN gamma THEN Push(c, gamma[name])
    ELSE IF name \in DOMAIN Arity THEN Builtin(c, name)
    ELSE Pedal(c, name)

----------------------------------------------------------------------------
(* Inference.                                                              *)

\* The type of a lambda, a call, two branches or a stretto, from what its
\* parts left on the stack, the last one on top.
Abstraction(c) == Push(Drop(Drop(c)), Fun(c.tys[2], c.tys[1]))
Application(c) ==
    Push(Unify(Grow(Drop(Drop(c))), c.tys[2], Fun(c.tys[1], NewVar(c))), NewVar(c))
Agreement(c) == Drop(Unify(c, c.tys[2], c.tys[1]))
SelfApplied(c) == Push(Unify(Grow(Drop(c)), c.tys[1], Fun(NewVar(c), NewVar(c))), NewVar(c))

\* mitte eats a cmd or a whole plan.
Sent(c) == Among(c, Head(c.tys), {"cmd", "plan"})

RECURSIVE Infer(_, _, _, _), InferOverloads(_, _, _, _)

\* A statement leaves the type its line sings about, and on top of it the
\* type it binds.
InferStmt(c, mode, gamma, m) ==
    CASE m.op = "Pone" ->
            Push(Fits(Infer(CheckMode(c, mode, "Pone"), mode, gamma, m.e), StateT), T("unit"))
      [] m.op = "Mitte" ->
            Push(Sent(Infer(CheckMode(c, mode, "Mitte"), mode, gamma, m.e)), T("unit"))
      [] OTHER -> LET Twice(d) == Push(d, Head(d.tys)) IN Twice(Infer(c, mode, gamma, m))

\* What follows a statement, given what infer_stmt left.
InferRest(c, mode, gamma, e) ==
    Infer(Drop(Drop(c)), mode, Bind(gamma, e.x, Head(c.tys)), e.k)

\* Every answer to the name, in the caller's scope, has the type on top.
InferOverloads(c, mode, gamma, answers) ==
    IF answers = <<>> THEN c
    ELSE LET Joined(d) == Want(d, d.tys[2])
         IN InferOverloads(Joined(Infer(c, mode, gamma, Head(answers).val)),
                           mode, gamma, Tail(answers))

\* The body of a recipe, then its handler, which may name what was thrown.
InferHandler(c, mode, gamma, e) ==
    Infer(Infer(CheckMode(c, mode, "Recipe"), mode, gamma, e.m),
          mode, Bind(gamma, e.x, ThrowT), e.h)

Infer(c, mode, gamma, e) ==
    CASE c.clash # "none" -> Push(c, T("unit"))
      [] e.op = "Lit" -> Push(c, TypeOfValue(e.v))
      [] e.op = "Var" -> Lookup(c, gamma, e.x)
      [] e.op = "Lam" -> Abstraction(Infer(Fresh(c), mode, Bind(gamma, e.x, NewVar(c)), e.e))
      [] e.op = "App" -> Application(Infer(Infer(c, mode, gamma, e.f), mode, gamma, e.a))
      [] e.op = "If" ->
            Agreement(Infer(Infer(Want(Infer(c, mode, gamma, e.c), T("bool")),
                                  mode, gamma, e.t), mode, gamma, e.e))
      [] e.op = "Fix" -> SelfApplied(Infer(c, mode, gamma, e.f))
      [] e.op = "Pure" -> Infer(c, mode, gamma, e.e)
      [] e.op = "Lift" -> Infer(CheckMode(c, mode, "Lift"), FromFinal(FinalOf(mode), FALSE), gamma, e.e)
      [] e.op = "Return" -> Fresh(Want(Infer(c, mode, gamma, e.e), ResultT))
      [] e.op = "Bind" -> InferRest(InferStmt(c, mode, gamma, e.m), mode, gamma, e)
      [] e.op = "Arg" -> Push(c, ArgT)
      [] e.op = "Ask" -> Pedal(c, e.x)
      [] e.op = "Resolve" ->
            InferOverloads(Fresh(Want(Infer(c, mode, gamma, e.g), T("genus"))), mode, gamma,
                           SelectSeq(c.env.real \o c.env.tonal, LAMBDA o : o.key[1] = e.x))
      [] e.op = "Nihil" -> Fresh(CheckMode(c, mode, "Nihil"))
      [] e.op = "Clama" -> Fresh(Want(Infer(CheckMode(c, mode, "Clama"), mode, gamma, e.e), ThrowT))
      [] e.op = "Recipe" -> Agreement(InferHandler(c, mode, gamma, e))
      [] e.op = "Lege" -> Push(CheckMode(c, mode, "Lege"), StateT)
      [] e.op \in {"Pone", "Mitte"} -> LET Second(d) == Push(Drop(Drop(d)), Head(d.tys))
                                       IN Second(InferStmt(c, mode, gamma, e))
      [] e.op = "Perage" ->
            Fresh(Unify(Want(Infer(CheckMode(c, mode, "Perage"), mode, gamma, e.e), T("plan")),
                        T("unit"), ResultT))

----------------------------------------------------------------------------
(* check_versus.                                                           *)

CheckPreds(c) ==
    IF \A p \in c.preds : Shallow(c.subst, p.ty).t \in p.allowed \cup {"?"}
    THEN c ELSE Clashing(c, "Types")

\* The bind spine of a sung verse: the types of its lines stay on the stack.
RECURSIVE InferSpine(_, _, _, _)
SpineRest(c, mode, gamma, e) == InferSpine(Drop(c), mode, Bind(gamma, e.x, Head(c.tys)), e.k)
InferSpine(c, mode, gamma, e) ==
    IF e.op = "Bind" THEN SpineRest(InferStmt(c, mode, gamma, e.m), mode, gamma, e)
    ELSE Drop(Infer(c, mode, gamma, e))

\* Line k carries its statement's type; the couplet, and the lines a verse
\* has no statement for, carry its result.
LineType(lines, k) == IF k >= 7 \/ k > Len(lines) THEN ResultT ELSE lines[Len(lines) + 1 - k]

\* Mutant: a line rhymes only with the next one.
RhymeNext(c, rhymes) ==
    FoldLeft(LAMBDA d, i : IF i < Len(rhymes) /\ rhymes[i] = rhymes[i + 1]
                           THEN Unify(d, LineType(c.tys, i), LineType(c.tys, i + 1)) ELSE d,
             c, [i \in DOMAIN rhymes |-> i])

\* Lines that share a label unify, in the order of the lines.
Rhyme(c, rhymes) ==
    FoldLeft(LAMBDA d, i :
                FoldLeft(LAMBDA f, j : IF i < j /\ rhymes[i] = rhymes[j]
                                       THEN Unify(f, LineType(c.tys, i), LineType(c.tys, j)) ELSE f,
                         d, [j \in DOMAIN rhymes |-> j]),
             c, [i \in DOMAIN rhymes |-> i])

\* The checker a verse leaves behind; it is accepted when nothing clashed.
CheckVersus(env, mode, body, rhymes) ==
    CheckPreds(IF rhymes = <<>> THEN Infer(NewChecker(env), mode, EmptyScope, body)
               ELSE Rhyme(InferSpine(NewChecker(env), mode, EmptyScope, body), rhymes))

Accepts(env, mode, body, rhymes) == CheckVersus(env, mode, body, rhymes).clash = "none"

\* check_program: every verse is checked, whether it will be sung or not.
CheckProgram(env, s) == \A i \in DOMAIN s : Accepts(env, s[i].mode, s[i].body, <<>>)

=============================================================================
