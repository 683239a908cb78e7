-------------------------- MODULE CheckerReference --------------------------
(***************************************************************************)
(* What it means for a verse to be well typed, without unification: some   *)
(* choice of ground types for its argument, cell, throws, result and every *)
(* name it binds makes all of it fit.  Typings is the set of types an      *)
(* expression can have under such a choice.                                *)
(***************************************************************************)
EXTENDS Checker

CONSTANT Ground  \* the types a name may be given: base types and functions

\* All types a builtin has, instances of eq, solve and corpus included.
Instances(name) ==
    LET num == T("num")
    IN CASE name = "eq" -> {Fun2(a, a, T("bool")) : a \in Ground}
         [] name = "solve" -> {Fun2(Fun(a, num), a, num) : a \in Ground}
         [] name = "corpus" ->
               {Fun2(num, T(g), Fun2(num, num, T("record"))) : g \in {"genus", "str"}}
         [] OTHER -> {Head(Builtin(NewChecker(<<>>), name).tys)}

RECURSIVE Typings(_, _, _, _)

\* The types a statement binds.
Bound(w, mode, gamma, m) ==
    CASE m.op = "Pone" ->
            IF Allows(mode, "Pone") /\ w.state \in Typings(w, mode, gamma, m.e) THEN {T("unit")} ELSE {}
      [] m.op = "Mitte" ->
            IF Allows(mode, "Mitte") /\ Typings(w, mode, gamma, m.e) \cap {T("cmd"), T("plan")} # {}
            THEN {T("unit")} ELSE {}
      [] OTHER -> Typings(w, mode, gamma, m)

\* Nothing follows, so anything may.
After(holds) == IF holds THEN Ground ELSE {}

Typings(w, mode, gamma, e) ==
    CASE e.op = "Lit" -> {TypeOfValue(e.v)}
      [] e.op = "Var" -> IF e.x \in DOMAIN gamma THEN {gamma[e.x]}
                         ELSE IF e.x \in DOMAIN Arity THEN Instances(e.x)
                         ELSE {TypeOfValue(v) : v \in {AskEnv(w.env, e.x)[i] : i \in DOMAIN AskEnv(w.env, e.x)}}
      [] e.op = "Ask" -> {TypeOfValue(v) : v \in {AskEnv(w.env, e.x)[i] : i \in DOMAIN AskEnv(w.env, e.x)}}
      [] e.op = "Lam" -> UNION {{Fun(a, r) : r \in Typings(w, mode, Bind(gamma, e.x, a), e.e)} : a \in Ground}
      [] e.op = "App" ->
            {f.r : f \in {g \in Typings(w, mode, gamma, e.f) :
                             g.t = "closure" /\ g.a \in Typings(w, mode, gamma, e.a)}}
      [] e.op = "If" ->
            IF T("bool") \in Typings(w, mode, gamma, e.c)
            THEN Typings(w, mode, gamma, e.t) \cap Typings(w, mode, gamma, e.e) ELSE {}
      [] e.op = "Fix" -> {f.a : f \in {g \in Typings(w, mode, gamma, e.f) : g.t = "closure" /\ g.a = g.r}}
      [] e.op = "Pure" -> Typings(w, mode, gamma, e.e)
      [] e.op = "Lift" -> IF Allows(mode, "Lift") THEN Typings(w, FromFinal(FinalOf(mode), FALSE), gamma, e.e) ELSE {}
      [] e.op = "Return" -> After(w.result \in Typings(w, mode, gamma, e.e))
      [] e.op = "Bind" -> UNION {Typings(w, mode, Bind(gamma, e.x, a), e.k) : a \in Bound(w, mode, gamma, e.m)}
      [] e.op = "Arg" -> {w.arg}
      [] e.op = "Resolve" ->
            IF T("genus") \notin Typings(w, mode, gamma, e.g) THEN {}
            ELSE {r \in Ground : \A o \in Range(w.env.real \o w.env.tonal) :
                                    o.key[1] = e.x => r \in Typings(w, mode, gamma, o.val)}
      [] e.op = "Nihil" -> After(Allows(mode, "Nihil"))
      [] e.op = "Clama" -> After(Allows(mode, "Clama") /\ w.throw \in Typings(w, mode, gamma, e.e))
      [] e.op = "Recipe" ->
            IF Allows(mode, "Recipe")
            THEN Typings(w, mode, gamma, e.m) \cap Typings(w, mode, Bind(gamma, e.x, w.throw), e.h) ELSE {}
      [] e.op = "Lege" -> IF Allows(mode, "Lege") THEN {w.state} ELSE {}
      [] e.op \in {"Pone", "Mitte"} -> Bound(w, mode, gamma, e)
      [] e.op = "Perage" -> After(Allows(mode, "Perage") /\ T("plan") \in Typings(w, mode, gamma, e.e)
                                    /\ w.result = T("unit"))

\* Some choice of ground types fits.
WellTyped(env, mode, body) ==
    \E a, s, th, r \in Ground :
        Typings([env |-> env, arg |-> a, state |-> s, throw |-> th, result |-> r],
                mode, EmptyScope, body) # {}

=============================================================================
