----------------------------- MODULE MCMachine ------------------------------
(* Machine over small families of verses, next to the reference semantics. *)
EXTENDS Machine

\* Numbers are small naturals; what the opaque operations compute does not
\* matter as long as different operands tend to give different results.
MCF64(op, ns) ==
    CASE op = "add" -> ns[1] + ns[2]
      [] op = "sub" -> IF ns[1] >= ns[2] THEN ns[1] - ns[2] ELSE 0
      [] op = "mul" -> ns[1] * ns[2]
      [] op = "div" -> IF ns[2] = 0 THEN 0 ELSE ns[1] \div ns[2]
      [] op = "solve_dv" -> ns[1] + 10
      [] op = "vent" -> 1
      [] op = "zero" -> 0
      [] OTHER -> ns[1]

MCHolds(op, ns) ==
    CASE op = "le" -> ns[1] <= ns[2]
      [] op = "lt" -> ns[1] < ns[2]
      [] op = "safe" -> ns[1] * ns[3] < ns[2] * ns[2]

Ref == INSTANCE OfficiumReference WITH RefEnv <- Env, RefDepth <- FUEL_SLICE * MAX_SLICES

\* What the machine computes, slice by slice, is what the verse means in the
\* transformer tower, unless it was abandoned for lack of fuel.
AgreesWithReference ==
    phase = "done" /\ result # OutOfFuel =>
        result = Ref!Meaning(verse.mode, verse.body, arg)

----------------------------------------------------------------------------
(* All verses made of effects, up to a depth.                              *)

Zero == Lit(Num(0))
Cmds == <<Cmd(1, 0, 0)>>

Unary(S) ==
    UNION {{Pure(e), Return(e), Clama(e), Pone(e), Mitte(e), Perage(e), Lift(e)} : e \in S}
Binary(S, T) ==
    UNION {{Recipe(e, "x", f), BindE(e, "x", f)} : e \in S, f \in T}

Leaves == {Zero, Var("x"), Arg, Nihil, Lege}
Effects1 == Leaves \cup Unary(Leaves) \cup Binary(Leaves, Leaves)
Effects2 == Effects1 \cup Unary(Effects1) \cup Binary(Effects1, Leaves)
                \cup Binary(Unary(Leaves), Unary(Leaves))

\* Throws and handlers nest deeper, where there are two Except layers.
Throws(S) == UNION {{Return(e), Clama(e), Lift(e)} : e \in S}
Throws1 == {Zero, Var("x")} \cup Throws({Zero, Var("x")})
Throws2 == Throws1 \cup Throws(Throws1) \cup Binary(Throws1, Throws1)
Throws3 == Throws(Throws2) \cup Binary(Throws2, {Var("x"), Clama(Var("x")), Lift(Clama(Zero))})
Throws4 == Throws(Throws3)

MCEffects ==
    [mode : Mode, body : Effects2] \cup [mode : {"Hypophrygian"}, body : Throws3 \cup Throws4]

----------------------------------------------------------------------------
(* Scores: functions, recursion, builtins and overloads.                   *)

App2(f, a, b) == App(App(f, a), b)
App3(f, a, b, c) == App(App2(f, a, b), c)

\* scores/meteor.off.
Force == App2(Var("div"), App2(Var("mul"), Var("G"), App(Var("mass"), Var("corpus"))),
              App2(Var("mul"), Var("r"), Var("r")))

Meteor ==
    [pedals |-> <<[key |-> "G", val |-> Num(2)], [key |-> "G", val |-> Num(9)]>>,
     real   |-> <<[key |-> <<"trahere", "asteroides">>, val |-> Lam("r", Force)]>>,
     tonal  |-> <<[key |-> <<"trahere", "asteroides">>, val |-> Zero],
                  [key |-> <<"trahere", "cometes">>,
                   val |-> Lam("r", App2(Var("add"), Force, App(Var("outgassing"), Var("corpus"))))]>>]

Correctio ==
    BindE(Arg, "corpus", BindE(Ask("G"), "g", BindE(Pure(App(Var("dist"), Var("corpus"))), "r",
    BindE(Resolve("trahere", App(Var("genus"), Var("corpus"))), "f",
        If(App2(Var("safe"), Var("corpus"), Var("g")), Nihil,
           BindE(Pure(App2(Var("solve"), Var("f"), Var("r"))), "dv",
                 Return(App(Var("deflect"), Var("dv")))))))))

Consilium ==
    BindE(Arg, "field",
    BindE(Mitte(App3(Var("cmd"), App(Var("target"), Var("field")),
                     App(Var("dv_of"), Var("field")), App(Var("at"), Var("field")))), "_",
          Return(Var("field"))))

Executio == BindE(Arg, "plan", Perage(Var("plan")))

Body(genus, mass, dist) ==
    Record(("id" :> Num(1)) @@ ("genus" :> Genus(genus)) @@
           ("mass" :> Num(mass)) @@ ("dist" :> Num(dist)))

\* fix (\self n -> IF n <= 1 THEN base ELSE more), called on arg.
Loop(base, more) ==
    App(Fix(Lam("self", Lam("n", If(App2(Var("le"), Var("n"), Lit(Num(1))), base, more)))), Arg)
Again == App(Var("self"), App2(Var("sub"), Var("n"), Lit(Num(1))))

ScoreBodies == {
    Correctio, Consilium, Executio,
    \* factorial, in the value and in the state cell
    Return(Loop(Lit(Num(1)), App2(Var("mul"), Var("n"), Again))),
    BindE(Pone(Lit(Num(1))), "_", Return(Loop(Lege, BindE(Lege, "acc",
        BindE(Pone(App2(Var("mul"), Var("acc"), Var("n"))), "_", Again))))),
    \* a stretto that never cadences, and one that throws out of its depth
    Loop(Zero, App(Var("self"), Var("n"))),
    Recipe(Loop(Zero, Lift(Recipe(Clama(Var("n")), "x", Clama(Var("x"))))), "x", Var("x")),
    \* a closure sung one layer below the place that made it
    BindE(Pure(Lam("y", Pone(Var("y")))), "put",
        BindE(Lift(App(Var("put"), Arg)), "_", BindE(Lift(Lege), "z", Return(Var("z"))))),
    BindE(Pure(Lam("y", Clama(Var("y")))), "cry",
        Recipe(Lift(App(Var("cry"), Arg)), "x", Var("x"))),
    \* force laws inside force laws
    App2(Var("solve"), App(Var("solve"), Lam("r", Var("r"))), Arg),
    App2(Var("solve"), App(Var("solve"), Var("dist")), Arg),
    \* the remaining builtins, and what they refuse
    If(App(Var("not"), App2(Var("eq"), Arg, Arg)), Zero, Var("eq")),
    If(App2(Var("lt"), Arg, Lit(Num(3))), Perage(App(Var("plan_of"), App(Var("deflect"), Arg))), Arg),
    App3(Var("corpus"), Arg, Lit(Str("cometes")), Zero),
    App(App3(Var("corpus"), Zero, Lit(Str("cometes")), Arg), Zero),
    Mitte(App(Var("plan_of"), Arg)),
    App(Arg, Var("G")), Var("H"), Ask("H"), App(Var("outgassing"), Arg)}

MCScores == [mode : Mode, body : ScoreBodies]

MCArgs ==
    {Num(0), Num(3), Field(1, 1, 0), PlanV(<<>>), PlanV(Cmds), Bool(TRUE),
     Body("asteroides", 9, 1), Body("cometes", 9, 1), Body("asteroides", 1, 9),
     Body("lapis", 9, 1)}

MCArg == {PlanV(Cmds)}

=============================================================================
