----------------------------- MODULE MCChecker ------------------------------
(* What the checker accepts, sung on the machine.                          *)
EXTENDS MCMachine, Checker

Types == INSTANCE CheckerReference
           WITH Ground <- {T("num"), T("bool"), Fun(T("num"), T("num")), T("unit")}

TypeErrors == {"Dissonant", "UnboundVar", "WrongMode"}

\* The argument has the type the checker gave it.
ArgFits(c) ==
    /\ Shallow(c.subst, ArgT).t \in {"?", arg.ty}
    /\ \A p \in c.preds : Shallow(c.subst, p.ty) = Shallow(c.subst, ArgT) => arg.ty \in p.allowed

InTune(c) == c.clash = "none" /\ ArgFits(c) => result.err \notin TypeErrors

\* Unification refuses no verse that has a typing: what the checker turns
\* away before a note is sung is ill typed in every reading.
RefusesOnlyIllTyped ==
    phase = "done" /\ arg = Num(3) =>
        Accepts(Env, verse.mode, verse.body, <<>>) \/ ~Types!WellTyped(Env, verse.mode, verse.body)

RECURSIVE Deep(_, _)
Resolved(subst, t) == IF t.t = "closure" THEN Fun(Deep(subst, t.a), Deep(subst, t.r)) ELSE t
Deep(subst, t) == Resolved(subst, Shallow(subst, t))

RhymesHold(c, rhymes) ==
    c.clash = "none" =>
        /\ Accepts(Env, verse.mode, verse.body, <<>>)
        /\ \A i, j \in DOMAIN rhymes : rhymes[i] = rhymes[j] =>
              Deep(c.subst, LineType(c.tys, i)) = Deep(c.subst, LineType(c.tys, j))

Schemes == {<<"a", "b", "a", "b", "a", "b", "c", "c">>, <<"a", "a", "b", "b", "a", "a", "b", "b">>,
            <<"a", "b", "c", "a", "b", "c", "d", "d">>}

\* Rhyme = unification: in a sung verse that is accepted, all lines of one
\* label end with one type, far apart or not, and the verse is one that is
\* accepted in plain form too.
RhymesAgree ==
    phase = "done" /\ arg = Num(3) =>
        \A r \in Schemes : RhymesHold(CheckVersus(Env, verse.mode, verse.body, r), r)

----------------------------------------------------------------------------
(* Verses.                                                                 *)

Not(e) == App(Var("not"), e)
Plus(e, f) == App2(Var("add"), e, f)
Truth == Lit(Bool(TRUE))

Atoms == {Zero, Truth, Var("x"), Var("f"), Arg}
Calls1 == UNION {{App(a, b), Not(a), Plus(a, b)} : a \in Atoms, b \in Atoms}
Uses == UNION {{App(Var("f"), a), Not(Var("f")), Plus(Var("f"), a)} : a \in Atoms}

\* Functions and branches, as any mode has them.
Functions ==
    {BindE(e, "f", Return(g)) :
        e \in Atoms \cup Calls1 \cup {Lam("x", h) : h \in Atoms \cup Calls1}, g \in Uses}
      \cup {If(e, BindE(f, "x", Return(Var("x"))), Return(g)) : e \in Calls1, f \in Atoms, g \in Atoms}
      \cup {BindE(Lam("f", Lam("x", e)), "f", Return(App2(Var("f"), g, Arg))) :
               e \in Calls1, g \in {Zero, Arg, Var("not"), Lam("x", Var("x")), Lam("x", Zero)}}

\* Effects, of the mode or not.
Sends == {Zero, Truth, Arg, App3(Var("cmd"), Zero, Zero, Arg), App(Var("plan_of"), Arg)}
Statements ==
    UNION {{e, Pone(e), Mitte(e), Clama(e), Perage(e), Lift(Pone(e)), Lift(Clama(e)), Lift(Perage(e)),
            Recipe(Clama(e), "x", Not(Var("x"))), Lam("x", Clama(Var("x"))), Lam("x", Pone(Var("x")))}
              : e \in Sends} \cup {Nihil, Lift(Nihil)}
Ends == {Return(Not(Var("x"))), Return(Plus(Var("x"), Arg)), Perage(Var("x")), Clama(Var("x")),
         Recipe(App(Var("x"), Zero), "x", Return(Var("x"))), BindE(Mitte(Var("x")), "_", Return(Arg)),
         BindE(Lift(App(Var("x"), Arg)), "_", Return(Zero))}
Effectful == {BindE(e, "x", f) : e \in Statements, f \in Ends}

\* Reading what was written.
Reads(cell) ==
    {BindE(e, "x", Return(f)) :
        e \in {cell, Pone(Zero), Pone(Truth), Pone(cell), Lam("x", cell)},
        f \in {cell, Not(cell), Plus(cell, Zero), Plus(Var("x"), cell), App(Var("x"), Arg), Not(Var("x"))}}
Cells == {BindE(Pone(a), "_", e) : a \in {Zero, Truth, Arg}, e \in Reads(Lege)}
DeepCells == {BindE(Lift(Pone(a)), "_", e) : a \in {Zero, Truth, Arg}, e \in Reads(Lift(Lege))}

Stanzas ==
    {BindE(a, "x", BindE(b, "f", BindE(Pone(c), "_", BindE(d, "y", Return(e))))) :
        a, d \in {Zero, Truth, Arg, Lam("y", Arg)}, b, c \in {Truth, Arg, Var("x")},
        e \in {Zero, Arg, Var("x"), Not(Var("y"))}}

MCTuneful ==
    [mode : {"Dorian"}, body : Functions] \cup [mode : Mode, body : Effectful \cup ScoreBodies]
      \cup [mode : {"Lydian"}, body : Stanzas]
      \cup [mode : {"Lydian", "Hypolydian"}, body : Cells] \cup [mode : {"Hypolydian"}, body : DeepCells]

MCTuneArgs == {Num(3), Bool(TRUE), PlanV(Cmds), Body("asteroides", 9, 1), Field(1, 1, 0)}

\* A verse the checker accepts, sung to an argument of the type it inferred,
\* never meets a value of the wrong type, an unknown name or an operation its
\* mode does not have; of the verses above, which write a cell before they
\* read it and lift nothing inside a function (check.rs types both more
\* generously than the machine sings them).
AcceptedVersesStayInTune ==
    phase = "done" /\ verse \in MCTuneful => InTune(CheckVersus(Env, verse.mode, verse.body, <<>>))

=============================================================================
