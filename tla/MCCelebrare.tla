---------------------------- MODULE MCCelebrare -----------------------------
(* The office over scores around scores/meteor.off, next to the reference. *)
EXTENDS Celebrare, MCMachine, Checker

MCPasses(s) == CheckProgram(Env, s)

MCMeans(mode, e, a) == Ref!Meaning(mode, e, a)

Forever == App(Fix(Lam("self", Lam("n", App(Var("self"), Var("n"))))), Arg)
AField == App(Var("deflect"), Lit(Num(4)))

Named(name, mode, bodies) == [name : {name}, mode : mode, body : bodies]

FirstVerses ==
    Named("correctio", {"Dorian"}, {Correctio, Forever, AField})
      \cup Named("correctio", {"Phrygian"}, {Correctio, Clama(AField), Recipe(Clama(AField), "x", Var("x"))})
SecondVerses ==
    Named("consilium", {"Hypomixolydian"}, {Consilium, Return(Arg), Forever,
                           BindE(Mitte(App(Var("plan_of"), Arg)), "_", Consilium)})
      \cup Named("consilium", {"Lydian"}, {Consilium, Pone(Arg)})
ThirdVerses ==
    Named("executio", {"Mixolydian"}, {Executio, Return(Arg), Perage(App(Var("plan_of"), AField)),
                          Perage(Zero), Forever})
      \cup Named("executio", {"Hypolydian"}, {Executio, Lift(Pone(Arg))})

MCOffices ==
    {<<v, w, x>> : v \in FirstVerses, w \in SecondVerses, x \in ThirdVerses}
      \cup {<<x, v, w>> : v \in FirstVerses, w \in SecondVerses, x \in ThirdVerses}
      \cup {<<>>} \cup {<<v>> : v \in FirstVerses \cup SecondVerses}
      \cup {<<v, w>> : v \in FirstVerses, w \in SecondVerses}

Procession == <<Body("asteroides", 9, 1), Body("cometes", 9, 1), Body("asteroides", 1, 9)>>

NoVerses == {}
NoArgs == {}

=============================================================================
