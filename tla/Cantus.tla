------------------------------- MODULE Cantus -------------------------------
(***************************************************************************)
(* officium-audio: a verse is rendered one note per line, and a phrase     *)
(* played on the manual is transcribed into a verse.  Both read the table  *)
(* of DegreeOp.                                                            *)
(***************************************************************************)
EXTENDS DegreeOp

----------------------------------------------------------------------------
(* render.rs: notes with their onset and duration in ticks.                *)

Classify(e) ==
    CASE e.op \in {"Return", "Nihil", "Clama", "Perage"} -> "Cadence"
      [] e.op \in {"Ask", "Arg", "Pure", "Resolve"} -> e.op
      [] e.op \in {"Lege", "Pone", "Mitte", "Lift"} -> "Modal"
      [] e.op = "If" -> "Branch"
      [] OTHER -> "BindOther"

\* push_note: the notes so far, and one more at the tick they have reached.
PushNote(out, mode, op, voice, dur) ==
    [notes |-> Append(out.notes, [pitch |-> DegreePitch(mode, Degree(mode, op)),
                                  onset |-> out.onset, dur |-> dur, voice |-> voice]),
     onset |-> out.onset + dur]

RECURSIVE WalkVerse(_, _, _, _)
WalkVerse(e, mode, voice, out) ==
    CASE e.op = "Bind" -> WalkVerse(e.k, mode, voice, PushNote(out, mode, Classify(e.m), voice, 1))
      [] e.op = "If" ->
            WalkVerse(e.e, mode, voice,
                      WalkVerse(e.t, mode, voice, PushNote(out, mode, "Branch", voice, 1)))
      [] Classify(e) = "Cadence" -> PushNote(out, mode, "Cadence", voice, 2)
      [] OTHER -> out

Silence == [notes |-> <<>>, onset |-> 0]

RenderVerse(body, mode, voice) == WalkVerse(body, mode, voice, Silence).notes

\* The motif of a fugue with a subject, and the pedal held under it.
SubjectMotif == <<1, 5, 3, 1>>
RenderFugue(out, fugue) ==
    LET mode == FromFinal(fugue.final, FALSE)
        motif == IF ~fugue.subject THEN <<>>
                 ELSE [i \in 1..4 |-> [pitch |-> DegreePitch(mode, SubjectMotif[i]),
                                       onset |-> out.onset + i - 1, dur |-> 1, voice |-> 1]]
        pedal == IF ~fugue.pedals THEN <<>>
                 ELSE <<[pitch |-> FinalPitch[fugue.final] - 24, onset |-> out.onset,
                         dur |-> IF fugue.subject THEN 4 ELSE 2, voice |-> 0]>>
    IN [notes |-> out.notes \o motif \o pedal, onset |-> out.onset + Len(motif)]

RenderProgram(fugues, verses) ==
    FoldLeft(LAMBDA out, i : WalkVerse(verses[i].body, verses[i].mode, 1 + i, out),
             FoldLeft(RenderFugue, Silence, fugues),
             [i \in DOMAIN verses |-> i]).notes

----------------------------------------------------------------------------
(* transcribe.rs, and what the parser makes of the text it writes.         *)

\* A transcriber: the position of the next note, the number of binders, the
\* value the next line sings about, and the statements of the block.
Transcriber(mode, ops) ==
    [mode |-> mode, ops |-> ops, pos |-> 1, vars |-> 0, prev |-> Lit(Num(0)),
     body |-> Lit(Unit), err |-> "none"]

NextVar(t) == "v" \o ToString(t.vars + 1)
PastNote(t) == [t EXCEPT !.pos = @ + 1]

\* Mutant: the binder is counted before it is named.
WithLaterBinder(t) ==
    [PastNote(t) EXCEPT !.vars = @ + 1, !.prev = Var("v" \o ToString(t.vars + 2))]

WithBinder(t) == [PastNote(t) EXCEPT !.vars = @ + 1, !.prev = Var(NextVar(t))]

\* resolve "vox" (genus (corpus 0 "cantus" 0 0))
Vox ==
    Resolve("vox", App(Var("genus"), App(App(App(App(Var("corpus"), Lit(Num(0))),
                                                 Lit(Str("cantus"))), Lit(Num(0))), Lit(Num(0)))))

\* What a note that is neither a cadence nor a branch writes.
Line(t, op) ==
    CASE op = "Arg" -> Arg
      [] op = "Ask" -> Ask("Dominus")
      [] op = "Pure" -> Pure(t.prev)
      [] op = "BindOther" -> t.prev
      [] op = "Resolve" -> Vox
      [] op = "Modal" ->
            CASE t.mode \in {"Lydian", "Hypolydian"} -> Pone(t.prev)
              [] t.mode = "Hypomixolydian" -> Mitte(App(App(App(Var("cmd"), t.prev), t.prev), t.prev))
              [] OTHER -> t.prev

RECURSIVE Block(_)
BlockAfter(t, m, x) == LET Prefixed(r) == [r EXCEPT !.body = BindE(m, x, @)] IN Prefixed(Block(t))
Arms(t, u) == [u EXCEPT !.body = If(Lit(Bool(TRUE)), t.body, @)]
SecondArm(t) == IF t.err # "none" THEN t ELSE Arms(t, Block(t))

\* block: statements up to a cadence, or a branch with a cadence in each arm.
Block(t) ==
    IF t.pos > Len(t.ops) THEN [t EXCEPT !.err = "phrasis sine cadentia"]
    ELSE LET op == t.ops[t.pos]
             m == Line(t, op)
         IN CASE op = "Cadence" -> [PastNote(t) EXCEPT !.body = Return(t.prev)]
              [] op = "Branch" -> SecondArm(Block(PastNote(t)))
              [] OTHER -> IF m.op \in {"Pone", "Mitte"} THEN BlockAfter(PastNote(t), m, "_")
                          ELSE BlockAfter(WithBinder(t), m, NextVar(t))

\* The verse the parser reads from the transcript.
Whole(t) ==
    IF t.err # "none" THEN [err |-> t.err]
    ELSE IF t.pos # Len(t.ops) + 1 THEN [err |-> "cantus post amen"]
    ELSE [err |-> "none", mode |-> t.mode, body |-> t.body]
Transcript(heard) ==
    IF heard.err # "none" THEN heard ELSE Whole(Block(Transcriber(heard.mode, heard.ops)))
Transcribe(pitches) == Transcript(Hear(pitches))

\* The fugue of a transcript that asks or resolves.
Organum(reciting) ==
    [pedals |-> <<[key |-> "Dominus", val |-> Num(reciting)]>>,
     real   |-> <<[key |-> <<"vox", "cantus">>, val |-> Lam("x", Var("x"))]>>,
     tonal  |-> <<>>]

=============================================================================
