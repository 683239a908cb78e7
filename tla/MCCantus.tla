------------------------------ MODULE MCCantus ------------------------------
(* Melodies, transcribed, checked and sung.                                *)
EXTENDS MCMachine, Checker, Cantus

CONSTANT LINES  \* the length of the melodies

\* The operations of a verse, line by line.
RECURSIVE OpsOf(_)
OpsOf(e) ==
    CASE e.op = "Bind" -> <<Classify(e.m)>> \o OpsOf(e.k)
      [] e.op = "If" -> <<"Branch">> \o OpsOf(e.t) \o OpsOf(e.e)
      [] OTHER -> <<Classify(e)>>

----------------------------------------------------------------------------
\* Shapes of verses: up to n lines between branches, branches in either arm.
RECURSIVE Shapes(_)
Branches(S, R) == {<<"Branch">> \o s \o t : s \in S, t \in R}
Shapes(n) ==
    IF n = 0 THEN {}
    ELSE {<<"Cadence">>}
           \cup {<<op>> \o s : op \in RenderOp \ {"Cadence", "Branch"}, s \in Shapes(n - 1)}
           \cup (IF n < 3 THEN {} ELSE Branches(Shapes(n - 2), Shapes(n - 2)))
MCShapes == Shapes(LINES) \cup Branches(Shapes(LINES - 1), Shapes(1)) \cup Branches(Shapes(1), Shapes(LINES - 1))

VerseOf(t) == [mode |-> t.mode, body |-> t.body]

MCTranscripts ==
    {VerseOf(t) : t \in {Transcript(h) : h \in {Hear(Played(m, s, 0)) : m \in Mode, s \in MCShapes}}}
MCOrganum == Organum(69)
MCZero == {Num(0)}

----------------------------------------------------------------------------
Phrase(mode, body, octave) ==
    LET notes == RenderVerse(body, mode, 2)
    IN [i \in DOMAIN notes |-> notes[i].pitch + 12 * octave]

ReadsBackFrom(phrase) ==
    ShowsItsMode(verse.mode, phrase) =>
        /\ Hear(phrase) = [err |-> "none", mode |-> verse.mode, ops |-> OpsOf(verse.body)]
        /\ Transcribe(phrase) = [err |-> "none", mode |-> verse.mode, body |-> verse.body]

\* Rendering and transcribing are inverse, if the mode can be heard: a
\* transcript, rendered and played in any octave, is heard with its mode and
\* operations and transcribed to itself, branches within branches included.
RenderReadsBack ==
    phase = "done" /\ verse \in MCTranscripts =>
        \A octave \in {-1, 0, 1} : ReadsBackFrom(Phrase(verse.mode, verse.body, octave))

IsPlain(ops) == "Branch" \notin Range(ops) /\ ~({"Resolve", "Modal"} \subseteq Range(ops))

\* A transcript that neither branches nor gives the answer of a resolve to an
\* operation of its mode passes the checker and cadences when it is sung to
\* zero, as the shell does.
PlainSkeletonsRun ==
    phase = "done" /\ verse \in MCTranscripts /\ IsPlain(OpsOf(verse.body)) =>
        Accepts(Env, verse.mode, verse.body, <<>>) /\ result.err = "none"

=============================================================================
