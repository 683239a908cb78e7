--------------------------- MODULE MCInstruments ---------------------------
(* Instruments under three pairs of hands: one plays, one types and one has *)
(* scores played.  Commands are lines of one or two letters, and the scores *)
(* are what Cantus renders.                                                 *)
EXTENDS Instruments, TLC

NoF64(op, ns) == 0
NoHolds(op, ns) == FALSE
Audio == INSTANCE Cantus WITH F64 <- NoF64, Holds <- NoHolds

Hands == {{"a", "s", "d", "esc", "ret"}, {"f", "g", "esc", "ret", "bsp"}, {"h", "esc", "ret"}}
MCKeys == UNION Hands

MCCommands ==
    <<"a">> :> "piano" @@ <<"s">> :> "organ" @@ <<"d">> :> "transcribe"
        @@ <<"f">> :> "beep" @@ <<"f", "g">> :> "play" @@ <<"g", "f">> :> "piano"
        @@ <<"h">> :> "celebrare" @@ <<"h", "h">> :> "celebrare -"

\* A subject over its pedal, and a pedal under the subject of the next fugue.
Fugue(f, subject, pedals) == [final |-> f, subject |-> subject, pedals |-> pedals]
Rendered(prog) ==
    LET notes == Audio!RenderProgram(prog, <<[mode |-> "Dorian", body |-> [op |-> "Nihil"]]>>)
    IN [i \in DOMAIN notes |-> [pitch |-> notes[i].pitch, onset |-> notes[i].onset, dur |-> notes[i].dur]]
MCScores ==
    {Rendered(<<Fugue("Re", TRUE, TRUE)>>),
     Rendered(<<Fugue("Re", FALSE, TRUE), Fugue("Mi", TRUE, FALSE)>>)}

ASSUME ScoresArePlayable == \A s \in MCScores : s # <<>> /\ Playable(s)

VARIABLE hand  \* the keys that are used

MCNext ==
    /\ \/ \E k \in hand : Press(k) \/ Release(k)
       \/ ShellStep
    /\ UNCHANGED hand

MCInit == hand \in Hands /\ Init

MCSpec == MCInit /\ [][MCNext]_<<vars, hand>>
=============================================================================
