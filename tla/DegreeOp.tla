------------------------------ MODULE DegreeOp ------------------------------
(***************************************************************************)
(* The table of officium-audio (degree_op.rs) that render.rs and           *)
(* transcribe.rs share: an operation is sung as a degree of the mode, a    *)
(* degree as a pitch, and what is heard is read back to operations.  A     *)
(* pitch is a MIDI number.                                                 *)
(***************************************************************************)
EXTENDS Officium, Integers

RenderOp == {"Cadence", "Arg", "Ask", "Pure", "BindOther", "Modal", "Resolve", "Branch"}

----------------------------------------------------------------------------
(* degree_op.rs.                                                           *)

Degree(mode, op) ==
    CASE op = "Cadence" -> 1
      [] op = "Arg" -> 2
      [] op = "Ask" -> IF IsPlagal(mode) THEN 3 ELSE 5
      [] op = "Pure" -> IF IsPlagal(mode) THEN 5 ELSE 3
      [] op = "BindOther" -> 4
      [] op = "Modal" -> 6
      [] op = "Resolve" -> 7
      [] op = "Branch" -> 8

\* Mutant: the reciting tone is read as in an authentic mode.
OpOfDegreeAuthentic(mode, deg) ==
    <<"Cadence", "Arg", "Pure", "BindOther", "Ask", "Modal", "Resolve", "Branch">>[deg]

OpOfDegree(mode, deg) ==
    <<"Cadence", "Arg", IF IsPlagal(mode) THEN "Ask" ELSE "Pure", "BindOther",
      IF IsPlagal(mode) THEN "Pure" ELSE "Ask", "Modal", "Resolve", "Branch">>[deg]

FinalPitch == [Re |-> 62, Mi |-> 64, Fa |-> 65, Sol |-> 67]

Scale ==
    [Re  |-> <<0, 2, 3, 5, 7, 9, 10, 12>>, Mi  |-> <<0, 1, 3, 5, 7, 8, 10, 12>>,
     Fa  |-> <<0, 2, 4, 6, 7, 9, 11, 12>>, Sol |-> <<0, 2, 4, 5, 7, 9, 10, 12>>]

\* A plagal mode folds its upper degrees below the final.
DegreeOffset(mode, deg) ==
    LET s == Scale[FinalOf(mode)][deg]
    IN IF ~IsPlagal(mode) THEN s
       ELSE CASE deg \in {6, 7} -> s - 12
              [] deg = 8 -> -5
              [] OTHER -> s

DegreePitch(mode, deg) == FinalPitch[FinalOf(mode)] + DegreeOffset(mode, deg)

----------------------------------------------------------------------------
(* transcribe.rs, up to the operations of a phrase.                        *)

\* The degrees of a mode at an interval from the cadence.
DegreesAt(mode, interval) == {d \in 1..8 : DegreeOffset(mode, d) = interval}

\* The final is the pitch class of the last note; a melody that dips below
\* it is plagal.
FinalsOf(cadence) == {f \in DOMAIN FinalPitch : FinalPitch[f] % 12 = cadence % 12}
HeardMode(pitches) ==
    FromFinal(CHOOSE f \in FinalsOf(Last(pitches)) : TRUE,
              \E i \in DOMAIN pitches : pitches[i] < Last(pitches))

\* The operations of a phrase, or why there are none.
Hear(pitches) ==
    IF pitches = <<>> THEN [err |-> "silence"]
    ELSE IF FinalsOf(Last(pitches)) = {} THEN [err |-> "cadentia extra modos"]
    ELSE LET mode == HeardMode(pitches)
             degrees(i) == DegreesAt(mode, pitches[i] - Last(pitches))
         IN IF \E i \in DOMAIN pitches : degrees(i) = {} THEN [err |-> "nota extra modum"]
            ELSE [err |-> "none", mode |-> mode,
                  ops |-> [i \in DOMAIN pitches |-> OpOfDegree(mode, Min(degrees(i)))]]

----------------------------------------------------------------------------
(* What is sung is heard.                                                  *)

\* The pitches of a melody of operations, played octaves above or below.
Played(mode, ops, octave) ==
    [i \in DOMAIN ops |-> DegreePitch(mode, Degree(mode, ops[i])) + 12 * octave]

\* A plagal verse shows its mode only when its melody dips below the final.
ShowsItsMode(mode, phrase) ==
    IsPlagal(mode) => \E i \in DOMAIN phrase : phrase[i] < Last(phrase)

\* Otherwise it is taken for the authentic mode of its final, whose reciting
\* tone is the other one of the third and the fifth.
Mistaken(op) == CASE op = "Ask" -> "Pure" [] op = "Pure" -> "Ask" [] OTHER -> op

\* A melody that ends in a cadence is heard with its mode and its operations,
\* in whichever octave it is played, unless the mode does not show.
HeardBack(mode, ops, octave) ==
    Hear(Played(mode, ops, octave)) =
        IF ShowsItsMode(mode, Played(mode, ops, octave))
        THEN [err |-> "none", mode |-> mode, ops |-> ops]
        ELSE [err |-> "none", mode |-> FromFinal(FinalOf(mode), FALSE),
              ops |-> [i \in DOMAIN ops |-> Mistaken(ops[i])]]

=============================================================================
