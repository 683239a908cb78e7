----------------------------- MODULE Celebrare ------------------------------
(***************************************************************************)
(* The office (kernel/src/celebrare.rs): a score is parsed and checked,    *)
(* then for each body correctio computes a field, consilium turns it into  *)
(* a plan and executio commits it; only the driver touches the gravity     *)
(* sink.  The verses run on Machine, one after the other.                  *)
(***************************************************************************)
EXTENDS Machine

CONSTANTS
    Scores,    \* the scores to celebrate: sequences of [name, mode, body]
    Bodies,    \* the procession of bodies, a sequence of values
    Passes(_), \* what check_program says of a score
    Means(_, _, _)  \* reference: the outcome of a mode, a body and an argument

ASSUME ScoresAssumption ==
    \A s \in Scores : s \in Seq({s[i] : i \in DOMAIN s}) /\ \A i \in DOMAIN s : s[i].mode \in Mode
ASSUME BodiesAssumption == Bodies \in Seq({Bodies[i] : i \in DOMAIN Bodies}) /\ Bodies # <<>>

VARIABLES
    score,
    concors, \* what check_program says of the score
    stage,   \* the verse of the office being sung, or "check", "lone", "end"
    body,    \* index of the body celebrated
    sunk,    \* what reached gravity_sink: [body, plan] in order
    gaveUp   \* history: the bodies one of whose verses was abandoned

office == <<score, concors, stage, body, sunk, gaveUp>>
cvars == <<vars, office>>

\* Program::verse: the first verse of the name, if any.
Verse(name) ==
    LET hits == {i \in DOMAIN score : score[i].name = name}
    IN IF hits = {} THEN <<>> ELSE <<score[Min(hits)]>>
Has(name) == Verse(name) # <<>>

\* run_verse on a fresh machine.
Begin(v, a) ==
    /\ verse' = [mode |-> v.mode, body |-> v.body] /\ arg' = a
    /\ control' = Eval(v.body, EmptyScope) /\ stack' = <<>>
    /\ tower' = BuildTower(v.mode, EmptyState)
    /\ depth' = 0 /\ thrown' = 1 /\ native' = 0
    /\ fuel' = FUEL_SLICE /\ slices' = 0
    /\ phase' = "sing" /\ result' = NoResult

CInit ==
    /\ score \in Scores
    /\ concors = Passes(score)
    /\ stage = "check" /\ body = 1 /\ sunk = <<>> /\ gaveUp = {}
    /\ verse = [mode |-> "Dorian", body |-> Arg] /\ arg = Unit
    /\ control = Value(Unit) /\ stack = <<>> /\ tower = <<[kind |-> "Maybe"]>>
    /\ depth = 0 /\ thrown = 1 /\ native = 0
    /\ fuel = 0 /\ slices = 0 /\ phase = "done" /\ result = NoResult

\* The checker refuses the score before anything is sung.
Refuse ==
    /\ stage = "check"
    /\ ~concors
    /\ stage' = "end"
    /\ UNCHANGED <<vars, score, concors, body, sunk, gaveUp>>

\* A score with a correctio is the office; otherwise its first verse is sung
\* to zero; a score without verses is only a fugue.
Accept ==
    /\ stage = "check"
    /\ concors
    /\ UNCHANGED <<score, concors, body, sunk, gaveUp>>
    /\ IF Has("correctio") THEN stage' = "correctio" /\ Begin(Verse("correctio")[1], Bodies[1])
       ELSE IF score # <<>> THEN stage' = "lone" /\ Begin(score[1], Num(F64("zero", <<>>)))
       ELSE stage' = "end" /\ UNCHANGED vars

SingOn ==
    /\ stage \notin {"check", "end"}
    /\ Step
    /\ UNCHANGED office

Sung(s) == stage = s /\ phase = "done"
Cadenced == result.err = "none"
GivesUp == gaveUp' = IF result = OutOfFuel THEN gaveUp \cup {body} ELSE gaveUp

\* celebrate_body returns; the loop goes on to the next body.
NextBody ==
    IF body = Len(Bodies)
    THEN stage' = "end" /\ UNCHANGED <<vars, body>>
    ELSE /\ stage' = "correctio"
         /\ body' = body + 1
         /\ Begin(Verse("correctio")[1], Bodies[body + 1])

AfterCorrectio ==
    /\ Sung("correctio")
    /\ IF Cadenced /\ result.value[1].ty = "field" /\ Has("consilium")
       THEN /\ stage' = "consilium"
            /\ Begin(Verse("consilium")[1], result.value[1])
            /\ UNCHANGED body
       ELSE NextBody
    /\ GivesUp
    /\ UNCHANGED <<score, concors, sunk>>

\* Mutant: executio is sung to the value of consilium, not to its plan.
ExecuteValue ==
    /\ Sung("consilium")
    /\ IF Cadenced /\ Has("executio")
       THEN /\ stage' = "executio"
            /\ Begin(Verse("executio")[1], result.value[1])
            /\ UNCHANGED body
       ELSE NextBody
    /\ GivesUp
    /\ UNCHANGED <<score, concors, sunk>>

AfterConsilium ==
    /\ Sung("consilium")
    /\ IF Cadenced /\ Has("executio")
       THEN /\ stage' = "executio"
            /\ Begin(Verse("executio")[1], PlanV(result.plan))
            /\ UNCHANGED body
       ELSE NextBody
    /\ GivesUp
    /\ UNCHANGED <<score, concors, sunk>>

\* The single impure act, performed by the driver.
AfterExecutio ==
    /\ Sung("executio")
    /\ sunk' = IF Cadenced /\ result.committed # <<>>
               THEN Append(sunk, [body |-> body, plan |-> result.committed[1]])
               ELSE sunk
    /\ NextBody
    /\ GivesUp
    /\ UNCHANGED <<score, concors>>

AfterLone ==
    /\ Sung("lone")
    /\ stage' = "end"
    /\ GivesUp
    /\ UNCHANGED <<vars, score, concors, body, sunk>>

Dismissed == stage = "end" /\ UNCHANGED cvars

Proceed ==
    \/ Refuse \/ Accept \/ SingOn
    \/ AfterCorrectio \/ AfterConsilium \/ AfterExecutio \/ AfterLone

CNext == Proceed \/ Dismissed

CSpec == CInit /\ [][CNext]_cvars /\ WF_cvars(Proceed)

\* The office ends for every score, whatever its verses do: the shell gets
\* its prompt back.
OfficeEnds == <>(stage = "end")

\* Nothing leaves but through the commit of an executio: what was sunk is a
\* non-empty plan of a Mixolydian verse of a score that passed the checker, at
\* most one per body and in the order of the procession, and none of a body
\* one of whose verses was abandoned.
SinkIsConsecrated ==
    /\ \A i \in DOMAIN sunk :
          /\ sunk[i].plan # <<>> /\ sunk[i].body \notin gaveUp
          /\ \A j \in 1..(i - 1) : sunk[j].body < sunk[i].body
    /\ sunk # <<>> => concors /\ Verse("executio")[1].mode = "Mixolydian"

----------------------------------------------------------------------------
(* What the office owes a body: the plan executio commits to when it is    *)
(* sung to the plan of a consilium sung to the field of the correctio.     *)

\* What a verse of the score means for each of args, dissonances left out.
MeaningsOf(name, args) ==
    IF ~Has(name) THEN {}
    ELSE {r \in {Means(Verse(name)[1].mode, Verse(name)[1].body, a) : a \in args} :
             r.err = "none"}

FieldsOf(b) == {r.value[1] : r \in {s \in MeaningsOf("correctio", {b}) : s.value[1].ty = "field"}}
PlansOf(b) == {PlanV(r.plan) : r \in MeaningsOf("consilium", FieldsOf(b))}
Owed(b) == {r.committed[1] : r \in {s \in MeaningsOf("executio", PlansOf(b)) : s.committed # <<>>}}

\* The sink has received what the body is owed, or nothing, if one of its
\* verses was abandoned.
PaidFor(b) == {sunk[i].plan : i \in {j \in DOMAIN sunk : sunk[j].body = b}}
Settled(b) == PaidFor(b) = IF b \in gaveUp THEN {} ELSE Owed(Bodies[b])

\* What left the office was consecrated, and in the end the sink has received,
\* body by body, exactly what the three verses mean together; of a body with
\* an abandoned verse it receives nothing.
SinkIsOwed ==
    /\ SinkIsConsecrated
    /\ stage = "end" => \/ sunk = <<>> /\ phase = "done" /\ result = NoResult
                        \/ \A b \in DOMAIN Bodies : Settled(b)

\* The machine sings a verse to its end as it is meant, or runs out of fuel.
SungAsMeant ==
    stage \notin {"check", "end"} /\ phase = "done" /\ result # OutOfFuel =>
        result = Means(verse.mode, verse.body, arg)

=============================================================================
