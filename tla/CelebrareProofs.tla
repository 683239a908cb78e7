-------------------------- MODULE CelebrareProofs ---------------------------
(***************************************************************************)
(* Proofs about the office: for every score, whatever its verses do, only  *)
(* consecrated plans reach the gravity sink, and in the end, body by body, *)
(* exactly what the three verses mean together.  The verses run on         *)
(* Machine, whose invariant holds again each time the office begins one.   *)
(***************************************************************************)
EXTENDS Celebrare, MachineProofs

\* The machine sings the verse of the stage, and what it commits is
\* consecrated.
SingInv ==
    /\ IInv /\ CommitIsConsecrated
    /\ stage = "executio" => Has("executio") /\ verse.mode = Verse("executio")[1].mode

\* The office: nothing is sung, let alone sunk, of a score that was refused,
\* and the bodies that were dealt with lie behind the one that is celebrated.
OfficeInv ==
    /\ score \in Scores
    /\ stage \notin {"check", "end"} => concors
    /\ stage \in {"correctio", "consilium", "executio"} => Has("correctio")
    /\ body \in Nat
    /\ \E S : sunk \in Seq(S)
    /\ \A i \in DOMAIN sunk : sunk[i].body \in Nat /\ (stage # "end" => sunk[i].body < body)
    /\ \A b \in gaveUp : b \in Nat /\ (stage # "end" => b < body)
    /\ SinkIsConsecrated

CInv == SingInv /\ OfficeInv

----------------------------------------------------------------------------
(* Beginning a verse.                                                      *)

\* Program::verse finds a verse of the score, which has a mode.
LEMMA FoundVerse ==
    ASSUME score \in Scores, NEW name, Has(name)
    PROVE  Verse(name)[1].mode \in Mode
<1> DEFINE hits == {i \in DOMAIN score : score[i].name = name}
<1>1. score \in Seq({score[i] : i \in DOMAIN score}) /\ \A i \in DOMAIN score : score[i].mode \in Mode
  BY ScoresAssumption
<1>2. hits # {} /\ Verse(name) = <<score[Min(hits)]>>
  BY DEF Has, Verse
<1>3. hits \in SUBSET Nat
  BY <1>1
<1>4. Min(hits) \in hits
  <2> HIDE DEF hits
  <2> QED BY <1>2, <1>3, MinIsLeast
<1>5. Min(hits) \in DOMAIN score
  BY <1>4
<1>6. Verse(name)[1] = score[Min(hits)]
  BY <1>2
<1> QED BY <1>1, <1>5, <1>6

\* The stack is empty when a verse begins.
LEMMA EmptyStack ==
    ASSUME NEW tw, Len(tw) \in Nat, Len(tw) >= 1
    PROVE  StackOK(<<>>, tw, 0)
<1> DEFINE st == <<>>
<1>1. st \in Seq({}) /\ Len(st) = 0 /\ DOMAIN st = {}
  OBVIOUS
<1> HIDE DEF st
<1>2. Lifts(st) = {}
  BY <1>1 DEF Lifts
<1>3. Cardinality(Lifts(st)) = 0
  BY <1>2, FS_EmptySet
<1>4. StackOK(st, tw, 0)
  BY <1>1, <1>2, <1>3 DEF StackOK
<1> QED BY <1>4 DEF st

\* run_verse on a fresh machine is in the machine's invariant again.
LEMMA BeginInv ==
    ASSUME NEW v, NEW a, v.mode \in Mode, Begin(v, a)
    PROVE  IInv' /\ CommitIsConsecrated' /\ verse'.mode = v.mode
<1>1. /\ verse'.mode = v.mode /\ control'.at = "Eval" /\ stack' = <<>> /\ depth' = 0 /\ thrown' = 1
      /\ tower' = BuildTower(v.mode, EmptyState)
  BY DEF Begin, Eval
<1>2. native' = 0 /\ fuel' = FUEL_SLICE /\ slices' = 0 /\ phase' = "sing"
  BY DEF Begin
<1>3. Layered(tower', v.mode) /\ Len(tower') >= 1 /\ Len(tower') \in Nat
  <2>1. Layered(tower', v.mode) /\ Len(tower') >= 1
    BY <1>1, BuildTowerLayered
  <2> QED BY <2>1 DEF Layered
<1>4. StackOK(stack', tower', depth')
  <2>1. StackOK(<<>>, tower', 0)
    BY <1>3, EmptyStack
  <2> QED BY <1>1, <2>1
<1>5. StackInv'
  BY <1>1, <1>3, <1>4 DEF StackInv
<1>6. DriverInv'
  BY <1>1, <1>2, FuelAssumption DEF DriverInv
<1>7. CommitIsConsecrated'
  BY <1>2 DEF CommitIsConsecrated
<1> QED BY <1>1, <1>5, <1>6, <1>7 DEF IInv

\* A step of the machine leaves the verse and its argument alone.
LEMMA StepKeepsVerse == Step => verse' = verse /\ arg' = arg
<1> USE DEF driver
<1>1. EvalStep => verse' = verse /\ arg' = arg
  BY DEF EvalStep, EvalLit, EvalVar, EvalLam, EvalApp, EvalIf, EvalFix, EvalPure,
     EvalReturn, EvalBind, EvalArg, EvalAsk, EvalResolve, EvalNihil, EvalClama, EvalRecipe,
     EvalLege, EvalPone, EvalMitte, EvalPerage, EvalLift, Evaluates, Turn
<1>2. ValueStep => verse' = verse /\ arg' = arg
  BY DEF ValueStep, MeetAppArg, MeetAppCall, MeetIfK, MeetBindK, Cadence, MeetClamaK,
     MeetRecipeH, MeetPoneK, MeetMitteK, MeetPerageK, MeetResolveK, MeetFixK, MeetLiftK,
     MeetBuiltinPost, Meets, Turn
<1>3. ApplyStep => verse' = verse /\ arg' = arg
  BY DEF ApplyStep, ApplyClosure, ApplyBuiltin, ApplyOther, CallsApply
<1>4. RunOut \/ Resume => verse' = verse /\ arg' = arg
  BY DEF RunOut, Resume
<1> QED BY <1>1, <1>2, <1>3, <1>4 DEF Step

----------------------------------------------------------------------------
(* The steps of the office.                                                *)

LEMMA CInitInv == CInit => CInv
<1> SUFFICES ASSUME CInit PROVE CInv
  OBVIOUS
<1>1. /\ verse.mode = "Dorian" /\ control.at = "Value" /\ stack = <<>> /\ depth = 0 /\ thrown = 1
      /\ tower = <<[kind |-> "Maybe"]>>
  BY DEF CInit, Value
<1>2. native = 0 /\ fuel = 0 /\ slices = 0 /\ phase = "done" /\ result = NoResult
  BY DEF CInit
<1>3. Layered(tower, "Dorian") /\ Len(tower) = 1
  <2>1. tower \in Seq({[kind |-> "Maybe"]}) /\ Len(tower) = 1 /\ DOMAIN tower = {1}
        /\ tower[1].kind = "Maybe"
    BY <1>1
  <2>2. Kinds(tower) = [i \in {1} |-> "Maybe"]
    BY <2>1 DEF Kinds
  <2>3. Tower("Dorian") = <<"Maybe">>
    BY DEF Tower
  <2>4. <<"Maybe">> = [i \in {1} |-> "Maybe"]
    OBVIOUS
  <2> QED BY <2>1, <2>2, <2>3, <2>4 DEF Layered
<1>4. StackOK(stack, tower, depth)
  BY <1>1, <1>3, EmptyStack
<1>5. StackInv
  BY <1>1, <1>3, <1>4 DEF StackInv, Mode
<1>6. DriverInv
  BY <1>1, <1>2, FuelAssumption DEF DriverInv
<1>7. CommitIsConsecrated
  BY <1>2 DEF CommitIsConsecrated, NoResult
<1>8. SingInv
  BY <1>5, <1>6, <1>7 DEF SingInv, IInv, CInit
<1>9. OfficeInv
  <2>1. sunk = <<>> /\ <<>> \in Seq({}) /\ DOMAIN sunk = {} /\ gaveUp = {} /\ body = 1 /\ stage = "check"
        /\ score \in Scores
    BY DEF CInit
  <2>2. SinkIsConsecrated
    BY <2>1 DEF SinkIsConsecrated
  <2> QED BY <2>1, <2>2 DEF OfficeInv
<1> QED BY <1>8, <1>9 DEF CInv

\* The loop goes on to the next body, with what was sunk and given up so far.
LEMMA NextBodyInv ==
    ASSUME CInv, stage \in {"correctio", "consilium", "executio"},
           NextBody, GivesUp, UNCHANGED <<score, concors>>,
           sunk' = sunk \/ \E p : /\ sunk' = Append(sunk, [body |-> body, plan |-> p])
                                  /\ p # <<>> /\ result # OutOfFuel
                                  /\ Verse("executio")[1].mode = "Mixolydian"
    PROVE  CInv'
<1> DEFINE sink == sunk'
<1>1. OfficeInv /\ SingInv
  BY DEF CInv
<1>2. /\ body \in Nat /\ concors /\ score' \in Scores /\ Has("correctio") /\ score \in Scores
      /\ \A b \in gaveUp : b \in Nat /\ b < body
      /\ \A i \in DOMAIN sunk : sunk[i].body \in Nat /\ sunk[i].body < body
  BY <1>1 DEF OfficeInv
<1>3. gaveUp' = gaveUp \/ (gaveUp' = gaveUp \cup {body} /\ result = OutOfFuel)
  BY DEF GivesUp
<1>4. PICK S : sunk \in Seq(S)
  BY <1>1 DEF OfficeInv
<1>5. \A n : Verse(n)' = Verse(n)
  BY DEF Verse
<1>6. SinkIsConsecrated
  BY <1>1 DEF OfficeInv
<1>7. /\ \E T : sunk' \in Seq(T)
      /\ \A i \in DOMAIN sunk' : sunk'[i].body \in Nat /\ sunk'[i].body <= body
      /\ SinkIsConsecrated'
  <2>1. CASE sunk' = sunk
    <3>1. \A i \in DOMAIN sunk : sunk[i].body \notin gaveUp'
      <4>1. \A i \in DOMAIN sunk : sunk[i].body # body /\ sunk[i].body \notin gaveUp
        BY <1>2, <1>6 DEF SinkIsConsecrated
      <4> QED BY <1>3, <4>1
    <3>2. SinkIsConsecrated'
      BY <1>5, <1>6, <2>1, <3>1 DEF SinkIsConsecrated
    <3> QED BY <1>2, <1>4, <2>1, <3>2
  <2>2. CASE sunk' # sunk
    <3>1. PICK p : /\ sunk' = Append(sunk, [body |-> body, plan |-> p])
                   /\ p # <<>> /\ result # OutOfFuel
                   /\ Verse("executio")[1].mode = "Mixolydian"
      BY <2>2
    <3> DEFINE x == [body |-> body, plan |-> p]
    <3>2. x.body = body /\ x.plan = p
      OBVIOUS
    <3>3. /\ sunk' \in Seq(S \cup {x}) /\ Len(sunk) \in Nat /\ DOMAIN sunk = 1..Len(sunk)
          /\ DOMAIN sunk' = 1..(Len(sunk) + 1) /\ sunk'[Len(sunk) + 1] = x
          /\ \A i \in 1..Len(sunk) : sunk'[i] = sunk[i]
      BY <1>4, <3>1
    <3> HIDE DEF x
    <3>4. gaveUp' = gaveUp
      BY <1>3, <3>1
    <3>5. ASSUME NEW i \in DOMAIN sunk'
          PROVE  /\ sunk'[i].body \in Nat /\ sunk'[i].body <= body
                 /\ sunk'[i].plan # <<>> /\ sunk'[i].body \notin gaveUp'
                 /\ \A j \in 1..(i - 1) : sunk'[j].body < sunk'[i].body
      <4>1. CASE i \in 1..Len(sunk)
        <5>1. /\ sunk[i].plan # <<>> /\ sunk[i].body \notin gaveUp
              /\ \A j \in 1..(i - 1) : sunk[j].body < sunk[i].body
          BY <1>6, <3>3, <4>1 DEF SinkIsConsecrated
        <5>2. \A j \in 1..(i - 1) : sunk'[j] = sunk[j]
          BY <3>3, <4>1
        <5>3. sunk[i].body \in Nat /\ sunk[i].body < body /\ sunk'[i] = sunk[i]
          BY <1>2, <3>3, <4>1
        <5>4. sunk'[i].body \in Nat /\ sunk'[i].body <= body
          BY <1>2, <5>3
        <5> QED BY <3>4, <5>1, <5>2, <5>3, <5>4
      <4>2. CASE i = Len(sunk) + 1
        <5>1. sunk'[i].body = body /\ sunk'[i].plan = p
          BY <3>2, <3>3, <4>2
        <5>2. \A j \in 1..(i - 1) : j \in DOMAIN sunk /\ sunk'[j] = sunk[j]
          BY <3>3, <4>2
        <5>3. \A j \in 1..(i - 1) : sunk'[j].body < body
          BY <1>2, <5>2
        <5>4. body \notin gaveUp
          BY <1>2
        <5> QED BY <1>2, <3>1, <3>4, <5>1, <5>3, <5>4
      <4> QED BY <3>3, <4>1, <4>2
    <3>6. SinkIsConsecrated'
      BY <1>2, <1>5, <3>1, <3>5 DEF SinkIsConsecrated
    <3> QED BY <3>3, <3>5, <3>6
  <2> QED BY <2>1, <2>2
<1>8. \A b \in gaveUp' : b \in Nat /\ b <= body
  BY <1>2, <1>3
<1>9. CASE stage' = "end" /\ UNCHANGED <<vars, body>>
  <2>1. OfficeInv'
    BY <1>2, <1>7, <1>8, <1>9 DEF OfficeInv
  <2>2. SingInv'
    <3>1. UNCHANGED <<verse, arg, slices, control, stack, tower, depth, thrown, fuel, phase, result, native>>
      BY <1>9 DEF vars, driver, machine
    <3>2. IInv'
      BY <1>1, <1>9, InvStep DEF SingInv
    <3>3. CommitIsConsecrated'
      BY <1>1, <3>1 DEF SingInv, CommitIsConsecrated
    <3> QED BY <1>9, <3>2, <3>3 DEF SingInv
  <2> QED BY <2>1, <2>2 DEF CInv
<1>10. CASE /\ stage' = "correctio" /\ body' = body + 1
            /\ Begin(Verse("correctio")[1], Bodies[body + 1])
  <2>1. SingInv'
    <3>1. IInv' /\ CommitIsConsecrated'
      BY <1>2, <1>10, FoundVerse, BeginInv
    <3> QED BY <1>10, <3>1 DEF SingInv
  <2>2. Has("correctio")'
    BY <1>2, <1>5 DEF Has
  <2>3. /\ \A i \in DOMAIN sunk' : sunk'[i].body \in Nat /\ sunk'[i].body < body + 1
        /\ \A b \in gaveUp' : b \in Nat /\ b < body + 1
    BY <1>2, <1>7, <1>8
  <2>4. OfficeInv'
    BY <1>2, <1>7, <1>10, <2>2, <2>3 DEF OfficeInv
  <2> QED BY <2>1, <2>4 DEF CInv
<1> QED BY <1>9, <1>10 DEF NextBody

\* A verse of the office begins: the stage names it, the rest of the office
\* stays.
LEMMA BeginsVerse ==
    ASSUME CInv, concors, NEW st \in {"correctio", "consilium", "executio", "lone"},
           NEW v, NEW a, v.mode \in Mode, Begin(v, a), stage' = st,
           st # "lone" => Has("correctio"),
           st = "executio" => Has("executio") /\ v = Verse("executio")[1],
           stage # "end", UNCHANGED <<score, concors, body, sunk, gaveUp>>
    PROVE  CInv'
<1>1. \A n : Verse(n)' = Verse(n)
  BY DEF Verse
<1>2. IInv' /\ CommitIsConsecrated' /\ verse'.mode = v.mode
  BY BeginInv
<1>3. SingInv'
  <2>1. st = "executio" => Has("executio")' /\ verse'.mode = Verse("executio")'[1].mode
    BY <1>1, <1>2 DEF Has
  <2> QED BY <1>2, <2>1 DEF SingInv
<1>4. OfficeInv'
  <2>1. SinkIsConsecrated'
    BY <1>1 DEF CInv, OfficeInv, SinkIsConsecrated
  <2>2. st # "lone" => Has("correctio")'
    BY <1>1 DEF Has
  <2> QED BY <2>1, <2>2 DEF CInv, OfficeInv
<1> QED BY <1>3, <1>4 DEF CInv

\* The office goes no further than this verse: the machine is left as it is.
LEMMA EndsOffice ==
    ASSUME CInv, stage' = "end", UNCHANGED <<vars, score, concors, body, sunk>>,
           gaveUp' = gaveUp \/ (gaveUp' = gaveUp \cup {body} /\ stage = "lone")
    PROVE  CInv'
<1>1. \A n : Verse(n)' = Verse(n)
  BY DEF Verse
<1>2. UNCHANGED <<verse, phase, result>>
  BY DEF vars, driver
<1>3. SingInv'
  <2>1. IInv'
    BY InvStep DEF CInv, SingInv
  <2>2. CommitIsConsecrated'
    BY <1>2 DEF CInv, SingInv, CommitIsConsecrated
  <2> QED BY <2>1, <2>2 DEF SingInv
<1>4. OfficeInv
  BY DEF CInv
<1>5. body \in Nat /\ \A b \in gaveUp : b \in Nat
  BY <1>4 DEF OfficeInv
<1>6. \A b \in gaveUp' : b \in Nat
  BY <1>5
<1>7. SinkIsConsecrated'
  <2>1. \A i \in DOMAIN sunk : sunk[i].body \notin gaveUp'
    <3>1. \A i \in DOMAIN sunk : sunk[i].body \notin gaveUp
      BY <1>4 DEF OfficeInv, SinkIsConsecrated
    <3>2. stage = "lone" => \A i \in DOMAIN sunk : sunk[i].body # body
      BY <1>4 DEF OfficeInv
    <3> QED BY <3>1, <3>2
  <2> QED BY <1>1, <1>4, <2>1 DEF OfficeInv, SinkIsConsecrated
<1>8. OfficeInv'
  BY <1>4, <1>6, <1>7 DEF OfficeInv
<1> QED BY <1>3, <1>8 DEF CInv

\* Every step of the office keeps its invariant.
LEMMA CInvStep == CInv /\ [CNext]_cvars => CInv'
<1> SUFFICES ASSUME CInv, [CNext]_cvars PROVE CInv'
  OBVIOUS
<1>1. OfficeInv /\ SingInv
  BY DEF CInv
<1>2. /\ score \in Scores /\ (stage \notin {"check", "end"} => concors)
      /\ (stage \in {"correctio", "consilium", "executio"} => Has("correctio"))
  BY <1>1 DEF OfficeInv
<1>3. CASE Refuse
  BY <1>3, EndsOffice DEF Refuse
<1>4. CASE Accept
  <2>1. stage = "check" /\ concors /\ UNCHANGED <<score, concors, body, sunk, gaveUp>>
    BY <1>4 DEF Accept
  <2>2. CASE Has("correctio")
    <3>1. stage' = "correctio" /\ Begin(Verse("correctio")[1], Bodies[1])
      BY <1>4, <2>2 DEF Accept
    <3>2. Verse("correctio")[1].mode \in Mode
      BY <1>2, <2>2, FoundVerse
    <3> QED BY <2>1, <2>2, <3>1, <3>2, BeginsVerse
  <2>3. CASE ~Has("correctio") /\ score # <<>>
    <3>1. stage' = "lone" /\ Begin(score[1], Num(F64("zero", <<>>)))
      BY <1>4, <2>3 DEF Accept
    <3>2. score[1].mode \in Mode
      <4>1. score \in Seq({score[i] : i \in DOMAIN score}) /\ \A i \in DOMAIN score : score[i].mode \in Mode
        BY <1>2, ScoresAssumption
      <4>2. 1 \in DOMAIN score
        BY <2>3, <4>1
      <4> QED BY <4>1, <4>2
    <3> QED BY <2>1, <3>1, <3>2, BeginsVerse
  <2>4. CASE ~Has("correctio") /\ score = <<>>
    <3>1. stage' = "end" /\ UNCHANGED vars
      BY <1>4, <2>4 DEF Accept
    <3> QED BY <2>1, <3>1, EndsOffice
  <2> QED BY <2>2, <2>3, <2>4
<1>5. CASE SingOn
  <2>1. Step /\ UNCHANGED <<score, concors, stage, body, sunk, gaveUp>>
    BY <1>5 DEF SingOn, office
  <2>2. IInv' /\ CommitIsConsecrated'
    BY <1>1, <2>1, InvStep, CommitStep DEF SingInv, Next
  <2>3. verse' = verse
    BY <2>1, StepKeepsVerse
  <2>4. \A n : Verse(n)' = Verse(n)
    BY <2>1 DEF Verse
  <2>5. SingInv'
    BY <1>1, <2>1, <2>2, <2>3, <2>4 DEF SingInv, Has
  <2>6. SinkIsConsecrated'
    BY <1>1, <2>1, <2>4 DEF OfficeInv, SinkIsConsecrated
  <2>7. OfficeInv'
    BY <1>1, <2>1, <2>4, <2>6 DEF OfficeInv, Has
  <2> QED BY <2>5, <2>7 DEF CInv
<1>6. CASE AfterCorrectio
  <2>1. stage = "correctio" /\ UNCHANGED <<score, concors, sunk>> /\ GivesUp
    BY <1>6 DEF AfterCorrectio, Sung
  <2>2. CASE NextBody
    BY <2>1, <2>2, NextBodyInv
  <2>3. CASE ~NextBody
    <3>1. /\ Cadenced /\ Has("consilium") /\ stage' = "consilium"
          /\ Begin(Verse("consilium")[1], result.value[1]) /\ UNCHANGED body
      BY <1>6, <2>3 DEF AfterCorrectio
    <3>2. UNCHANGED gaveUp
      BY <2>1, <3>1, DissonanceErr DEF Cadenced, GivesUp
    <3>3. Verse("consilium")[1].mode \in Mode
      BY <1>2, <3>1, FoundVerse
    <3> QED BY <1>2, <2>1, <3>1, <3>2, <3>3, BeginsVerse
  <2> QED BY <2>2, <2>3
<1>7. CASE AfterConsilium
  <2>1. stage = "consilium" /\ UNCHANGED <<score, concors, sunk>> /\ GivesUp
    BY <1>7 DEF AfterConsilium, Sung
  <2>2. CASE NextBody
    BY <2>1, <2>2, NextBodyInv
  <2>3. CASE ~NextBody
    <3>1. /\ Cadenced /\ Has("executio") /\ stage' = "executio"
          /\ Begin(Verse("executio")[1], PlanV(result.plan)) /\ UNCHANGED body
      BY <1>7, <2>3 DEF AfterConsilium
    <3>2. UNCHANGED gaveUp
      BY <2>1, <3>1, DissonanceErr DEF Cadenced, GivesUp
    <3>3. Verse("executio")[1].mode \in Mode
      BY <1>2, <3>1, FoundVerse
    <3> QED BY <1>2, <2>1, <3>1, <3>2, <3>3, BeginsVerse
  <2> QED BY <2>2, <2>3
<1>8. CASE AfterExecutio
  <2>1. /\ stage = "executio" /\ phase = "done" /\ UNCHANGED <<score, concors>> /\ GivesUp /\ NextBody
        /\ sunk' = IF Cadenced /\ result.committed # <<>>
                   THEN Append(sunk, [body |-> body, plan |-> result.committed[1]])
                   ELSE sunk
    BY <1>8 DEF AfterExecutio, Sung
  <2>2. CASE Cadenced /\ result.committed # <<>>
    <3>1. verse.mode = "Mixolydian" /\ result.committed[1] # <<>>
      BY <1>1, <2>1, <2>2 DEF SingInv, CommitIsConsecrated, Cadenced
    <3>2. Verse("executio")[1].mode = "Mixolydian"
      BY <1>1, <2>1, <3>1 DEF SingInv
    <3>3. result # OutOfFuel
      BY <2>2, DissonanceErr DEF Cadenced
    <3>4. sunk' = Append(sunk, [body |-> body, plan |-> result.committed[1]])
      BY <2>1, <2>2
    <3> QED BY <2>1, <3>1, <3>2, <3>3, <3>4, NextBodyInv
  <2>3. CASE ~(Cadenced /\ result.committed # <<>>)
    <3>1. sunk' = sunk
      BY <2>1, <2>3
    <3> QED BY <2>1, <3>1, NextBodyInv
  <2> QED BY <2>2, <2>3
<1>9. CASE AfterLone
  BY <1>9, EndsOffice DEF AfterLone, Sung, GivesUp
<1>10. CASE UNCHANGED cvars
  <2>1. UNCHANGED <<vars, score, concors, stage, body, sunk, gaveUp>>
    BY <1>10 DEF cvars, office
  <2>2. UNCHANGED <<verse, phase, result>>
    BY <2>1 DEF vars, driver
  <2>3. IInv' /\ CommitIsConsecrated'
    BY <1>1, <2>1, InvStep, CommitStep DEF SingInv
  <2>4. \A n : Verse(n)' = Verse(n)
    BY <2>1 DEF Verse
  <2>5. SingInv'
    BY <1>1, <2>1, <2>2, <2>3, <2>4 DEF SingInv, Has
  <2>6. SinkIsConsecrated'
    BY <1>1, <2>1, <2>4 DEF OfficeInv, SinkIsConsecrated
  <2>7. OfficeInv'
    BY <1>1, <2>1, <2>4, <2>6 DEF OfficeInv, Has
  <2> QED BY <2>5, <2>7 DEF CInv
<1> QED
  BY <1>3, <1>4, <1>5, <1>6, <1>7, <1>8, <1>9, <1>10 DEF CNext, Proceed, Dismissed

----------------------------------------------------------------------------
(* What the sink is owed.                                                  *)

Office == {"correctio", "consilium", "executio"}

\* The machine sings the verse of this name.
Sings(name) ==
    /\ Has(name)
    /\ verse.mode = Verse(name)[1].mode /\ verse.body = Verse(name)[1].body

\* The bodies behind the one that is celebrated are settled, and the verse of
\* the stage is sung to what the verses before it mean for the body.
OwedInv ==
    /\ body \in DOMAIN Bodies
    /\ stage = "check" => sunk = <<>> /\ gaveUp = {} /\ body = 1 /\ phase = "done" /\ result = NoResult
    /\ stage = "lone" => sunk = <<>> /\ ~Has("correctio")
    /\ stage \in Office => Sings(stage) /\ \A b \in 1..(body - 1) : Settled(b)
    /\ stage = "correctio" => arg = Bodies[body]
    /\ stage = "consilium" => FieldsOf(Bodies[body]) = {arg}
    /\ stage = "executio" => PlansOf(Bodies[body]) = {arg}
    /\ stage = "end" => \/ sunk = <<>> /\ phase = "done" /\ result = NoResult
                        \/ \A b \in DOMAIN Bodies : Settled(b)

\* A verse sung to one argument has one meaning, or none if it is dissonant.
LEMMA OneMeaning ==
    ASSUME NEW name, NEW a, NEW m, Sings(name), m = Means(verse.mode, verse.body, a)
    PROVE  MeaningsOf(name, {a}) = IF m.err = "none" THEN {m} ELSE {}
BY DEF Sings, MeaningsOf

\* Nothing is owed where a verse is missing or has nothing to be sung to.
LEMMA NoMeaning == \A name : MeaningsOf(name, {}) = {} /\ (~Has(name) => \A as : MeaningsOf(name, as) = {})
BY DEF MeaningsOf

\* What a body is owed depends on the score alone.
LEMMA SameOwed ==
    ASSUME UNCHANGED score
    PROVE  \A b : FieldsOf(b)' = FieldsOf(b) /\ PlansOf(b)' = PlansOf(b) /\ Owed(b)' = Owed(b)
<1>1. \A n : Verse(n)' = Verse(n)
  BY DEF Verse
<1>2. \A n, as : MeaningsOf(n, as)' = MeaningsOf(n, as)
  BY <1>1 DEF MeaningsOf, Has
<1>3. \A b : FieldsOf(b)' = FieldsOf(b)
  BY <1>2 DEF FieldsOf
<1>4. \A b : PlansOf(b)' = PlansOf(b)
  BY <1>2, <1>3 DEF PlansOf
<1> QED BY <1>2, <1>3, <1>4 DEF Owed

\* A verse begins: the machine sings it, to its argument.
LEMMA BeginSings ==
    ASSUME NEW name, NEW a, Has(name), Begin(Verse(name)[1], a), UNCHANGED score
    PROVE  Sings(name)' /\ arg' = a
<1>1. Verse(name)' = Verse(name)
  BY DEF Verse
<1>2. verse' = [mode |-> Verse(name)[1].mode, body |-> Verse(name)[1].body] /\ arg' = a
  BY DEF Begin
<1> QED BY <1>1, <1>2 DEF Sings, Has

\* The body is done with, and the sink has what it is owed: the loop goes on.
LEMMA NextBodyOwed ==
    ASSUME CInv, OwedInv, stage \in Office, NextBody, GivesUp, UNCHANGED score,
           \/ sunk' = sunk /\ (result # OutOfFuel => Owed(Bodies[body]) = {})
           \/ \E p : /\ sunk' = Append(sunk, [body |-> body, plan |-> p])
                     /\ result # OutOfFuel /\ Owed(Bodies[body]) = {p}
    PROVE  OwedInv'
<1>1. /\ body \in Nat /\ Has("correctio")
      /\ \A b \in gaveUp : b < body
      /\ \A i \in DOMAIN sunk : sunk[i].body < body
  BY DEF CInv, OfficeInv, Office
<1>2. PICK S : sunk \in Seq(S)
  BY DEF CInv, OfficeInv
<1>3. body \in DOMAIN Bodies /\ \A b \in 1..(body - 1) : Settled(b)
  BY DEF OwedInv
<1>4. body \notin gaveUp /\ PaidFor(body) = {}
  BY <1>1 DEF PaidFor
<1>5. gaveUp' = IF result = OutOfFuel THEN gaveUp \cup {body} ELSE gaveUp
  BY DEF GivesUp
<1>6. \A b : Owed(b)' = Owed(b)
  BY SameOwed
<1>7. \A b \in 1..(body - 1) : PaidFor(b)' = PaidFor(b)
  <2>1. CASE sunk' = sunk
    BY <2>1 DEF PaidFor
  <2>2. CASE \E p : sunk' = Append(sunk, [body |-> body, plan |-> p])
    <3>1. PICK p : sunk' = Append(sunk, [body |-> body, plan |-> p])
      BY <2>2
    <3> DEFINE x == [body |-> body, plan |-> p]
    <3>2. x.body = body
      OBVIOUS
    <3>3. /\ Len(sunk) \in Nat /\ DOMAIN sunk = 1..Len(sunk)
          /\ DOMAIN sunk' = 1..(Len(sunk) + 1) /\ sunk'[Len(sunk) + 1] = x
          /\ \A i \in 1..Len(sunk) : sunk'[i] = sunk[i]
      BY <1>2, <3>1
    <3> HIDE DEF x
    <3>4. ASSUME NEW b \in 1..(body - 1)
          PROVE  PaidFor(b)' = PaidFor(b)
      <4>1. {j \in DOMAIN sunk' : sunk'[j].body = b} = {j \in DOMAIN sunk : sunk[j].body = b}
        BY <1>1, <3>2, <3>3
      <4>2. \A i \in {j \in DOMAIN sunk : sunk[j].body = b} : sunk'[i] = sunk[i]
        BY <3>3
      <4> QED BY <4>1, <4>2 DEF PaidFor
    <3> QED BY <3>4
  <2> QED BY <2>1, <2>2
<1>8. \A b \in 1..(body - 1) : Settled(b)'
  <2>1. \A b \in 1..(body - 1) : b \in gaveUp' <=> b \in gaveUp
    BY <1>1, <1>5
  <2> QED BY <1>3, <1>6, <1>7, <2>1 DEF Settled
<1>9. \A b : b = body => Settled(b)'
  <2> SUFFICES ASSUME NEW b, b = body PROVE Settled(b)'
    OBVIOUS
  <2>1. CASE sunk' = sunk /\ (result # OutOfFuel => Owed(Bodies[body]) = {})
    <3>1. PaidFor(b)' = {}
      BY <1>4, <2>1 DEF PaidFor
    <3> QED BY <1>4, <1>5, <1>6, <2>1, <3>1 DEF Settled
  <2>2. CASE \E p : /\ sunk' = Append(sunk, [body |-> body, plan |-> p])
                    /\ result # OutOfFuel /\ Owed(Bodies[body]) = {p}
    <3>1. PICK p : /\ sunk' = Append(sunk, [body |-> body, plan |-> p])
                   /\ result # OutOfFuel /\ Owed(Bodies[body]) = {p}
      BY <2>2
    <3> DEFINE x == [body |-> body, plan |-> p]
    <3>2. x.body = body /\ x.plan = p
      OBVIOUS
    <3>3. /\ Len(sunk) \in Nat /\ DOMAIN sunk = 1..Len(sunk)
          /\ DOMAIN sunk' = 1..(Len(sunk) + 1) /\ sunk'[Len(sunk) + 1] = x
          /\ \A i \in 1..Len(sunk) : sunk'[i] = sunk[i]
      BY <1>2, <3>1
    <3> HIDE DEF x
    <3>4. {j \in DOMAIN sunk' : sunk'[j].body = b} = {Len(sunk) + 1}
      BY <1>1, <3>2, <3>3
    <3>5. PaidFor(b)' = {p}
      BY <3>2, <3>3, <3>4 DEF PaidFor
    <3> QED BY <1>4, <1>5, <1>6, <3>1, <3>5 DEF Settled
  <2> QED BY <2>1, <2>2
<1>10. \A b \in 1..body : Settled(b)'
  <2>1. \A b \in 1..body : b \in 1..(body - 1) \/ b = body
    BY <1>1
  <2> QED BY <1>8, <1>9, <2>1
<1>11. Len(Bodies) \in Nat /\ DOMAIN Bodies = 1..Len(Bodies)
  BY BodiesAssumption
<1>12. CASE body = Len(Bodies) /\ stage' = "end" /\ UNCHANGED body
  BY <1>3, <1>10, <1>11, <1>12 DEF OwedInv, Office
<1>13. CASE /\ body # Len(Bodies) /\ stage' = "correctio" /\ body' = body + 1
            /\ Begin(Verse("correctio")[1], Bodies[body + 1])
  <2>1. Sings("correctio")' /\ arg' = Bodies[body']
    BY <1>1, <1>13, BeginSings
  <2>2. body' \in DOMAIN Bodies /\ 1..(body' - 1) = 1..body
    BY <1>3, <1>11, <1>13
  <2>3. \A b \in 1..(body' - 1) : Settled(b)'
    BY <1>10, <2>2
  <2>4. Sings(stage)'
    BY <1>13, <2>1
  <2> QED BY <1>13, <2>1, <2>2, <2>3, <2>4 DEF OwedInv
<1> QED BY <1>12, <1>13 DEF NextBody

\* The next verse begins, sung to what the one before it means for the body.
LEMMA VerseBegins ==
    ASSUME OwedInv, stage \in Office, UNCHANGED <<score, body, sunk, gaveUp>>,
           NEW st \in {"consilium", "executio"}, stage' = st, Sings(st)',
           st = "consilium" => FieldsOf(Bodies[body]) = {arg'},
           st = "executio" => PlansOf(Bodies[body]) = {arg'}
    PROVE  OwedInv'
<1>1. \A b : FieldsOf(b)' = FieldsOf(b) /\ PlansOf(b)' = PlansOf(b) /\ Owed(b)' = Owed(b)
  BY SameOwed
<1>2. \A b \in 1..(body - 1) : Settled(b)'
  <2>1. \A b : PaidFor(b)' = PaidFor(b)
    BY DEF PaidFor
  <2>2. \A b \in 1..(body - 1) : Settled(b)
    BY DEF OwedInv
  <2> QED BY <1>1, <2>1, <2>2 DEF Settled
<1>3. Sings(stage)'
  BY DEF Sings
<1>4. \A n : Verse(n)' = Verse(n)
  BY DEF Verse
<1>5. FieldsOf(Bodies[body])' = FieldsOf(Bodies[body]) /\ PlansOf(Bodies[body])' = PlansOf(Bodies[body])
  BY <1>4 DEF PlansOf, FieldsOf, MeaningsOf, Has
<1> QED BY <1>2, <1>3, <1>5 DEF OwedInv, Office

LEMMA OwedInit == CInit => OwedInv
<1>1. 1 \in DOMAIN Bodies
  BY BodiesAssumption
<1> QED BY <1>1 DEF CInit, OwedInv, Office

\* A step that leaves the office, the verse and its argument alone owes the
\* same.
LEMMA SameOffice ==
    ASSUME OwedInv, UNCHANGED office, UNCHANGED <<verse, arg>>,
           stage \in {"check", "end"} => UNCHANGED <<phase, result>>
    PROVE  OwedInv'
<1>1. UNCHANGED <<score, stage, body, sunk, gaveUp>>
  BY DEF office
<1>2. \A n : Verse(n)' = Verse(n)
  BY <1>1 DEF Verse
<1>3. \A b : FieldsOf(b)' = FieldsOf(b) /\ PlansOf(b)' = PlansOf(b) /\ Owed(b)' = Owed(b)
  BY <1>1, SameOwed
<1>4. \A b : Settled(b)' <=> Settled(b)
  BY <1>1, <1>3 DEF Settled, PaidFor
<1>5. Has("correctio")' <=> Has("correctio")
  BY <1>2 DEF Has
<1>6. \A n : Sings(n)' <=> Sings(n)
  BY <1>2 DEF Sings, Has
<1>7. Sings(stage)' <=> Sings(stage)
  BY <1>1, <1>2 DEF Sings, Has
<1>8. FieldsOf(Bodies[body])' = FieldsOf(Bodies[body]) /\ PlansOf(Bodies[body])' = PlansOf(Bodies[body])
  BY <1>1, <1>2 DEF PlansOf, FieldsOf, MeaningsOf, Has
<1> QED BY <1>1, <1>4, <1>5, <1>7, <1>8 DEF OwedInv

\* Without a correctio nothing is owed.
LEMMA NothingOwed == ~Has("correctio") => \A b : Owed(b) = {}
<1> SUFFICES ASSUME ~Has("correctio") PROVE \A b : Owed(b) = {}
  OBVIOUS
<1>1. \A b : FieldsOf(b) = {}
  BY NoMeaning DEF FieldsOf
<1>2. \A b : PlansOf(b) = {}
  BY <1>1, NoMeaning DEF PlansOf
<1> QED BY <1>2, NoMeaning DEF Owed

\* Every step of the office keeps it so, when the verses are sung as meant.
LEMMA OwedStep ==
    CInv /\ OwedInv /\ SungAsMeant /\ [CNext]_cvars => OwedInv'
<1> SUFFICES ASSUME CInv, OwedInv, SungAsMeant, [CNext]_cvars PROVE OwedInv'
  OBVIOUS
<1>1. body \in DOMAIN Bodies
  BY DEF OwedInv
<1>2. OutOfFuel.err # "none"
  BY DissonanceErr
<1>3. CASE Refuse
  <2>1. stage = "check" /\ stage' = "end" /\ UNCHANGED <<body, sunk, phase, result>>
    BY <1>3 DEF Refuse, vars, driver
  <2> QED BY <2>1 DEF OwedInv, Office
<1>4. CASE Accept
  <2>1. stage = "check" /\ concors /\ UNCHANGED <<score, body, sunk, gaveUp>>
    BY <1>4 DEF Accept
  <2>2. sunk = <<>> /\ body = 1 /\ body \in DOMAIN Bodies /\ phase = "done" /\ result = NoResult
    BY <2>1 DEF OwedInv
  <2>3. CASE Has("correctio")
    <3>1. stage' = "correctio" /\ Begin(Verse("correctio")[1], Bodies[1])
      BY <1>4, <2>3 DEF Accept
    <3>2. Sings("correctio")' /\ arg' = Bodies[1]
      BY <2>1, <2>3, <3>1, BeginSings
    <3>3. Sings(stage)'
      BY <3>1, <3>2
    <3>4. body' = 1 /\ \A b \in 1..(body' - 1) : Settled(b)'
      BY <2>1, <2>2
    <3> QED BY <2>2, <3>1, <3>2, <3>3, <3>4 DEF OwedInv
  <2>4. CASE ~Has("correctio") /\ score # <<>>
    <3>1. stage' = "lone"
      BY <1>4, <2>4 DEF Accept
    <3>2. ~Has("correctio")'
      BY <2>1, <2>4 DEF Has, Verse
    <3> QED BY <2>1, <2>2, <3>1, <3>2 DEF OwedInv, Office
  <2>5. CASE ~Has("correctio") /\ score = <<>>
    <3>1. stage' = "end" /\ UNCHANGED <<phase, result>>
      BY <1>4, <2>5 DEF Accept, vars, driver
    <3> QED BY <2>1, <2>2, <3>1 DEF OwedInv, Office
  <2> QED BY <2>3, <2>4, <2>5
<1>5. CASE SingOn
  BY <1>5, StepKeepsVerse, SameOffice DEF SingOn
<1>6. CASE AfterCorrectio
  <2> DEFINE b == Bodies[body]
             m == Means(verse.mode, verse.body, arg)
  <2>1. stage = "correctio" /\ phase = "done" /\ UNCHANGED <<score, sunk>> /\ GivesUp
    BY <1>6 DEF AfterCorrectio, Sung
  <2>2. Sings("correctio") /\ arg = b
    BY <2>1 DEF OwedInv, Office
  <2>3. result # OutOfFuel => result = m
    BY <2>1 DEF SungAsMeant
  <2>4. MeaningsOf("correctio", {b}) = IF m.err = "none" THEN {m} ELSE {}
    BY <2>2, OneMeaning
  <2> HIDE DEF b, m
  <2>5. result # OutOfFuel =>
            FieldsOf(b) = IF Cadenced /\ result.value[1].ty = "field" THEN {result.value[1]} ELSE {}
    BY <2>3, <2>4 DEF FieldsOf, Cadenced
  <2>6. CASE ~(Cadenced /\ result.value[1].ty = "field" /\ Has("consilium"))
    <3>1. NextBody
      BY <1>6, <2>6 DEF AfterCorrectio
    <3>2. result # OutOfFuel => PlansOf(b) = {}
      BY <2>5, <2>6, NoMeaning DEF PlansOf
    <3>3. result # OutOfFuel => Owed(b) = {}
      BY <3>2, NoMeaning DEF Owed
    <3> QED BY <2>1, <3>1, <3>3, NextBodyOwed DEF Office, b
  <2>7. CASE Cadenced /\ result.value[1].ty = "field" /\ Has("consilium")
    <3>1. /\ stage' = "consilium" /\ Begin(Verse("consilium")[1], result.value[1]) /\ UNCHANGED body
      BY <1>6, <2>7 DEF AfterCorrectio
    <3>2. result # OutOfFuel
      BY <1>2, <2>7 DEF Cadenced
    <3>3. FieldsOf(b) = {result.value[1]} /\ gaveUp' = gaveUp
      BY <2>1, <2>5, <2>7, <3>2 DEF GivesUp
    <3>4. Sings("consilium")' /\ arg' = result.value[1]
      BY <2>1, <2>7, <3>1, BeginSings
    <3> QED BY <2>1, <3>1, <3>3, <3>4, VerseBegins DEF Office, b
  <2> QED BY <2>6, <2>7
<1>7. CASE AfterConsilium
  <2> DEFINE b == Bodies[body]
             m == Means(verse.mode, verse.body, arg)
  <2>1. stage = "consilium" /\ phase = "done" /\ UNCHANGED <<score, sunk>> /\ GivesUp
    BY <1>7 DEF AfterConsilium, Sung
  <2>2. Sings("consilium") /\ FieldsOf(b) = {arg}
    BY <2>1 DEF OwedInv, Office
  <2>3. result # OutOfFuel => result = m
    BY <2>1 DEF SungAsMeant
  <2>4. MeaningsOf("consilium", FieldsOf(b)) = IF m.err = "none" THEN {m} ELSE {}
    BY <2>2, OneMeaning
  <2> HIDE DEF b, m
  <2>5. result # OutOfFuel => PlansOf(b) = IF Cadenced THEN {PlanV(result.plan)} ELSE {}
    BY <2>3, <2>4 DEF PlansOf, Cadenced
  <2>6. CASE ~(Cadenced /\ Has("executio"))
    <3>1. NextBody
      BY <1>7, <2>6 DEF AfterConsilium
    <3>2. result # OutOfFuel => Owed(b) = {}
      BY <2>5, <2>6, NoMeaning DEF Owed
    <3> QED BY <2>1, <3>1, <3>2, NextBodyOwed DEF Office, b
  <2>7. CASE Cadenced /\ Has("executio")
    <3>1. /\ stage' = "executio" /\ Begin(Verse("executio")[1], PlanV(result.plan)) /\ UNCHANGED body
      BY <1>7, <2>7 DEF AfterConsilium
    <3>2. result # OutOfFuel
      BY <1>2, <2>7 DEF Cadenced
    <3>3. PlansOf(b) = {PlanV(result.plan)} /\ gaveUp' = gaveUp
      BY <2>1, <2>5, <2>7, <3>2 DEF GivesUp
    <3>4. Sings("executio")' /\ arg' = PlanV(result.plan)
      BY <2>1, <2>7, <3>1, BeginSings
    <3> QED BY <2>1, <3>1, <3>3, <3>4, VerseBegins DEF Office, b
  <2> QED BY <2>6, <2>7
<1>8. CASE AfterExecutio
  <2> DEFINE b == Bodies[body]
             m == Means(verse.mode, verse.body, arg)
  <2>1. /\ stage = "executio" /\ phase = "done" /\ UNCHANGED score /\ GivesUp /\ NextBody
        /\ sunk' = IF Cadenced /\ result.committed # <<>>
                   THEN Append(sunk, [body |-> body, plan |-> result.committed[1]])
                   ELSE sunk
    BY <1>8 DEF AfterExecutio, Sung
  <2>2. Sings("executio") /\ PlansOf(b) = {arg}
    BY <2>1 DEF OwedInv, Office
  <2>3. result # OutOfFuel => result = m
    BY <2>1 DEF SungAsMeant
  <2>4. MeaningsOf("executio", PlansOf(b)) = IF m.err = "none" THEN {m} ELSE {}
    BY <2>2, OneMeaning
  <2> HIDE DEF b, m
  <2>5. result # OutOfFuel =>
            Owed(b) = IF Cadenced /\ result.committed # <<>> THEN {result.committed[1]} ELSE {}
    BY <2>3, <2>4 DEF Owed, Cadenced
  <2>6. CASE ~(Cadenced /\ result.committed # <<>>)
    BY <2>1, <2>5, <2>6, NextBodyOwed DEF Office, b
  <2>7. CASE Cadenced /\ result.committed # <<>>
    <3>1. result # OutOfFuel
      BY <1>2, <2>7 DEF Cadenced
    <3>2. Owed(b) = {result.committed[1]}
      BY <2>5, <2>7, <3>1
    <3>3. sunk' = Append(sunk, [body |-> body, plan |-> result.committed[1]])
      BY <2>1, <2>7
    <3> QED BY <2>1, <3>1, <3>2, <3>3, NextBodyOwed DEF Office, b
  <2> QED BY <2>6, <2>7
<1>9. CASE AfterLone
  <2>1. stage = "lone" /\ stage' = "end" /\ UNCHANGED <<score, body, sunk>>
    BY <1>9 DEF AfterLone, Sung
  <2>2. sunk = <<>> /\ ~Has("correctio")
    BY <2>1 DEF OwedInv
  <2>3. \A b : Owed(b)' = {}
    BY <2>1, <2>2, NothingOwed, SameOwed
  <2>4. \A b : PaidFor(b)' = {}
    BY <2>1, <2>2 DEF PaidFor
  <2>5. \A b : Settled(b)'
    BY <2>3, <2>4 DEF Settled
  <2> QED BY <1>1, <2>1, <2>5 DEF OwedInv, Office
<1>10. CASE UNCHANGED cvars
  BY <1>10, SameOffice DEF cvars, vars, driver
<1> QED
  BY <1>3, <1>4, <1>5, <1>6, <1>7, <1>8, <1>9, <1>10 DEF CNext, Proceed, Dismissed

----------------------------------------------------------------------------
(* The office runs down.                                                   *)

\* The verses still to be begun, and what one may take at most.
VersesLeft ==
    CASE stage = "check" -> 3 * Len(Bodies)
      [] stage = "correctio" -> 3 * (Len(Bodies) - body) + 2
      [] stage = "consilium" -> 3 * (Len(Bodies) - body) + 1
      [] stage = "executio" -> 3 * (Len(Bodies) - body)
      [] OTHER -> 0
VerseBudget == MAX_SLICES * (FUEL_SLICE + 2)

\* The steps the office may still take.
OfficeBudget ==
    IF stage = "end" THEN 0 ELSE 1 + VersesLeft * VerseBudget + TurnsLeft

\* The bodies are counted, the stages are the known ones, and the machine has
\* its fuel.
CountInv ==
    /\ body \in 1..Len(Bodies)
    /\ stage \in Office \cup {"check", "lone", "end"}
    /\ stage = "check" => phase = "done"
    /\ DriverInv

\* A verse that begins has less than its budget.
LEMMA BeginBudget ==
    ASSUME NEW v, NEW a, Begin(v, a)
    PROVE  TurnsLeft' < VerseBudget /\ TurnsLeft' \in Nat /\ DriverInv'
<1> DEFINE m == MAX_SLICES - 1
           n == FUEL_SLICE + 2
<1>1. m \in Nat /\ n \in Nat /\ MAX_SLICES = m + 1
  BY FuelAssumption
<1>2. control'.at = "Eval" /\ fuel' = FUEL_SLICE /\ slices' = 0 /\ phase' = "sing" /\ native' = 0
  BY DEF Begin, Eval
<1>3. TurnsLeft' = m * n + (FUEL_SLICE + 1)
  <2>1. MAX_SLICES - 0 - 1 = m
    BY FuelAssumption
  <2> QED BY <1>2, <2>1 DEF TurnsLeft
<1>4. VerseBudget = (m + 1) * n
  BY <1>1 DEF VerseBudget
<1>5. n = FUEL_SLICE + 2
  OBVIOUS
<1> HIDE DEF m, n
<1>6. m * n \in Nat /\ (m + 1) * n = m * n + n
  BY <1>1, Product
<1>7. DriverInv'
  BY <1>2, FuelAssumption DEF DriverInv
<1> QED BY <1>3, <1>4, <1>5, <1>6, <1>7, FuelAssumption

LEMMA BudgetIsNat == VerseBudget \in Nat /\ Len(Bodies) \in Nat /\ Len(Bodies) >= 1
<1>1. MAX_SLICES \in Nat /\ FUEL_SLICE + 2 \in Nat
  BY FuelAssumption
<1>2. VerseBudget \in Nat
  BY <1>1, Product DEF VerseBudget
<1> QED BY <1>2, BodiesAssumption

\* A verse of the office begins, and fewer are left.
LEMMA FewerVerses ==
    ASSUME NEW m \in Nat, NEW n \in Nat, NEW s \in Nat, NEW t \in Nat,
           n < m, t < VerseBudget
    PROVE  1 + n * VerseBudget + t < 1 + m * VerseBudget + s
<1> DEFINE d == m - (n + 1)
<1>1. d \in Nat /\ m = (n + 1) + d
  OBVIOUS
<1>2. VerseBudget \in Nat
  BY BudgetIsNat
<1> HIDE DEF d
<1>3. \A v \in Nat : ((n + 1) + d) * v = n * v + v + d * v /\ d * v \in Nat /\ n * v \in Nat
  BY <1>1
<1>4. m * VerseBudget = n * VerseBudget + VerseBudget + d * VerseBudget
      /\ d * VerseBudget \in Nat /\ n * VerseBudget \in Nat
  BY <1>1, <1>2, <1>3
<1> QED BY <1>2, <1>4

LEMMA MoreTurns ==
    \A left, s, t \in Nat : /\ s < t => 1 + left + s < 1 + left + t
                            /\ s <= t => 1 + left + s <= 1 + left + t
OBVIOUS

LEMMA VersesLeftNat == CountInv => VersesLeft \in Nat
BY BudgetIsNat DEF CountInv, VersesLeft, Office

LEMMA CountInit == CInit => CountInv
<1> SUFFICES ASSUME CInit PROVE CountInv
  OBVIOUS
<1>1. DriverInv
  BY CInitInv DEF CInv, SingInv, IInv
<1> QED BY <1>1, BudgetIsNat DEF CInit, CountInv

\* The office begins a verse: fewer are left.
LEMMA BeginsLess ==
    ASSUME CountInv, NEW v, NEW a, Begin(v, a), stage # "end", stage' # "end",
           stage' \in Office \cup {"lone"}, body' \in 1..Len(Bodies),
           VersesLeft' < VersesLeft
    PROVE  CountInv' /\ OfficeBudget' < OfficeBudget
<1>1. TurnsLeft' < VerseBudget /\ TurnsLeft' \in Nat /\ DriverInv'
  BY BeginBudget
<1>2. CountInv'
  BY <1>1 DEF CountInv, Office
<1>3. VersesLeft \in Nat /\ TurnsLeft \in Nat
  BY VersesLeftNat, TurnsAreCounted DEF CountInv
<1>4. VersesLeft' \in Nat
  BY <1>2, BudgetIsNat DEF CountInv, VersesLeft, Office
<1>5. 1 + VersesLeft' * VerseBudget + TurnsLeft' < 1 + VersesLeft * VerseBudget + TurnsLeft
  BY <1>1, <1>3, <1>4, FewerVerses
<1> QED BY <1>2, <1>5 DEF OfficeBudget

\* The office ends: nothing is left.
LEMMA EndsLess ==
    ASSUME CountInv, stage # "end", stage' = "end", UNCHANGED <<vars, body>>
    PROVE  CountInv' /\ OfficeBudget' < OfficeBudget
<1>1. UNCHANGED <<control, fuel, slices, phase, native>>
  BY DEF vars, driver, machine
<1>2. CountInv'
  BY <1>1 DEF CountInv, DriverInv
<1>3. VersesLeft \in Nat /\ TurnsLeft \in Nat /\ VerseBudget \in Nat
  BY VersesLeftNat, TurnsAreCounted, BudgetIsNat DEF CountInv
<1>4. VersesLeft * VerseBudget \in Nat
  BY <1>3, Product
<1>5. OfficeBudget' = 0 /\ OfficeBudget = 1 + VersesLeft * VerseBudget + TurnsLeft
  BY DEF OfficeBudget
<1> QED BY <1>2, <1>3, <1>4, <1>5

LEMMA NextBodyLess ==
    ASSUME CountInv, stage \in Office, NextBody
    PROVE  CountInv' /\ OfficeBudget' < OfficeBudget
<1>1. CASE stage' = "end" /\ UNCHANGED <<vars, body>>
  BY <1>1, EndsLess DEF Office
<1>2. CASE /\ body # Len(Bodies) /\ stage' = "correctio" /\ body' = body + 1
           /\ Begin(Verse("correctio")[1], Bodies[body + 1])
  <2>1. body' \in 1..Len(Bodies) /\ VersesLeft' < VersesLeft
    BY <1>2, BudgetIsNat DEF CountInv, VersesLeft, Office
  <2> QED BY <1>2, <2>1, BeginsLess DEF Office
<1> QED BY <1>1, <1>2 DEF NextBody

\* Every step of the office lowers its budget, but for the calls of apply.
LEMMA BudgetStep ==
    CountInv /\ CNext =>
        /\ CountInv'
        /\ UNCHANGED cvars \/ IF ApplyStep THEN OfficeBudget' <= OfficeBudget
                                           ELSE OfficeBudget' < OfficeBudget
<1> SUFFICES ASSUME CountInv, CNext
             PROVE  /\ CountInv'
                    /\ UNCHANGED cvars \/ IF ApplyStep THEN OfficeBudget' <= OfficeBudget
                                                       ELSE OfficeBudget' < OfficeBudget
  OBVIOUS
<1>1. SUFFICES \/ CountInv' /\ ~ApplyStep /\ OfficeBudget' < OfficeBudget
               \/ CountInv' /\ UNCHANGED cvars
               \/ CountInv' /\ ApplyStep /\ OfficeBudget' <= OfficeBudget
  BY <1>1
<1>0. phase = "done" => ~ApplyStep
  BY DEF ApplyStep, ApplyClosure, ApplyBuiltin, ApplyOther, CallsApply
<1>2. CASE Refuse
  <2>1. stage = "check" /\ phase = "done"
    BY <1>2 DEF Refuse, CountInv
  <2>2. CountInv' /\ OfficeBudget' < OfficeBudget
    BY <1>2, EndsLess DEF Refuse
  <2> QED BY <1>0, <2>1, <2>2
<1>3. CASE Accept
  <2>1. stage = "check" /\ UNCHANGED body /\ phase = "done"
    BY <1>3 DEF Accept, CountInv
  <2>2. CASE stage' = "end" /\ UNCHANGED vars
    <3>1. CountInv' /\ OfficeBudget' < OfficeBudget
      BY <2>1, <2>2, EndsLess
    <3> QED BY <1>0, <2>1, <3>1
  <2>3. CASE \E v, a : Begin(v, a) /\ stage' \in {"correctio", "lone"}
    <3>1. VersesLeft' < VersesLeft /\ body' \in 1..Len(Bodies)
      BY <2>1, <2>3, BudgetIsNat DEF VersesLeft, CountInv
    <3>2. PICK v, a : Begin(v, a) /\ stage' \in {"correctio", "lone"}
      BY <2>3
    <3>3. CountInv' /\ OfficeBudget' < OfficeBudget
      BY <2>1, <3>1, <3>2, BeginsLess DEF Office
    <3> QED BY <1>0, <2>1, <3>3
  <2> QED BY <1>3, <2>2, <2>3 DEF Accept
<1>4. CASE SingOn
  <2>1. stage \notin {"check", "end"} /\ Step /\ UNCHANGED <<stage, body>>
    BY <1>4 DEF SingOn, office
  <2>2. TurnsLeft \in Nat /\ IF ApplyStep THEN TurnsLeft' <= TurnsLeft ELSE TurnsLeft' < TurnsLeft
    BY <2>1, TurnsAreCounted, TurnsRunDown DEF CountInv
  <2>3. DriverInv'
    BY <2>1, DriverStep DEF CountInv, Next
  <2>4. CountInv'
    BY <2>1, <2>3 DEF CountInv
  <2>5. VersesLeft' = VersesLeft /\ VersesLeft \in Nat /\ VerseBudget \in Nat
    BY <2>1, VersesLeftNat, BudgetIsNat DEF VersesLeft
  <2>6. VersesLeft * VerseBudget \in Nat
    BY <2>5, Product
  <2>7. TurnsLeft' \in Nat
    <3>1. (DriverInv => TurnsLeft \in Nat)'
      BY TurnsAreCounted, PTL
    <3> QED BY <2>3, <3>1
  <2>8. PICK left \in Nat : OfficeBudget = 1 + left + TurnsLeft /\ OfficeBudget' = 1 + left + TurnsLeft'
    BY <2>1, <2>5, <2>6 DEF OfficeBudget
  <2>9. CASE ApplyStep
    <3>1. TurnsLeft \in Nat /\ TurnsLeft' <= TurnsLeft
      BY <2>2, <2>9
    <3>2. OfficeBudget' <= OfficeBudget
      BY <2>7, <2>8, <3>1, MoreTurns
    <3> QED BY <2>4, <2>9, <3>2
  <2>10. CASE ~ApplyStep
    <3>1. TurnsLeft \in Nat /\ TurnsLeft' < TurnsLeft
      BY <2>2, <2>10
    <3>2. OfficeBudget' < OfficeBudget
      BY <2>7, <2>8, <3>1, MoreTurns
    <3> QED BY <2>4, <2>10, <3>2
  <2> QED BY <2>9, <2>10
<1>5. CASE AfterCorrectio
  <2>1. stage = "correctio" /\ phase = "done"
    BY <1>5 DEF AfterCorrectio, Sung
  <2>2. CASE NextBody
    <3>1. CountInv' /\ OfficeBudget' < OfficeBudget
      BY <2>1, <2>2, NextBodyLess DEF Office
    <3> QED BY <1>0, <2>1, <3>1
  <2>3. CASE ~NextBody
    <3>1. stage' = "consilium" /\ Begin(Verse("consilium")[1], result.value[1]) /\ UNCHANGED body
      BY <1>5, <2>3 DEF AfterCorrectio
    <3>2. VersesLeft' < VersesLeft /\ body' \in 1..Len(Bodies)
      BY <2>1, <3>1, BudgetIsNat DEF VersesLeft, CountInv
    <3>3. CountInv' /\ OfficeBudget' < OfficeBudget
      BY <2>1, <3>1, <3>2, BeginsLess DEF Office
    <3> QED BY <1>0, <2>1, <3>3
  <2> QED BY <2>2, <2>3
<1>6. CASE AfterConsilium
  <2>1. stage = "consilium" /\ phase = "done"
    BY <1>6 DEF AfterConsilium, Sung
  <2>2. CASE NextBody
    <3>1. CountInv' /\ OfficeBudget' < OfficeBudget
      BY <2>1, <2>2, NextBodyLess DEF Office
    <3> QED BY <1>0, <2>1, <3>1
  <2>3. CASE ~NextBody
    <3>1. stage' = "executio" /\ Begin(Verse("executio")[1], PlanV(result.plan)) /\ UNCHANGED body
      BY <1>6, <2>3 DEF AfterConsilium
    <3>2. VersesLeft' < VersesLeft /\ body' \in 1..Len(Bodies)
      BY <2>1, <3>1, BudgetIsNat DEF VersesLeft, CountInv
    <3>3. CountInv' /\ OfficeBudget' < OfficeBudget
      BY <2>1, <3>1, <3>2, BeginsLess DEF Office
    <3> QED BY <1>0, <2>1, <3>3
  <2> QED BY <2>2, <2>3
<1>7. CASE AfterExecutio
  <2>1. stage = "executio" /\ phase = "done" /\ NextBody
    BY <1>7 DEF AfterExecutio, Sung
  <2>2. CountInv' /\ OfficeBudget' < OfficeBudget
    BY <2>1, NextBodyLess DEF Office
  <2> QED BY <1>0, <2>1, <2>2
<1>8. CASE AfterLone
  <2>1. stage = "lone" /\ phase = "done"
    BY <1>8 DEF AfterLone, Sung
  <2>2. CountInv' /\ OfficeBudget' < OfficeBudget
    BY <1>8, <2>1, EndsLess DEF AfterLone
  <2> QED BY <1>0, <2>1, <2>2
<1>9. CASE Dismissed
  <2>1. UNCHANGED <<stage, body, control, fuel, slices, phase, native>> /\ UNCHANGED cvars
    BY <1>9 DEF Dismissed, cvars, office, vars, driver, machine
  <2>2. CountInv'
    BY <2>1 DEF CountInv, DriverInv
  <2> QED BY <2>1, <2>2
<1> QED
  BY <1>2, <1>3, <1>4, <1>5, <1>6, <1>7, <1>8, <1>9 DEF CNext, Proceed

----------------------------------------------------------------------------
(* The theorems.                                                           *)

\* The machine is in its invariant whichever verse of the office it sings,
\* and the office in its own, for every score, procession and environment.
THEOREM OfficeInvariant == CSpec => []CInv
BY CInitInv, CInvStep, PTL DEF CSpec

\* Nothing leaves but through the commit of an executio: for every score,
\* whatever its verses do, what the driver hands to gravity_sink is a
\* non-empty plan of a Mixolydian verse, at most one per body and in order,
\* and none of a body one of whose verses ran out of fuel.
THEOREM OnlyConsecratedPlansAreSunk == CSpec => []SinkIsConsecrated
<1>1. CInv => SinkIsConsecrated
  BY DEF CInv, OfficeInv
<1> QED BY OfficeInvariant, <1>1, PTL

\* In the end the sink has received, body by body, exactly the plan executio
\* commits to when it is sung to the plan of consilium and that to the field
\* of correctio; of a body one of whose verses ran out of fuel, nothing; and
\* before the end nothing leaves unconsecrated.  For every score, procession
\* and amount of fuel, of a machine that sings each verse as it is meant.
THEOREM SinkReceivesWhatIsOwed == CSpec /\ []SungAsMeant => []SinkIsOwed
<1>1. OwedInv /\ SinkIsConsecrated => SinkIsOwed
  BY DEF OwedInv, SinkIsOwed
<1>2. CSpec /\ []SungAsMeant => []OwedInv
  BY OfficeInvariant, OwedInit, OwedStep, PTL DEF CSpec
<1> QED BY <1>1, <1>2, OnlyConsecratedPlansAreSunk, PTL

\* The office ends, whatever its verses do: it has a budget of steps, a number
\* that each of its steps and of the machine's lowers, but for the calls of
\* apply within a turn, which never raise it.  It starts with three verses
\* for each body, each with the fuel of all its slices.
THEOREM OfficeRunsDown ==
    CSpec => /\ [](OfficeBudget \in Nat)
             /\ [][IF ApplyStep THEN OfficeBudget' <= OfficeBudget
                                ELSE OfficeBudget' < OfficeBudget]_cvars
<1> DEFINE A == IF ApplyStep THEN OfficeBudget' <= OfficeBudget ELSE OfficeBudget' < OfficeBudget
<1>1. CountInv /\ [CNext]_cvars => CountInv' /\ [A]_cvars
  <2> SUFFICES ASSUME CountInv, [CNext]_cvars PROVE CountInv' /\ [A]_cvars
    OBVIOUS
  <2>1. CASE CNext
    BY <2>1, BudgetStep
  <2>2. CASE UNCHANGED cvars
    <3>1. UNCHANGED <<stage, body, control, fuel, slices, phase, native>>
      BY <2>2 DEF cvars, office, vars, driver, machine
    <3>2. CountInv'
      BY <3>1 DEF CountInv, DriverInv
    <3> QED BY <2>2, <3>2
  <2> QED BY <2>1, <2>2
<1>2. CountInv => OfficeBudget \in Nat
  <2> SUFFICES ASSUME CountInv PROVE OfficeBudget \in Nat
    OBVIOUS
  <2>1. VersesLeft \in Nat /\ TurnsLeft \in Nat /\ VerseBudget \in Nat
    BY VersesLeftNat, TurnsAreCounted, BudgetIsNat DEF CountInv
  <2>2. VersesLeft * VerseBudget \in Nat
    BY <2>1, Product
  <2> QED BY <2>1, <2>2 DEF OfficeBudget
<1> HIDE DEF A
<1>3. CSpec => [](OfficeBudget \in Nat) /\ [][A]_cvars
  BY CountInit, <1>1, <1>2, PTL DEF CSpec
<1> QED BY <1>3 DEF A

=============================================================================
