-------------------------- MODULE InstrumentsProofs -------------------------
(***************************************************************************)
(* Proofs about Instruments for every keyboard, queue size, number of      *)
(* voices, command table and set of scores.                                *)
(***************************************************************************)
EXTENDS Instruments, FiniteSetTheorems, WellFoundedInduction, TLAPS

----------------------------------------------------------------------------
(* The inductive invariant.                                                *)

\* Who may sound: nothing between commands, the speaker alone in the piano, a
\* beep and play <notes>, the synth alone in the organ and a score, and in
\* transcribe whichever of the two the shell has.  A phrase is followed in an
\* instrument only.
SourceInv ==
    /\ SilentPrompt
    /\ mode \in {"piano", "beep", "note"} => voices = Silent
    /\ mode \in {"organ", "strike", "sleep", "release"} => tone = NoNote
    /\ mode = "transcribe" => IF available THEN tone = NoNote ELSE voices = Silent
    /\ mode \notin Instrument => pressed = {}

\* The release of a key is still to come: the key is down, or its release is
\* behind the first n events of the queue, or the queue dropped it.
Releasable(k, n) ==
    \/ k \in held \cup lost
    \/ \E j \in DOMAIN queue : j > n /\ queue[j] = Up(k)

\* What the instrument saw go down, and what it will see go down, has its
\* release to come.
FingerInv ==
    /\ \A k \in pressed : Releasable(k, 0)
    /\ \A i \in Pending : Releasable(queue[i].key, i)

IInv == TypeOK /\ SourceInv /\ SoundFollowsKeys /\ FingerInv

----------------------------------------------------------------------------
(* The manual and the voices.                                              *)

\* Every key of the manual is a letter, with a note of its own.
LEMMA ManualKeys ==
    DOMAIN KeyMidi = {"z", "x", "c", "v", "b", "n", "m", "a", "w", "s", "e", "d", "f", "t",
                      "g", "y", "h", "u", "j", "k", "o", "l", "p"}
BY DEF KeyMidi

LEMMA ManualNotes == \A k \in DOMAIN KeyMidi : KeyMidi[k] \in 48..75
BY DEF KeyMidi

LEMMA ManualIsInjective == \A k, l \in DOMAIN KeyMidi : KeyMidi[k] = KeyMidi[l] => k = l
BY DEF KeyMidi

\* What the proofs below use of the manual.
LEMMA LetterFacts ==
    /\ \A k \in Letters : k \in Keys /\ KeyMidi[k] \in Nat \ {NoNote}
    /\ \A k, l \in Letters : KeyMidi[k] = KeyMidi[l] => k = l
    /\ Letters \cap {NoKey, "esc", "ret", "bsp"} = {}
<1>1. \A k \in Letters : k \in Keys /\ KeyMidi[k] \in Nat \ {NoNote}
  BY ManualNotes DEF Letters, NoNote
<1>2. \A k, l \in Letters : KeyMidi[k] = KeyMidi[l] => k = l
  BY ManualIsInjective DEF Letters
<1>3. Letters \cap {NoKey, "esc", "ret", "bsp"} = {}
  BY ManualKeys DEF Letters, NoKey
<1> QED
  BY <1>1, <1>2, <1>3

\* A set of numbers has a least one.
LEMMA LeastNumber ==
    ASSUME NEW T, T \subseteq Nat, T # {}
    PROVE  \E x \in T : \A y \in T : x <= y
<1> DEFINE R == {ss \in Nat \X Nat : ss[1] < ss[2]}
<1>1. OpToRel(<, Nat) = R
  BY DEF OpToRel
<1>2. IsWellFoundedOn(R, Nat)
  BY <1>1, NatLessThanWellFounded
<1>3. PICK x \in T : \A y \in T : ~(<<y, x>> \in R)
  <2> HIDE DEF R
  <2> QED
    BY <1>2, WFMin
<1>4. \A y \in T : <<y, x>> \in Nat \X Nat /\ <<y, x>>[1] = y /\ <<y, x>>[2] = x
  OBVIOUS
<1>5. \A y \in T : ~(y < x)
  BY <1>3, <1>4
<1> HIDE DEF R
<1> QED
  BY <1>5

\* The search of note_on finds a free voice when there is one.
LEMMA FreeVoice ==
    ASSUME NEW v \in [Slot -> Nat], \E i \in Slot : v[i] = NoNote
    PROVE  FirstFree(v) \in Slot /\ v[FirstFree(v)] = NoNote
<1> DEFINE T == {i \in Slot : v[i] = NoNote}
<1>1. T \subseteq Nat /\ T # {}
  BY InstrumentsAssumption DEF Slot
<1>2. PICK f \in T : \A i \in T : f <= i
  BY <1>1, LeastNumber
<1>3. f \in Slot /\ v[f] = NoNote /\ \A j \in 1..(f - 1) : v[j] # NoNote
  BY <1>2, InstrumentsAssumption DEF Slot
<1> QED
  BY <1>3 DEF FirstFree

\* note_on gives the note a free voice, or changes nothing: then it sounds
\* already, or there is no card or no voice for it.
LEMMA NoteOnEffect ==
    ASSUME NEW v \in [Slot -> Nat], NEW p \in Nat
    PROVE  /\ NoteOn(v, p) \in [Slot -> Nat]
           /\ \/ NoteOn(v, p) = v
              \/ /\ p \notin {v[i] : i \in Slot}
                 /\ \E f \in Slot :
                       /\ v[f] = NoNote /\ NoteOn(v, p)[f] = p
                       /\ \A i \in Slot \ {f} : NoteOn(v, p)[i] = v[i]
<1>1. CASE available /\ p \notin {v[i] : i \in Slot} /\ \E i \in Slot : v[i] = NoNote
  <2>1. PICK f \in Slot : f = FirstFree(v) /\ v[f] = NoNote
    BY <1>1, FreeVoice
  <2>2. NoteOn(v, p) = [v EXCEPT ![f] = p]
    BY <1>1, <2>1 DEF NoteOn
  <2> QED
    BY <1>1, <2>1, <2>2
<1>2. CASE ~(available /\ p \notin {v[i] : i \in Slot} /\ \E i \in Slot : v[i] = NoNote)
  BY <1>2 DEF NoteOn
<1> QED
  BY <1>1, <1>2

----------------------------------------------------------------------------
(* Types.                                                                  *)

LEMMA EmptyLines == <<>> \in Seq(Letters) /\ <<>> \in Seq(Nat) /\ <<>> \in Seq(Note)
OBVIOUS

\* What the interrupt does to the queue, and the shell's reading of it.
LEMMA PushType ==
    ASSUME TypeOK, NEW ev \in Event, Push(ev)
    PROVE  queue' \in Seq(Event) /\ lost' \subseteq Letters
<1>1. queue' \in {queue, Append(queue, ev)}
  BY DEF Push
<1>2. ev.key \in Letters \/ lost' = lost
  BY DEF Push
<1>3. lost' \in {lost, lost \ {ev.key}, lost \cup {ev.key}}
  BY DEF Push
<1>4. queue \in Seq(Event) /\ lost \subseteq Letters
  BY DEF TypeOK
<1>5. queue' \in Seq(Event)
  BY <1>1, <1>4
<1>6. lost' \subseteq Letters
  BY <1>2, <1>3, <1>4
<1> QED
  BY <1>5, <1>6

LEMMA PopType ==
    ASSUME TypeOK, NEW ev \in Event, Pop(ev)
    PROVE  queue' \in Seq(Event) /\ held' \subseteq Letters /\ lost' \subseteq Letters
BY DEF Pop, TypeOK

LEMMA EditedType ==
    ASSUME NEW l \in Seq(Letters), NEW ev \in Event
    PROVE  Edited(l, ev) \in Seq(Letters)
<1>1. CASE ev.down /\ ev.key \in Letters
  BY <1>1 DEF Edited
<1>2. CASE ~(ev.down /\ ev.key \in Letters) /\ ev.down /\ ev.key = "bsp" /\ l # <<>>
  <2>1. Edited(l, ev) = SubSeq(l, 1, Len(l) - 1)
    BY <1>2 DEF Edited
  <2> QED
    BY <2>1, <1>2
<1>3. CASE ~(ev.down /\ ev.key \in Letters) /\ ~(ev.down /\ ev.key = "bsp" /\ l # <<>>)
  BY <1>3 DEF Edited
<1> QED
  BY <1>1, <1>2, <1>3

LEMMA CelebrateType ==
    ASSUME TypeOK, Celebrate
    PROVE  /\ mode' \in {"prompt", "strike"}
           /\ line' \in Seq(Letters) /\ draft' \in Seq(Letters) /\ available' \in BOOLEAN
           /\ score' \in Seq(Note) /\ tick' \in Nat /\ cursor' \in Nat \ {0}
<1>1. CASE Back /\ UNCHANGED walk
  BY <1>1, EmptyLines DEF Celebrate, Back, walk, TypeOK
<1>2. CASE \E s \in Scores : mode' = "strike" /\ score' = s /\ tick' = 0 /\ cursor' = 1 /\ UNCHANGED line
  <2>1. score' \in Seq(Note)
    BY <1>2, InstrumentsAssumption
  <2> QED
    BY <1>2, <2>1 DEF Celebrate, TypeOK
<1> QED
  BY <1>1, <1>2 DEF Celebrate

LEMMA FollowType ==
    ASSUME TypeOK, NEW ev \in Event, Follow(ev)
    PROVE  pressed' \subseteq Letters /\ crowded' \in BOOLEAN
BY DEF Follow, TypeOK

LEMMA NextTokenType ==
    ASSUME TypeOK, NextToken,
           queue' \in Seq(Event), held' \subseteq Letters, lost' \subseteq Letters
    PROVE  TypeOK'
<1>1. mode' \in {"note", "prompt"}
  BY DEF NextToken, Back
<1>2. tone' \in Nat
  <2>1. tone' = tone \/ \E k \in Letters : tone' = KeyMidi[k]
    BY DEF NextToken
  <2> QED
    BY <2>1, LetterFacts DEF TypeOK
<1>3. line' \in Seq(Letters)
  BY EmptyLines DEF NextToken, Back, TypeOK
<1> QED
  BY <1>1, <1>2, <1>3 DEF NextToken, TypeOK, playing, walk, ghost

LEMMA ExecuteType ==
    ASSUME TypeOK, NEW command, Execute(command), NEW ev \in Event, Pop(ev)
    PROVE  TypeOK'
<1>1. queue' \in Seq(Event) /\ held' \subseteq Letters /\ lost' \subseteq Letters
  BY PopType
<1> USE <1>1 DEF TypeOK, sound, playing, walk, ghost
<1>2. CASE \E i \in Instrument : TakeUp(i)
  <2>1. mode' \in Instrument
    BY <1>2 DEF TakeUp
  <2>2. crowded' \in BOOLEAN
    BY <1>2 DEF TakeUp
  <2>3. /\ sounding' = NoKey /\ played' = <<>> /\ pressed' = {}
        /\ UNCHANGED <<line, draft, available, sound, walk>>
    BY <1>2 DEF TakeUp
  <2> QED
    BY <2>1, <2>2, <2>3, EmptyLines
<1>3. CASE Back /\ UNCHANGED <<draft, available, sound, playing, walk, ghost>>
  BY <1>3 DEF Back
<1>4. CASE mode' = "score" /\ draft' = <<>>
             /\ UNCHANGED <<line, available, sound, playing, walk, ghost>>
  BY <1>4
<1>5. CASE Celebrate /\ UNCHANGED <<sound, playing, ghost>>
  <2> HIDE DEF walk
  <2> QED
    BY <1>5, CelebrateType
<1>6. CASE /\ mode' = "beep" /\ tone' \in {KeyMidi[k] : k \in Letters}
           /\ UNCHANGED <<line, draft, available, voices, playing, walk, ghost>>
  BY <1>6, LetterFacts
<1>7. CASE NextToken
  BY <1>7, NextTokenType
<1> QED
  BY <1>2, <1>3, <1>4, <1>5, <1>6, <1>7 DEF Execute, Instrument

LEMMA TypeNext == TypeOK /\ [Next]_vars => TypeOK'
<1> SUFFICES ASSUME TypeOK, [Next]_vars PROVE TypeOK'
  OBVIOUS
<1>1. ASSUME NEW k \in Keys, Press(k) \/ Release(k) PROVE TypeOK'
  <2>1. Down(k) \in Event /\ Up(k) \in Event
    BY DEF Down, Up, Event
  <2>2. queue' \in Seq(Event) /\ lost' \subseteq Letters
    BY <1>1, <2>1, PushType DEF Press, Release
  <2> QED
    BY <1>1, <2>2 DEF Press, Release, TypeOK, shell, sound, playing, walk, ghost
<1>2. CASE PromptKey
  <2>1. PICK ev \in Event : Pop(ev) /\
          \/ Execute(IF line \in DOMAIN Commands THEN Commands[line] ELSE "other")
          \/ line' = Edited(line, ev)
               /\ UNCHANGED <<mode, draft, available, sound, playing, walk, ghost>>
    BY <1>2 DEF PromptKey
  <2>2. CASE Execute(IF line \in DOMAIN Commands THEN Commands[line] ELSE "other")
    BY <2>1, <2>2, ExecuteType
  <2>3. CASE line' = Edited(line, ev)
               /\ UNCHANGED <<mode, draft, available, sound, playing, walk, ghost>>
    <3>1. line' \in Seq(Letters)
      BY <2>3, EditedType DEF TypeOK
    <3> QED
      BY <2>1, <2>3, <3>1, PopType DEF TypeOK, sound, playing, walk, ghost
  <2> QED
    BY <2>1, <2>2, <2>3
<1>3. CASE ScoreKey
  <2>1. PICK ev \in Event : Pop(ev) /\
          \/ Celebrate
          \/ draft' = <<>> /\ UNCHANGED <<mode, line, available, walk>>
          \/ draft' = Edited(draft, ev) /\ UNCHANGED <<mode, line, available, walk>>
    BY <1>3 DEF ScoreKey
  <2>2. Edited(draft, ev) \in Seq(Letters)
    BY EditedType DEF TypeOK
  <2>3. CASE Celebrate
    BY <1>3, <2>1, <2>3, PopType, CelebrateType DEF ScoreKey, TypeOK, sound, playing, ghost
  <2>4. CASE draft' \in Seq(Letters) /\ UNCHANGED <<mode, line, available, walk>>
    BY <1>3, <2>1, <2>4, PopType DEF ScoreKey, TypeOK, sound, playing, walk, ghost
  <2> QED
    BY <2>1, <2>2, <2>3, <2>4, EmptyLines
<1>4. CASE PianoKey
  <2>1. PICK ev \in Event : /\ Pop(ev) /\ Follow(ev)
                            /\ PianoDown(ev) \/ PianoUp(ev)
                            /\ UNCHANGED <<draft, available, voices, played, walk>>
    BY <1>4 DEF PianoKey
  <2>2. /\ mode' \in {mode, "prompt"} /\ line' \in Seq(Letters) /\ tone' \in Nat
        /\ sounding' \in Letters \cup {NoKey}
    <3>1. mode' \in {mode, "prompt"}
      BY <2>1 DEF PianoDown, PianoUp, Back
    <3>2. line' \in Seq(Letters)
      BY <2>1, EmptyLines DEF PianoDown, PianoUp, Back, TypeOK
    <3>3. tone' \in Nat /\ sounding' \in Letters \cup {NoKey}
      BY <2>1, LetterFacts DEF PianoDown, PianoUp, TypeOK, NoNote
    <3> QED
      BY <3>1, <3>2, <3>3
  <2> QED
    BY <2>1, <2>2, PopType, FollowType DEF TypeOK, walk
<1>5. CASE OrganKey
  <2>1. PICK ev \in Event :
          /\ Pop(ev) /\ Follow(ev)
          /\ \/ ev = Down("esc") /\ voices' = Silent /\ Back
             \/ ev.key \in Letters /\ UNCHANGED <<mode, line>>
                  /\ voices' = IF ev.down THEN NoteOn(voices, KeyMidi[ev.key])
                               ELSE NoteOff(voices, KeyMidi[ev.key])
             \/ ev.key \notin Letters /\ ev # Down("esc") /\ UNCHANGED <<mode, line, voices>>
          /\ UNCHANGED <<draft, available, tone, playing, walk>>
    BY <1>5 DEF OrganKey
  <2>2. /\ Silent \in [Slot -> Nat]
        /\ ev.key \in Letters => /\ NoteOn(voices, KeyMidi[ev.key]) \in [Slot -> Nat]
                                 /\ NoteOff(voices, KeyMidi[ev.key]) \in [Slot -> Nat]
    BY LetterFacts, NoteOnEffect DEF Silent, NoteOff, NoNote, TypeOK
  <2>3. mode' \in {mode, "prompt"} /\ line' \in Seq(Letters) /\ voices' \in [Slot -> Nat]
    <3>1. mode' \in {mode, "prompt"}
      BY <2>1 DEF Back
    <3>2. line' \in Seq(Letters)
      BY <2>1, EmptyLines DEF Back, TypeOK
    <3>3. voices' \in [Slot -> Nat]
      <4> HIDE DEF Silent
      <4> QED
        BY <2>1, <2>2 DEF TypeOK
    <3> QED
      BY <3>1, <3>2, <3>3
  <2> QED
    BY <2>1, <2>3, PopType, FollowType DEF TypeOK, playing, walk
<1>6. CASE TranscribeKey
  <2>1. PICK ev \in Event :
          /\ Pop(ev) /\ Follow(ev) /\ UNCHANGED sounding
          /\ \/ Quiet /\ Back /\ played' = <<>> /\ UNCHANGED <<draft, available, walk>>
             \/ Quiet /\ Celebrate /\ played' = <<>>
             \/ (TranscribeDown(ev) \/ TranscribeUp(ev)) /\ UNCHANGED <<draft, available>>
             \/ UNCHANGED <<shell, sound, played, walk>>
    BY <1>6 DEF TranscribeKey
  <2>2. /\ Silent \in [Slot -> Nat]
        /\ ev.key \in Letters => /\ NoteOn(voices, KeyMidi[ev.key]) \in [Slot -> Nat]
                                 /\ NoteOff(voices, KeyMidi[ev.key]) \in [Slot -> Nat]
    BY LetterFacts, NoteOnEffect DEF Silent, NoteOff, NoNote, TypeOK
  <2>3. Quiet => tone' \in Nat /\ voices' \in [Slot -> Nat]
    BY <2>2 DEF Quiet, TypeOK, NoNote
  <2>4. CASE Quiet /\ Back /\ played' = <<>> /\ UNCHANGED <<draft, available, walk>>
    BY <2>1, <2>3, <2>4, PopType, FollowType DEF Back, TypeOK, walk
  <2>5. CASE Quiet /\ Celebrate /\ played' = <<>>
    BY <2>1, <2>3, <2>5, PopType, FollowType, CelebrateType DEF TypeOK
  <2>6. CASE (TranscribeDown(ev) \/ TranscribeUp(ev)) /\ UNCHANGED <<draft, available>>
    <3>1. ev.key \in Letters /\ KeyMidi[ev.key] \in Nat
      BY <2>6, LetterFacts DEF TranscribeDown, TranscribeUp
    <3>2. tone' \in Nat /\ voices' \in [Slot -> Nat] /\ played' \in Seq(Nat)
      <4>1. tone' \in {tone, NoNote, KeyMidi[ev.key]}
        BY <2>6 DEF TranscribeDown, TranscribeUp
      <4>2. voices' \in {voices, NoteOn(voices, KeyMidi[ev.key]), NoteOff(voices, KeyMidi[ev.key])}
        BY <2>6 DEF TranscribeDown, TranscribeUp
      <4>3. played' \in {played, Append(played, KeyMidi[ev.key])}
        BY <2>6 DEF TranscribeDown, TranscribeUp
      <4>4. tone' \in Nat
        BY <3>1, <4>1 DEF TypeOK, NoNote
      <4>5. voices' \in [Slot -> Nat]
        BY <2>2, <3>1, <4>2 DEF TypeOK
      <4>6. played' \in Seq(Nat)
        <5>1. played \in Seq(Nat)
          BY DEF TypeOK
        <5>2. Append(played, KeyMidi[ev.key]) \in Seq(Nat)
          BY <5>1, <3>1
        <5> QED
          BY <4>3, <5>1, <5>2
      <4> QED
        BY <4>4, <4>5, <4>6
    <3> QED
      BY <2>1, <2>6, <3>2, PopType, FollowType DEF TranscribeDown, TranscribeUp, TypeOK, walk
  <2>7. CASE UNCHANGED <<shell, sound, played, walk>>
    BY <2>1, <2>7, PopType, FollowType DEF TypeOK, shell, sound, walk
  <2> QED
    BY <2>1, <2>4, <2>5, <2>6, <2>7
<1>7. CASE ToneEnds
  <2>1. mode' \in {"prompt", "gap"}
    BY <1>7 DEF ToneEnds, Back
  <2>2. line' \in Seq(Letters)
    BY <1>7, EmptyLines DEF ToneEnds, Back, TypeOK
  <2> QED
    BY <1>7, <2>1, <2>2 DEF ToneEnds, TypeOK, NoNote, playing, walk, fingers, ghost
<1>8. CASE GapEnds
  BY <1>8, NextTokenType DEF GapEnds, TypeOK, fingers
<1>9. CASE Strike
  <2>1. cursor <= Len(score) => score[cursor] \in Note
    BY DEF TypeOK
  <2>2. cursor <= Len(score) => NoteOn(voices, score[cursor].pitch) \in [Slot -> Nat]
    BY <2>1, NoteOnEffect DEF Note, TypeOK
  <2>3. voices' \in [Slot -> Nat] /\ mode' \in {mode, "sleep"} /\ cursor' \in Nat \ {0}
    BY <1>9, <2>2 DEF Strike, TypeOK
  <2> QED
    BY <1>9, <2>3 DEF Strike, TypeOK, playing, fingers, ghost
<1>10. CASE Wakes
  BY <1>10 DEF Wakes, TypeOK, sound, playing, fingers, ghost
<1>11. CASE LetGo
  <2>1. /\ Silent \in [Slot -> Nat]
        /\ \A p : NoteOff(voices, p) \in [Slot -> Nat]
    BY DEF Silent, NoteOff, NoNote, TypeOK
  <2> HIDE DEF Silent
  <2>2. /\ voices' \in [Slot -> Nat] /\ mode' \in {mode, "strike", "prompt"} /\ cursor' \in Nat \ {0}
        /\ line' \in Seq(Letters) /\ score' \in Seq(Note) /\ tick' \in Nat
    <3>1. voices' \in [Slot -> Nat]
      BY <1>11, <2>1 DEF LetGo, TypeOK
    <3>2. mode' \in {mode, "strike", "prompt"}
      BY <1>11 DEF LetGo, Back
    <3>3. line' \in Seq(Letters)
      BY <1>11, EmptyLines DEF LetGo, Back, TypeOK
    <3>4. score' \in Seq(Note)
      BY <1>11, EmptyLines DEF LetGo, TypeOK
    <3>5. tick' \in Nat /\ cursor' \in Nat \ {0}
      BY <1>11 DEF LetGo, TypeOK
    <3> QED
      BY <3>1, <3>2, <3>3, <3>4, <3>5
  <2> QED
    BY <1>11, <2>2 DEF LetGo, TypeOK, playing, fingers, ghost
<1>12. CASE UNCHANGED vars
  BY <1>12 DEF vars, TypeOK, shell, sound, playing, walk, fingers, ghost
<1> QED
  BY <1>1, <1>2, <1>3, <1>4, <1>5, <1>6, <1>7, <1>8, <1>9, <1>10, <1>11, <1>12
     DEF Next, Fingers, ShellStep

----------------------------------------------------------------------------
(* Who sounds.                                                             *)

LEMMA NoFingers ==
    ASSUME NEW k \in Keys, Press(k) \/ Release(k)
    PROVE  UNCHANGED <<mode, line, draft, available, tone, voices, sounding, played,
                       score, tick, cursor, pressed, crowded>>
BY DEF Press, Release, shell, sound, playing, walk, ghost

\* The commands leave what sounds alone, but for a first note on the speaker.
LEMMA ExecuteSource ==
    ASSUME SourceInv, mode = "prompt", NEW command, Execute(command)
    PROVE  SourceInv'
<1>1. tone = NoNote /\ voices = Silent /\ pressed = {}
  BY DEF SourceInv, SilentPrompt, Instrument
<1>2. voices' = voices /\ (pressed' = pressed \/ pressed' = {})
  BY DEF Execute, TakeUp, Celebrate, NextToken, sound, ghost
<1>3. mode' \notin {"beep", "note"} => tone' = tone
  BY DEF Execute, TakeUp, Celebrate, NextToken, sound
<1> HIDE DEF Silent
<1> QED
  BY <1>1, <1>2, <1>3 DEF SourceInv, SilentPrompt, Instrument

\* Follow forgets the fingers when the instrument ends.
LEMMA FollowEnds ==
    ASSUME NEW ev \in Event, Follow(ev), mode' # mode
    PROVE  pressed' = {} /\ crowded' = FALSE
BY DEF Follow

LEMMA SourceNext == TypeOK /\ SourceInv /\ [Next]_vars => SourceInv'
<1> SUFFICES ASSUME TypeOK, SourceInv, [Next]_vars PROVE SourceInv'
  OBVIOUS
<1> HIDE DEF Silent
<1>1. ASSUME UNCHANGED <<mode, available, tone, voices, pressed>> PROVE SourceInv'
  BY <1>1 DEF SourceInv, SilentPrompt, Instrument
<1>2. ASSUME NEW k \in Keys, Press(k) \/ Release(k) PROVE SourceInv'
  BY <1>1, <1>2, NoFingers
<1>3. CASE PromptKey
  <2>1. CASE Execute(IF line \in DOMAIN Commands THEN Commands[line] ELSE "other")
    BY <1>3, <2>1, ExecuteSource DEF PromptKey
  <2>2. CASE UNCHANGED <<mode, draft, available, sound, playing, walk, ghost>>
    BY <1>1, <2>2 DEF sound, ghost
  <2> QED
    BY <1>3, <2>1, <2>2 DEF PromptKey
<1>4. CASE ScoreKey
  <2>1. mode' \in {"score", "prompt", "strike"} /\ UNCHANGED <<tone, voices, pressed>>
    BY <1>4 DEF ScoreKey, Celebrate, Back, sound, ghost
  <2>2. tone = NoNote /\ voices = Silent /\ pressed = {}
    BY <1>4 DEF ScoreKey, SourceInv, SilentPrompt, Instrument
  <2> QED
    BY <2>1, <2>2 DEF SourceInv, SilentPrompt, Instrument
<1>5. CASE PianoKey
  <2>1. PICK ev \in Event : /\ Follow(ev) /\ UNCHANGED <<available, voices>>
                            /\ PianoDown(ev) \/ PianoUp(ev)
    BY <1>5 DEF PianoKey
  <2>2. mode = "piano" /\ voices = Silent
    BY <1>5 DEF PianoKey, SourceInv
  <2>3. CASE mode' = mode
    BY <2>1, <2>2, <2>3 DEF SourceInv, SilentPrompt, Instrument
  <2>4. CASE mode' # mode
    <3>1. mode' = "prompt" /\ tone' = NoNote
      BY <2>1, <2>4 DEF PianoDown, PianoUp, Back
    <3> QED
      BY <2>1, <2>2, <2>4, <3>1, FollowEnds DEF SourceInv, SilentPrompt, Instrument
  <2> QED
    BY <2>3, <2>4
<1>6. CASE OrganKey
  <2>1. PICK ev \in Event :
          /\ Follow(ev) /\ UNCHANGED <<available, tone>>
          /\ (voices' = Silent /\ Back) \/ UNCHANGED mode
    BY <1>6 DEF OrganKey
  <2>2. mode = "organ" /\ tone = NoNote
    BY <1>6 DEF OrganKey, SourceInv
  <2>3. CASE mode' = mode
    BY <2>1, <2>2, <2>3 DEF SourceInv, SilentPrompt, Instrument
  <2>4. CASE mode' # mode
    BY <2>1, <2>2, <2>4, FollowEnds DEF SourceInv, SilentPrompt, Instrument, Back
  <2> QED
    BY <2>3, <2>4
<1>7. CASE TranscribeKey
  <2>1. PICK ev \in Event :
          /\ Follow(ev)
          /\ \/ Quiet /\ Back /\ UNCHANGED available
             \/ Quiet /\ Celebrate
             \/ (TranscribeDown(ev) \/ TranscribeUp(ev)) /\ UNCHANGED available
             \/ UNCHANGED <<shell, sound>>
    BY <1>7 DEF TranscribeKey
  <2>2. mode = "transcribe" /\ IF available THEN tone = NoNote ELSE voices = Silent
    BY <1>7 DEF TranscribeKey, SourceInv
  <2>3. CASE Quiet /\ (Back \/ Celebrate)
    <3>1. tone' = NoNote /\ voices' = Silent
      BY <2>2, <2>3 DEF Quiet
    <3>2. mode' \in {"prompt", "strike"}
      BY <2>3 DEF Back, Celebrate
    <3> QED
      BY <2>1, <2>2, <3>1, <3>2, FollowEnds DEF SourceInv, SilentPrompt, Instrument
  <2>4. CASE (TranscribeDown(ev) \/ TranscribeUp(ev)) /\ UNCHANGED available
    <3>1. mode' = "transcribe" /\ IF available THEN tone' = tone ELSE voices' = voices
      BY <2>2, <2>4 DEF TranscribeDown, TranscribeUp
    <3> QED
      BY <2>2, <2>4, <3>1 DEF SourceInv, SilentPrompt, Instrument
  <2>5. CASE UNCHANGED <<shell, sound>>
    BY <2>2, <2>5 DEF shell, sound, SourceInv, SilentPrompt, Instrument
  <2> QED
    BY <2>1, <2>3, <2>4, <2>5
<1>8. CASE ToneEnds
  <2>1. /\ mode' \in {"prompt", "gap"} /\ tone' = NoNote /\ UNCHANGED <<voices, pressed>>
        /\ mode \in {"beep", "note"}
    BY <1>8 DEF ToneEnds, Back, ghost
  <2>2. voices = Silent /\ pressed = {}
    BY <2>1 DEF SourceInv, Instrument
  <2> QED
    BY <2>1, <2>2 DEF SourceInv, SilentPrompt, Instrument
<1>9. CASE GapEnds
  <2>1. /\ mode = "gap" /\ UNCHANGED <<voices, pressed>>
        /\ mode' = "note" \/ (mode' = "prompt" /\ tone' = tone)
    BY <1>9 DEF GapEnds, NextToken, Back, ghost
  <2> QED
    BY <2>1 DEF SourceInv, SilentPrompt, Instrument
<1>10. CASE Strike \/ Wakes
  <2>1. /\ mode \in {"strike", "sleep"} /\ mode' \in {"strike", "sleep", "release"}
        /\ UNCHANGED <<tone, pressed>>
    BY <1>10 DEF Strike, Wakes, sound, ghost
  <2>2. tone = NoNote /\ pressed = {}
    BY <2>1 DEF SourceInv, Instrument
  <2> QED
    BY <2>1, <2>2 DEF SourceInv, SilentPrompt, Instrument
<1>11. CASE LetGo
  <2>1. /\ mode = "release" /\ UNCHANGED <<tone, pressed>>
        /\ mode' \in {"release", "strike"} \/ (mode' = "prompt" /\ voices' = Silent)
    BY <1>11 DEF LetGo, Back, ghost
  <2> QED
    BY <2>1 DEF SourceInv, SilentPrompt, Instrument
<1>12. CASE UNCHANGED vars
  BY <1>1, <1>12 DEF vars, shell, sound, ghost
<1> QED
  BY <1>2, <1>3, <1>4, <1>5, <1>6, <1>7, <1>8, <1>9, <1>10, <1>11, <1>12
     DEF Next, Fingers, ShellStep

----------------------------------------------------------------------------
(* What sounds.                                                            *)

\* The synth plays the chord under the fingers.
Chord ==
    /\ \A i, j \in Slot : voices[i] = voices[j] /\ voices[i] # NoNote => i = j
    /\ Heard \subseteq {KeyMidi[k] : k \in pressed}
    /\ crowded \/ Heard = {KeyMidi[k] : k \in pressed}

\* A note that is struck is heard from then on or was already, unless it found
\* no voice; no other note comes or goes.
LEMMA HeardOn ==
    ASSUME TypeOK, NEW p \in Nat \ {NoNote}, voices' = NoteOn(voices, p),
           \A i, j \in Slot : voices[i] = voices[j] /\ voices[i] # NoNote => i = j
    PROVE  /\ (\A i, j \in Slot : voices[i] = voices[j] /\ voices[i] # NoNote => i = j)'
           /\ Heard' = Heard \/ Heard' = Heard \cup {p}
           /\ p \in Heard => Heard' = Heard
<1>1. voices \in [Slot -> Nat]
  BY DEF TypeOK
<1>2. CASE voices' = voices
  BY <1>2 DEF Heard
<1>3. CASE /\ p \notin {voices[i] : i \in Slot}
           /\ \E f \in Slot : /\ voices[f] = NoNote /\ voices'[f] = p
                              /\ \A i \in Slot \ {f} : voices'[i] = voices[i]
  <2>1. PICK f \in Slot : /\ voices[f] = NoNote /\ voices'[f] = p
                          /\ \A i \in Slot \ {f} : voices'[i] = voices[i]
    BY <1>3
  <2>2. Heard' = Heard \cup {p}
    <3>1. ASSUME NEW q \in Heard' PROVE q \in Heard \cup {p}
      BY <2>1, <3>1 DEF Heard
    <3>2. ASSUME NEW q \in Heard \cup {p} PROVE q \in Heard'
      BY <2>1, <3>2 DEF Heard
    <3> QED
      BY <3>1, <3>2
  <2>3. p \notin Heard
    BY <1>3 DEF Heard
  <2>4. ASSUME NEW i \in Slot, NEW j \in Slot, voices'[i] = voices'[j], voices'[i] # NoNote
        PROVE  i = j
    BY <1>3, <2>1, <2>4
  <2> QED
    BY <2>2, <2>3, <2>4
<1> QED
  BY <1>1, <1>2, <1>3, NoteOnEffect

\* A note that is released is not heard any more; no other note comes or goes.
LEMMA HeardOff ==
    ASSUME TypeOK, NEW p \in Nat \ {NoNote}, voices' = NoteOff(voices, p),
           \A i, j \in Slot : voices[i] = voices[j] /\ voices[i] # NoNote => i = j
    PROVE  /\ (\A i, j \in Slot : voices[i] = voices[j] /\ voices[i] # NoNote => i = j)'
           /\ Heard' = Heard \ {p}
<1>1. \A i \in Slot : voices'[i] = IF voices[i] = p THEN NoNote ELSE voices[i]
  BY DEF NoteOff
<1>2. Heard' = Heard \ {p}
  <2>1. ASSUME NEW q \in Heard' PROVE q \in Heard \ {p}
    BY <1>1, <2>1 DEF Heard
  <2>2. ASSUME NEW q \in Heard \ {p} PROVE q \in Heard'
    BY <1>1, <2>2 DEF Heard
  <2> QED
    BY <2>1, <2>2
<1>3. ASSUME NEW i \in Slot, NEW j \in Slot, voices'[i] = voices'[j], voices'[i] # NoNote
      PROVE  i = j
  BY <1>1, <1>3
<1> QED
  BY <1>2, <1>3

\* A letter that goes down or up on the synth keeps the chord.
LEMMA ChordStep ==
    ASSUME TypeOK, Chord, NEW ev \in Event, ev.key \in Letters, Follow(ev), mode' = mode,
           voices' = IF ev.down THEN NoteOn(voices, KeyMidi[ev.key])
                     ELSE NoteOff(voices, KeyMidi[ev.key])
    PROVE  Chord'
<1> DEFINE p == KeyMidi[ev.key]
           midi(S) == {KeyMidi[k] : k \in S}
<1>1. p \in Nat \ {NoNote}
  BY LetterFacts
<1>2. pressed \subseteq Letters /\ crowded \in BOOLEAN
  BY DEF TypeOK
<1>3. \A i, j \in Slot : voices[i] = voices[j] /\ voices[i] # NoNote => i = j
  BY DEF Chord
<1>4. Heard \subseteq midi(pressed) /\ (crowded \/ Heard = midi(pressed))
  BY DEF Chord
<1>5. CASE ev.down
  <2>1. voices' = NoteOn(voices, p)
    BY <1>5
  <2>2. /\ (\A i, j \in Slot : voices[i] = voices[j] /\ voices[i] # NoNote => i = j)'
        /\ Heard' = Heard \/ Heard' = Heard \cup {p}
        /\ p \in Heard => Heard' = Heard
    <3> HIDE DEF p
    <3> QED
      BY <1>1, <1>3, <2>1, HeardOn
  <2>3. /\ pressed' = pressed \cup {ev.key}
        /\ crowded' = (pressed' # {} /\ (crowded \/ \E k \in pressed' \ pressed : KeyMidi[k] \notin Heard'))
    BY <1>5 DEF Follow
  <2>4. midi(pressed') = midi(pressed) \cup {p}
    BY <2>3
  <2>5. Heard' \subseteq midi(pressed')
    BY <1>4, <2>2, <2>4
  <2>6. ASSUME ~crowded' PROVE Heard' = midi(pressed')
    <3>1. ~crowded /\ \A k \in pressed' \ pressed : KeyMidi[k] \in Heard'
      BY <2>3, <2>6
    <3>2. Heard = midi(pressed)
      BY <1>4, <3>1
    <3>3. CASE ev.key \in pressed
      <4>1. p \in Heard
        BY <3>2, <3>3
      <4> HIDE DEF p, midi
      <4> QED
        BY <2>2, <2>4, <3>2, <4>1
    <3>4. CASE ev.key \notin pressed
      <4>1. p \in Heard'
        BY <2>3, <3>1, <3>4
      <4> HIDE DEF p, midi
      <4> QED
        BY <2>2, <2>4, <3>2, <4>1
    <3> QED
      BY <3>3, <3>4
  <2> QED
    BY <2>2, <2>5, <2>6 DEF Chord
<1>6. CASE ~ev.down
  <2>1. voices' = NoteOff(voices, p)
    BY <1>6
  <2>2. /\ (\A i, j \in Slot : voices[i] = voices[j] /\ voices[i] # NoNote => i = j)'
        /\ Heard' = Heard \ {p}
    <3> HIDE DEF p
    <3> QED
      BY <1>1, <1>3, <2>1, HeardOff
  <2>3. /\ pressed' = pressed \ {ev.key}
        /\ crowded' = (pressed' # {} /\ (crowded \/ \E k \in pressed' \ pressed : KeyMidi[k] \notin Heard'))
    BY <1>6 DEF Follow
  <2>4. midi(pressed') = midi(pressed) \ {p}
    <3>1. ASSUME NEW q \in midi(pressed') PROVE q \in midi(pressed) \ {p}
      BY <1>2, <2>3, <3>1, LetterFacts
    <3>2. ASSUME NEW q \in midi(pressed) \ {p} PROVE q \in midi(pressed')
      BY <2>3, <3>2
    <3> HIDE DEF p, midi
    <3> QED
      BY <3>1, <3>2
  <2>5. Heard' \subseteq midi(pressed')
    BY <1>4, <2>2, <2>4
  <2>6. ASSUME ~crowded' PROVE Heard' = midi(pressed')
    <3>1. CASE pressed' = {}
      BY <2>5, <3>1
    <3>2. CASE ~crowded
      <4> HIDE DEF p, midi
      <4> QED
        BY <1>4, <2>2, <2>4, <3>2
    <3> QED
      BY <2>3, <2>6, <3>1, <3>2
  <2> QED
    BY <2>2, <2>5, <2>6 DEF Chord
<1> QED
  BY <1>5, <1>6, <1>2

\* Any other key leaves it alone.
LEMMA ChordKept ==
    ASSUME TypeOK, Chord, NEW ev \in Event, ev.key \notin Letters, Follow(ev), mode' = mode,
           voices' = voices
    PROVE  Chord'
<1>1. pressed' = pressed /\ crowded' = (pressed # {} /\ crowded)
  BY DEF Follow
<1>2. Heard' = Heard
  BY DEF Heard
<1>3. crowded' \/ Heard' = {KeyMidi[k] : k \in pressed'}
  BY <1>1, <1>2 DEF Chord
<1> QED
  BY <1>1, <1>2, <1>3 DEF Chord

\* An instrument that is taken up finds nothing sounding and no key down.
LEMMA SoundTakenUp ==
    ASSUME mode = "prompt", SourceInv, NEW i \in Instrument, TakeUp(i)
    PROVE  SoundFollowsKeys'
<1>1. tone' = NoNote /\ voices' = Silent /\ pressed' = {} /\ sounding' = NoKey
  BY DEF SourceInv, SilentPrompt, TakeUp, sound
<1>2. Heard' = {}
  BY <1>1 DEF Heard, Silent
<1>3. \A i1, j1 \in Slot : voices'[i1] = NoNote
  BY <1>1 DEF Silent
<1>4. VoicesAreTheChord'
  BY <1>1, <1>2, <1>3 DEF VoicesAreTheChord
<1>5. SpeakerFollowsNewest'
  BY <1>1 DEF SpeakerFollowsNewest
<1> QED
  BY <1>4, <1>5 DEF SoundFollowsKeys

LEMMA SoundNext == IInv /\ [Next]_vars => SoundFollowsKeys'
<1> SUFFICES ASSUME IInv, [Next]_vars PROVE SoundFollowsKeys'
  OBVIOUS
<1>1. TypeOK /\ SourceInv /\ VoicesAreTheChord /\ SpeakerFollowsNewest
  BY DEF IInv, SoundFollowsKeys
<1>2. ASSUME mode' \notin Instrument PROVE SoundFollowsKeys'
  BY <1>2 DEF SoundFollowsKeys, VoicesAreTheChord, OnTheSynth, SpeakerFollowsNewest, Instrument
<1>3. ASSUME UNCHANGED <<mode, available, tone, voices, sounding, played, pressed, crowded>>
      PROVE  SoundFollowsKeys'
  BY <1>1, <1>3 DEF SoundFollowsKeys, VoicesAreTheChord, OnTheSynth, SpeakerFollowsNewest, Heard
<1>4. ASSUME NEW k \in Keys, Press(k) \/ Release(k) PROVE SoundFollowsKeys'
  BY <1>3, <1>4, NoFingers
<1>5. CASE PromptKey
  <2>1. CASE Execute(IF line \in DOMAIN Commands THEN Commands[line] ELSE "other")
    <3>1. CASE \E i \in Instrument : TakeUp(i)
      BY <1>1, <1>5, <3>1, SoundTakenUp DEF PromptKey
    <3>2. CASE mode' \notin Instrument
      BY <1>2, <3>2
    <3> QED
      BY <2>1, <3>1, <3>2 DEF Execute, Back, Celebrate, NextToken, Instrument
  <2>2. CASE UNCHANGED <<mode, draft, available, sound, playing, walk, ghost>>
    BY <1>3, <2>2 DEF sound, playing, ghost
  <2> QED
    BY <1>5, <2>1, <2>2 DEF PromptKey
<1>6. CASE PianoKey
  <2>1. CASE mode' # mode
    BY <1>2, <1>6, <2>1 DEF PianoKey, PianoDown, PianoUp, Back, Instrument
  <2>2. CASE mode' = mode
    <3>1. PICK ev \in Event : /\ Follow(ev)
                              /\ PianoDown(ev) \/ PianoUp(ev)
      BY <1>6 DEF PianoKey
    <3>2. mode = "piano"
      BY <1>6 DEF PianoKey
    <3>3. IF sounding = NoKey THEN tone = NoNote
          ELSE sounding \in pressed /\ tone = KeyMidi[sounding]
      BY <1>1, <3>2 DEF SpeakerFollowsNewest
    <3>4. pressed' = IF ev.key \notin Letters THEN pressed
                     ELSE IF ev.down THEN pressed \cup {ev.key} ELSE pressed \ {ev.key}
      BY <2>2, <3>1 DEF Follow
    <3>5. IF sounding' = NoKey THEN tone' = NoNote
          ELSE sounding' \in pressed' /\ tone' = KeyMidi[sounding']
      <4>1. CASE PianoUp(ev)
        BY <3>3, <3>4, <4>1 DEF PianoUp
      <4>2. CASE PianoDown(ev) /\ ev.key \in Letters
        <5>1. tone' = KeyMidi[ev.key] /\ sounding' = ev.key /\ ev.down
          BY <2>2, <3>2, <4>2 DEF PianoDown, Back
        <5>2. ev.key \in pressed'
          BY <3>4, <4>2, <5>1
        <5>3. ev.key # NoKey
          BY <4>2, LetterFacts
        <5> QED
          BY <5>1, <5>2, <5>3
      <4>3. CASE PianoDown(ev) /\ ev.key \notin Letters
        BY <2>2, <3>2, <3>3, <3>4, <4>3 DEF PianoDown, Back
      <4> QED
        BY <3>1, <4>1, <4>2, <4>3
    <3>6. SpeakerFollowsNewest'
      BY <2>2, <3>2, <3>5 DEF SpeakerFollowsNewest
    <3>7. VoicesAreTheChord'
      BY <2>2, <3>2 DEF VoicesAreTheChord, OnTheSynth
    <3> QED
      BY <3>6, <3>7 DEF SoundFollowsKeys
  <2> QED
    BY <2>1, <2>2
<1>7. CASE OrganKey
  <2>1. CASE mode' # mode
    BY <1>2, <1>7, <2>1 DEF OrganKey, Back, Instrument
  <2>2. CASE mode' = mode
    <3>1. PICK ev \in Event :
            /\ Follow(ev)
            /\ \/ ev = Down("esc") /\ voices' = Silent /\ Back
               \/ ev.key \in Letters /\ UNCHANGED <<mode, line>>
                    /\ voices' = IF ev.down THEN NoteOn(voices, KeyMidi[ev.key])
                                 ELSE NoteOff(voices, KeyMidi[ev.key])
               \/ ev.key \notin Letters /\ ev # Down("esc") /\ UNCHANGED <<mode, line, voices>>
      BY <1>7 DEF OrganKey
    <3>2. mode = "organ"
      BY <1>7 DEF OrganKey
    <3>3. Chord
      BY <1>1, <3>2 DEF VoicesAreTheChord, OnTheSynth, Chord
    <3>4. CASE ev.key \in Letters
      <4>1. voices' = IF ev.down THEN NoteOn(voices, KeyMidi[ev.key])
                      ELSE NoteOff(voices, KeyMidi[ev.key])
        BY <2>2, <3>1, <3>2, <3>4 DEF Back
      <4> QED
        BY <1>1, <2>2, <3>1, <3>2, <3>3, <3>4, <4>1, ChordStep
           DEF SoundFollowsKeys, VoicesAreTheChord, SpeakerFollowsNewest, Chord
    <3>5. CASE ev.key \notin Letters
      <4>1. UNCHANGED voices
        BY <2>2, <3>1, <3>2, <3>5 DEF Back
      <4>2. Chord'
        BY <1>1, <2>2, <3>1, <3>3, <3>5, <4>1, ChordKept
      <4> QED
        BY <2>2, <3>2, <4>2 DEF SoundFollowsKeys, VoicesAreTheChord, SpeakerFollowsNewest, Chord
    <3> QED
      BY <3>4, <3>5
  <2> QED
    BY <2>1, <2>2
<1>8. CASE TranscribeKey
  <2>1. CASE mode' # mode
    <3>1. mode' \in {"prompt", "strike"}
      BY <1>8, <2>1 DEF TranscribeKey, TranscribeDown, TranscribeUp, Back, Celebrate, shell
    <3> QED
      BY <1>2, <3>1 DEF Instrument
  <2>2. CASE mode' = mode
    <3>1. mode = "transcribe"
      BY <1>8 DEF TranscribeKey
    <3>2. PICK ev \in Event :
            /\ Follow(ev)
            /\ \/ TranscribeDown(ev) /\ UNCHANGED available
               \/ TranscribeUp(ev) /\ UNCHANGED available
               \/ ev.key \notin Letters /\ UNCHANGED <<shell, sound, played>>
      BY <1>8, <2>2, <3>1 DEF TranscribeKey, Back, Celebrate
    <3>3. IF available THEN tone = NoNote ELSE voices = Silent
      BY <1>1, <3>1 DEF SourceInv
    <3>4. available' = available /\ available \in BOOLEAN
      BY <1>1, <3>2 DEF shell, TypeOK
    <3>5. CASE available
      <4>1. tone' = NoNote
        BY <3>2, <3>3, <3>5 DEF TranscribeDown, TranscribeUp, sound
      <4>2. Chord
        BY <1>1, <3>1, <3>5 DEF VoicesAreTheChord, OnTheSynth, Chord
      <4>3. ASSUME ev.key \in Letters PROVE Chord'
        <5>1. voices' = IF ev.down THEN NoteOn(voices, KeyMidi[ev.key])
                        ELSE NoteOff(voices, KeyMidi[ev.key])
          BY <3>2, <3>5, <4>3 DEF TranscribeDown, TranscribeUp
        <5> QED
          BY <1>1, <2>2, <3>2, <4>2, <4>3, <5>1, ChordStep
      <4>4. ASSUME ev.key \notin Letters PROVE Chord'
        <5>1. voices' = voices
          BY <3>2, <4>4 DEF TranscribeDown, TranscribeUp, sound
        <5> QED
          BY <1>1, <2>2, <3>2, <4>2, <4>4, <5>1, ChordKept
      <4>5. Chord'
        BY <4>3, <4>4
      <4> QED
        BY <2>2, <3>1, <4>1, <4>5
           DEF SoundFollowsKeys, VoicesAreTheChord, SpeakerFollowsNewest, Chord
    <3>6. CASE ~available
      <4>1. VoicesAreTheChord'
        BY <2>2, <3>1, <3>4, <3>6 DEF VoicesAreTheChord, OnTheSynth
      <4>2. ASSUME tone' # NoNote
            PROVE  /\ played' # <<>> /\ tone' = played'[Len(played')]
                   /\ \E k \in pressed' : KeyMidi[k] = tone'
        <5>1. CASE TranscribeDown(ev)
          <6>1. /\ played' = Append(played, KeyMidi[ev.key]) /\ tone' = KeyMidi[ev.key]
                /\ ev.key \in Letters /\ ev.down
            BY <3>6, <5>1 DEF TranscribeDown
          <6>2. played \in Seq(Nat) /\ KeyMidi[ev.key] \in Nat
            BY <1>1, <6>1, LetterFacts DEF TypeOK
          <6>3. played' # <<>> /\ played'[Len(played')] = KeyMidi[ev.key]
            BY <6>1, <6>2
          <6>4. ev.key \in pressed'
            BY <2>2, <3>2, <6>1 DEF Follow
          <6> QED
            BY <6>1, <6>3, <6>4
        <5>2. CASE TranscribeUp(ev)
          BY <3>6, <4>2, <5>2 DEF TranscribeUp
        <5>3. CASE ev.key \notin Letters /\ UNCHANGED <<shell, sound, played>>
          <6>1. pressed' = pressed
            BY <2>2, <3>2, <5>3 DEF Follow
          <6>2. tone' = tone /\ played' = played
            BY <5>3 DEF sound
          <6> QED
            BY <1>1, <3>1, <4>2, <6>1, <6>2 DEF SpeakerFollowsNewest
        <5> QED
          BY <3>2, <5>1, <5>2, <5>3
      <4>3. SpeakerFollowsNewest'
        BY <2>2, <3>1, <4>2 DEF SpeakerFollowsNewest
      <4> QED
        BY <4>1, <4>3 DEF SoundFollowsKeys
    <3> QED
      BY <3>5, <3>6
  <2> QED
    BY <2>1, <2>2
<1>9. CASE ScoreKey \/ ToneEnds \/ GapEnds \/ Strike \/ Wakes \/ LetGo
  <2>1. mode' \in {"prompt", "score", "gap", "note", "strike", "sleep", "release"}
    BY <1>9 DEF ScoreKey, Celebrate, Back, ToneEnds, GapEnds, NextToken, Strike, Wakes, LetGo
  <2> QED
    BY <1>2, <2>1 DEF Instrument
<1>10. CASE UNCHANGED vars
  BY <1>3, <1>10 DEF vars, shell, sound, playing, ghost
<1> QED
  BY <1>4, <1>5, <1>6, <1>7, <1>8, <1>9, <1>10 DEF Next, Fingers, ShellStep

----------------------------------------------------------------------------
(* Keys whose release is to come.                                          *)

\* An event that arrives, and what it says of the fingers.
LEMMA FingersMove ==
    ASSUME TypeOK, FingerInv, NEW k \in Keys, Press(k) \/ Release(k)
    PROVE  FingerInv'
<1>1. PICK ev \in Event : /\ Push(ev) /\ ev.key = k
                          /\ IF ev.down THEN ev = Down(k) /\ held' = held \cup ({k} \cap Letters)
                             ELSE ev = Up(k) /\ held' = held \ {k}
  <2>1. CASE Press(k)
    <3>1. Down(k) \in Event /\ Down(k).key = k /\ Down(k).down
      BY DEF Down, Event
    <3> QED
      BY <2>1, <3>1 DEF Press
  <2>2. CASE Release(k)
    <3>1. Up(k) \in Event /\ Up(k).key = k /\ ~Up(k).down
      BY DEF Up, Event
    <3> QED
      BY <2>2, <3>1 DEF Release
  <2> QED
    BY <2>1, <2>2
<1>2. queue \in Seq(Event) /\ held \subseteq Letters /\ lost \subseteq Letters /\ pressed' = pressed
  BY NoFingers DEF TypeOK
<1>3. CASE Len(queue) < QUEUE_SIZE
  <2>1. queue' = Append(queue, ev)
    BY <1>1, <1>3 DEF Push
  <2>2. /\ Len(queue') = Len(queue) + 1 /\ queue'[Len(queue) + 1] = ev
        /\ DOMAIN queue = 1..Len(queue) /\ DOMAIN queue' = 1..(Len(queue) + 1)
        /\ Len(queue) \in Nat
        /\ \A i \in 1..Len(queue) : queue'[i] = queue[i]
    BY <1>2, <2>1
  <2>3. ASSUME NEW l \in Letters, NEW n \in 0..Len(queue), Releasable(l, n)
        PROVE  Releasable(l, n)'
    <3>1. CASE \E j \in DOMAIN queue : j > n /\ queue[j] = Up(l)
      BY <2>2, <3>1 DEF Releasable
    <3>2. CASE l \in held \cup lost /\ ev = Up(l)
      BY <2>2, <3>2 DEF Releasable
    <3>3. CASE l \in held \cup lost /\ ev # Up(l)
      <4>1. l # k \/ ev.down
        BY <1>1, <3>3
      <4>2. l \in held' \cup lost'
        BY <1>1, <1>3, <3>3, <4>1 DEF Push
      <4> QED
        BY <4>2 DEF Releasable
    <3> QED
      BY <2>3, <3>1, <3>2, <3>3 DEF Releasable
  <2>4. ASSUME NEW l \in pressed' PROVE Releasable(l, 0)'
    BY <1>2, <2>2, <2>3 DEF FingerInv, TypeOK
  <2>5. ASSUME NEW i \in Pending' PROVE Releasable(queue[i].key, i)'
    <3>1. i \in 1..(Len(queue) + 1) /\ queue'[i].down /\ queue'[i].key \in Letters
      BY <2>2 DEF Pending
    <3>2. CASE i = Len(queue) + 1
      <4>1. ev.down /\ ev.key \in Letters
        BY <2>2, <3>1, <3>2
      <4>2. queue'[i].key \in held'
        BY <1>1, <2>2, <3>2, <4>1
      <4> QED
        BY <4>2 DEF Releasable
    <3>3. CASE i \in 1..Len(queue)
      <4>1. PICK l \in Letters : l = queue'[i].key
        BY <3>1
      <4>2. i \in Pending /\ queue[i].key = l
        BY <2>2, <3>1, <3>3, <4>1 DEF Pending
      <4>3. Releasable(l, i)
        BY <4>2 DEF FingerInv
      <4>4. Releasable(l, i)'
        BY <2>3, <3>3, <4>3
      <4> QED
        BY <4>1, <4>4 DEF Releasable
    <3> QED
      BY <2>2, <3>1, <3>2, <3>3
  <2> QED
    BY <2>4, <2>5 DEF FingerInv
<1>4. CASE ~(Len(queue) < QUEUE_SIZE)
  <2>1. queue' = queue
    BY <1>1, <1>4 DEF Push
  <2>2. ASSUME NEW l \in Letters, l \in held \cup lost PROVE l \in held' \cup lost'
    BY <1>1, <1>4, <2>2 DEF Push
  <2>3. ASSUME NEW l \in Letters, NEW n, Releasable(l, n) PROVE Releasable(l, n)'
    BY <2>1, <2>2, <2>3 DEF Releasable
  <2>4. ASSUME NEW l \in pressed' PROVE Releasable(l, 0)'
    BY <1>2, <2>3 DEF FingerInv, TypeOK
  <2>5. ASSUME NEW i \in Pending' PROVE Releasable(queue[i].key, i)'
    <3>1. i \in Pending /\ queue[i].key \in Letters /\ queue'[i].key = queue[i].key
      BY <2>1 DEF Pending
    <3>2. PICK l \in Letters : l = queue[i].key
      BY <3>1
    <3>3. Releasable(l, i)'
      BY <2>3, <3>1, <3>2 DEF FingerInv
    <3> QED
      BY <3>1, <3>2, <3>3 DEF Releasable
  <2> QED
    BY <2>4, <2>5 DEF FingerInv
<1> QED
  BY <1>3, <1>4

\* The shell reads an event: the key that goes down is followed from then on,
\* the one that goes up no longer, so that no release is read in vain.
LEMMA FingersRead ==
    ASSUME TypeOK, FingerInv, NEW ev \in Event, Pop(ev),
           \A k \in pressed' : \/ k \in pressed /\ ev # Up(k)
                               \/ k \in Letters /\ ev = Down(k)
    PROVE  FingerInv'
<1>1. queue \in Seq(Event) /\ queue # <<>> /\ ev = queue[1] /\ queue' = Tail(queue)
  BY DEF Pop, TypeOK
<1>2. /\ Len(queue) \in Nat /\ Len(queue) >= 1
      /\ DOMAIN queue = 1..Len(queue) /\ DOMAIN queue' = 1..(Len(queue) - 1)
      /\ \A i \in 1..(Len(queue) - 1) : queue'[i] = queue[i + 1]
  BY <1>1
<1>3. UNCHANGED <<held, lost>>
  BY DEF Pop
<1>4. ASSUME NEW l, NEW n \in Nat, Releasable(l, n + 1) PROVE Releasable(l, n)'
  <2>1. CASE l \in held \cup lost
    BY <1>3, <2>1 DEF Releasable
  <2>2. CASE \E j \in DOMAIN queue : j > n + 1 /\ queue[j] = Up(l)
    <3>1. PICK j \in 1..Len(queue) : j > n + 1 /\ queue[j] = Up(l)
      BY <1>2, <2>2
    <3>2. j - 1 \in 1..(Len(queue) - 1) /\ j - 1 > n /\ queue'[j - 1] = Up(l)
      BY <1>2, <3>1
    <3> QED
      BY <1>2, <3>2 DEF Releasable
  <2> QED
    BY <1>4, <2>1, <2>2 DEF Releasable
<1>5. ASSUME NEW k \in pressed' PROVE Releasable(k, 0)'
  <2>1. CASE k \in pressed /\ ev # Up(k)
    <3>1. Releasable(k, 0)
      BY <2>1 DEF FingerInv
    <3>2. Releasable(k, 0 + 1)
      BY <1>1, <1>2, <2>1, <3>1 DEF Releasable
    <3> QED
      BY <1>4, <3>2
  <2>2. CASE k \in Letters /\ ev = Down(k)
    <3>1. 1 \in Pending /\ queue[1].key = k
      <4>1. ev.key = k /\ ev.down
        BY <2>2 DEF Down
      <4>2. queue[1].key = k /\ queue[1].down
        BY <1>1, <4>1
      <4>3. 1 \in DOMAIN queue /\ queue[1].key \in Letters
        BY <1>2, <2>2, <4>2
      <4> QED
        BY <4>2, <4>3 DEF Pending
    <3>2. Releasable(k, 0 + 1)
      BY <3>1 DEF FingerInv
    <3> QED
      BY <1>4, <3>2
  <2> QED
    BY <1>5, <2>1, <2>2
<1>6. ASSUME NEW i \in Pending' PROVE Releasable(queue[i].key, i)'
  <2>1. /\ i \in 1..(Len(queue) - 1) /\ i + 1 \in Pending
        /\ queue'[i].key = queue[i + 1].key
    BY <1>2 DEF Pending
  <2>2. PICK l : l = queue[i + 1].key
    OBVIOUS
  <2>3. Releasable(l, i + 1)
    BY <2>1, <2>2 DEF FingerInv
  <2>4. Releasable(l, i)'
    BY <1>4, <2>1, <2>3
  <2> QED
    BY <2>1, <2>2, <2>4 DEF Releasable
<1> QED
  BY <1>5, <1>6 DEF FingerInv

\* Follow keeps to what is read.
LEMMA FollowReads ==
    ASSUME NEW ev \in Event, Follow(ev), TypeOK
    PROVE  \A k \in pressed' : \/ k \in pressed /\ ev # Up(k)
                               \/ k \in Letters /\ ev = Down(k)
<1> SUFFICES ASSUME NEW k \in pressed'
             PROVE  \/ k \in pressed /\ ev # Up(k)
                    \/ k \in Letters /\ ev = Down(k)
  OBVIOUS
<1>1. pressed' = IF ev.key \notin Letters THEN pressed
                 ELSE IF ev.down THEN pressed \cup {ev.key} ELSE pressed \ {ev.key}
  BY DEF Follow
<1>2. pressed \subseteq Letters
  BY DEF TypeOK
<1>3. ev = [key |-> ev.key, down |-> ev.down] /\ ev.down \in BOOLEAN
  BY DEF Event
<1>4. Up(k).key = k /\ Up(k).down = FALSE
  BY DEF Up
<1>5. CASE ev.key \notin Letters
  BY <1>1, <1>2, <1>4, <1>5
<1>6. CASE ev.key \in Letters /\ ev.down
  <2>1. ev # Up(k)
    BY <1>4, <1>6
  <2>2. ev = Down(ev.key)
    BY <1>3, <1>6 DEF Down
  <2> QED
    BY <1>1, <1>6, <2>1, <2>2
<1>7. CASE ev.key \in Letters /\ ~ev.down
  BY <1>1, <1>4, <1>7
<1> QED
  BY <1>3, <1>5, <1>6, <1>7

LEMMA FingerNext == TypeOK /\ SourceInv /\ FingerInv /\ [Next]_vars => FingerInv'
<1> SUFFICES ASSUME TypeOK, SourceInv, FingerInv, [Next]_vars PROVE FingerInv'
  OBVIOUS
<1>1. ASSUME NEW k \in Keys, Press(k) \/ Release(k) PROVE FingerInv'
  BY <1>1, FingersMove
<1>2. CASE PromptKey \/ ScoreKey
  <2>1. PICK ev \in Event : Pop(ev)
    BY <1>2 DEF PromptKey, ScoreKey
  <2>2. pressed = {}
    BY <1>2 DEF PromptKey, ScoreKey, SourceInv, Instrument
  <2>3. pressed' = {}
    <3>1. pressed' \in {pressed, {}}
      BY <1>2 DEF PromptKey, ScoreKey, Execute, TakeUp, Celebrate, NextToken, ghost
    <3> QED
      BY <2>2, <3>1
  <2> QED
    BY <2>1, <2>3, FingersRead
<1>3. CASE PianoKey \/ OrganKey \/ TranscribeKey
  <2>1. PICK ev \in Event : Pop(ev) /\ Follow(ev)
    BY <1>3 DEF PianoKey, OrganKey, TranscribeKey
  <2> QED
    BY <2>1, FollowReads, FingersRead
<1>4. CASE UNCHANGED <<held, queue, lost, pressed>>
  BY <1>4 DEF FingerInv, Releasable, Pending
<1>5. ToneEnds \/ GapEnds \/ Strike \/ Wakes \/ LetGo => UNCHANGED <<held, queue, lost, pressed>>
  BY DEF ToneEnds, GapEnds, NextToken, Strike, Wakes, LetGo, fingers, ghost
<1>6. UNCHANGED vars => UNCHANGED <<held, queue, lost, pressed>>
  BY DEF vars, fingers, ghost
<1> QED
  BY <1>1, <1>2, <1>3, <1>4, <1>5, <1>6 DEF Next, Fingers, ShellStep

----------------------------------------------------------------------------
(* The theorems.                                                           *)

\* No stuck note, from who sounds, what sounds and which releases are to come.
LEMMA NoStuckFromInv == IInv => NoStuckNote
<1> SUFFICES ASSUME IInv, mode \in Instrument, NEW p \in Heard \cup ({tone} \ {NoNote})
             PROVE  \E k \in Letters :
                       /\ KeyMidi[k] = p
                       /\ k \in held \cup lost \/ \E i \in DOMAIN queue : queue[i] = Up(k)
  BY DEF NoStuckNote
<1>1. TypeOK /\ SourceInv /\ VoicesAreTheChord /\ SpeakerFollowsNewest /\ FingerInv
  BY DEF IInv, SoundFollowsKeys
<1>2. voices = Silent => Heard = {}
  BY DEF Heard, Silent
<1>3. \E k \in pressed : KeyMidi[k] = p
  <2>1. CASE mode = "piano"
    <3>1. p = tone /\ tone # NoNote
      BY <1>1, <1>2, <2>1 DEF SourceInv
    <3> QED
      BY <1>1, <2>1, <3>1 DEF SpeakerFollowsNewest
  <2>2. CASE mode = "organ"
    <3>1. p \in Heard
      BY <1>1, <2>2 DEF SourceInv
    <3> QED
      BY <1>1, <2>2, <3>1 DEF VoicesAreTheChord, OnTheSynth
  <2>3. CASE mode = "transcribe" /\ available
    <3>1. p \in Heard
      BY <1>1, <2>3 DEF SourceInv
    <3> QED
      BY <1>1, <2>3, <3>1 DEF VoicesAreTheChord, OnTheSynth
  <2>4. CASE mode = "transcribe" /\ ~available
    <3>1. p = tone /\ tone # NoNote
      BY <1>1, <1>2, <2>4 DEF SourceInv
    <3> QED
      BY <1>1, <2>4, <3>1 DEF SpeakerFollowsNewest
  <2>5. mode \in {"piano", "organ", "transcribe"}
    BY DEF Instrument
  <2> QED
    BY <2>1, <2>2, <2>3, <2>4, <2>5
<1>4. PICK k \in pressed : KeyMidi[k] = p
  BY <1>3
<1>5. k \in Letters /\ Releasable(k, 0)
  BY <1>1 DEF FingerInv, TypeOK
<1> QED
  BY <1>4, <1>5 DEF Releasable

\* The invariant holds in every state the shell, the instruments and the
\* keyboard reach.
THEOREM InductiveInvariant == Spec => []IInv
<1>1. Init => IInv
  <2> SUFFICES ASSUME Init PROVE IInv
    OBVIOUS
  <2>1. Silent \in [Slot -> Nat]
    BY DEF Silent, NoNote
  <2>2. available \in BOOLEAN /\ crowded \in BOOLEAN
    BY DEF Init
  <2>3. TypeOK
    BY <2>1, <2>2, EmptyLines DEF Init, TypeOK, NoNote
  <2>4. SourceInv
    BY DEF Init, SourceInv, SilentPrompt, Instrument
  <2>5. SoundFollowsKeys
    BY DEF Init, SoundFollowsKeys, VoicesAreTheChord, OnTheSynth, SpeakerFollowsNewest
  <2>6. FingerInv
    BY DEF Init, FingerInv, Pending
  <2> QED
    BY <2>3, <2>4, <2>5, <2>6 DEF IInv
<1>2. IInv /\ [Next]_vars => IInv'
  <2>1. IInv /\ [Next]_vars => TypeOK' /\ SourceInv' /\ FingerInv'
    BY TypeNext, SourceNext, FingerNext DEF IInv
  <2> QED
    BY <2>1, SoundNext DEF IInv
<1> QED
  BY <1>1, <1>2, PTL DEF Spec

\* Type correctness of the whole state.
THEOREM InstrumentsTypeCorrect == Spec => []TypeOK
<1>1. IInv => TypeOK
  BY DEF IInv
<1> QED
  BY <1>1, InductiveInvariant, PTL

\* Nothing sounds once a command has returned, while a score is typed or
\* between two notes, on the speaker and on the synth (run, execute, piano,
\* organ, transcribe, beep and play of shell.rs, play of celebrare.rs).
THEOREM PromptIsSilent == Spec => []SilentPrompt
<1>1. IInv => SilentPrompt
  BY DEF IInv, SourceInv
<1> QED
  BY <1>1, InductiveInvariant, PTL

\* For any number of voices and any chord: the synth plays what is under the
\* fingers, one voice a note, and the speaker the newest key (note_on and
\* note_off of ac97.rs, piano, organ and transcribe of shell.rs).
THEOREM SoundIsUnderTheFingers == Spec => []SoundFollowsKeys
<1>1. IInv => SoundFollowsKeys
  BY DEF IInv
<1> QED
  BY <1>1, InductiveInvariant, PTL

\* However the fingers, the interrupt's queue and the shell interleave: what
\* sounds in an instrument sounds for a key that is down, or whose release is
\* on its way, or was dropped by the full queue (drain_controller).
THEOREM NoNoteGetsStuck == Spec => []NoStuckNote
BY NoStuckFromInv, InductiveInvariant, PTL

----------------------------------------------------------------------------
(* A score that is played.                                                 *)

\* The notes that sound: of those that are due, the ones that the loop over
\* the onsets has reached, and the loop over the ends has not.
Sounding ==
    {i \in DueAt(score, tick) :
        /\ score[i].onset = tick /\ mode = "strike" => i < cursor
        /\ EndsWith(score[i], tick) /\ mode = "release" => i >= cursor}

\* Between any two iterations the synth plays the notes that sound, each in a
\* voice of its own.
ScoreInv ==
    mode \in {"strike", "sleep", "release"} =>
        /\ available /\ score \in Scores
        /\ \A i, j \in Slot : voices[i] = voices[j] /\ voices[i] # NoNote => i = j
        /\ Heard = {score[i].pitch : i \in Sounding}

\* What a note of the score is, and where the loops may be.
LEMMA ScoreFacts ==
    ASSUME TypeOK
    PROVE  /\ tick \in Nat /\ cursor \in Nat \ {0} /\ Len(score) \in Nat
           /\ DOMAIN score = 1..Len(score)
           /\ \A i \in DOMAIN score : /\ score[i].pitch \in Nat \ {NoNote}
                                      /\ score[i].onset \in Nat /\ score[i].dur \in Nat \ {0}
<1>1. score \in Seq(Note) /\ tick \in Nat /\ cursor \in Nat \ {0}
  BY DEF TypeOK
<1>2. Len(score) \in Nat /\ DOMAIN score = 1..Len(score) /\ \A i \in DOMAIN score : score[i] \in Note
  BY <1>1
<1> QED
  BY <1>1, <1>2 DEF Note

\* The next note of a playable score finds a voice: were all taken, more notes
\* than voices would sound.
LEMMA VoiceForNext ==
    ASSUME TypeOK, Playable(score), mode = "strike",
           \A i, j \in Slot : voices[i] = voices[j] /\ voices[i] # NoNote => i = j,
           Heard = {score[i].pitch : i \in Sounding},
           cursor <= Len(score), score[cursor].onset = tick
    PROVE  \E f \in Slot : voices[f] = NoNote
<1> SUFFICES ASSUME \A f \in Slot : voices[f] # NoNote PROVE FALSE
  OBVIOUS
<1> DEFINE Due == DueAt(score, tick)
           g == [f \in Slot |-> CHOOSE i \in Sounding : score[i].pitch = voices[f]]
<1>1. Due \subseteq DOMAIN score /\ cursor \in Due
  BY ScoreFacts DEF DueAt
<1>2. IsFiniteSet(Due) /\ Cardinality(Due) <= MAX_VOICES
  <2>1. IsFiniteSet(1..Len(score))
    BY ScoreFacts, FS_Interval
  <2>2. IsFiniteSet(Due)
    BY <1>1, <2>1, ScoreFacts, FS_Subset
  <2>3. cursor \in DOMAIN score
    BY <1>1
  <2>4. Cardinality(DueAt(score, score[cursor].onset)) <= MAX_VOICES
    BY <2>3 DEF Playable
  <2> QED
    BY <2>2, <2>4
<1>3. /\ IsFiniteSet(Due \ {cursor})
      /\ Cardinality(Due \ {cursor}) = Cardinality(Due) - 1
      /\ Cardinality(Due \ {cursor}) \in Nat
  <2> HIDE DEF Due
  <2>1. IsFiniteSet(Due \ {cursor}) /\ Cardinality(Due \ {cursor}) = Cardinality(Due) - 1
    BY <1>1, <1>2, FS_RemoveElement
  <2>2. Cardinality(Due \ {cursor}) \in Nat
    BY <2>1, FS_CardinalityType
  <2> QED
    BY <2>1, <2>2
<1>4. IsFiniteSet(Slot) /\ Cardinality(Slot) = MAX_VOICES
  <2>1. Cardinality(Due) \in Nat
    BY <1>2, FS_CardinalityType
  <2>2. MAX_VOICES \in Nat /\ MAX_VOICES >= 1
    <3> HIDE DEF Due
    <3> QED
      BY <1>2, <1>3, <2>1, InstrumentsAssumption
  <2> QED
    BY <2>2, FS_Interval DEF Slot
<1>5. ASSUME NEW f \in Slot PROVE g[f] \in Sounding /\ score[g[f]].pitch = voices[f]
  <2>1. voices[f] \in Heard
    BY DEF Heard
  <2>2. \E i \in Sounding : score[i].pitch = voices[f]
    BY <2>1
  <2> QED
    BY <2>2
<1>6. Sounding \subseteq Due \ {cursor}
  BY ScoreFacts DEF Sounding
<1>7. g \in [Slot -> Due \ {cursor}]
  BY <1>5, <1>6
<1>8. Cardinality(Due \ {cursor}) < Cardinality(Slot)
  <2>1. Cardinality(Due) \in Nat
    BY <1>2, FS_CardinalityType
  <2> HIDE DEF Due
  <2> QED
    BY <1>2, <1>3, <1>4, <2>1, InstrumentsAssumption
<1>9. PICK e, f \in Slot : e # f /\ g[e] = g[f]
  <2> HIDE DEF g, Due
  <2> QED
    BY <1>3, <1>4, <1>7, <1>8, FS_PigeonHole
<1>10. voices[e] = voices[f] /\ voices[e] # NoNote
  <2> HIDE DEF g
  <2> QED
    BY <1>5, <1>9
<1> QED
  BY <1>9, <1>10

\* With a card and a free voice, note_on makes the note heard.
LEMMA StruckIsHeard ==
    ASSUME TypeOK, NEW p \in Nat \ {NoNote}, voices' = NoteOn(voices, p), available,
           \E f \in Slot : voices[f] = NoNote
    PROVE  p \in Heard'
<1>1. voices \in [Slot -> Nat]
  BY DEF TypeOK
<1>2. CASE p \in {voices[i] : i \in Slot}
  <2>1. voices' = voices
    BY <1>2 DEF NoteOn
  <2> QED
    BY <1>2, <2>1 DEF Heard
<1>3. CASE p \notin {voices[i] : i \in Slot}
  <2>1. PICK f \in Slot : f = FirstFree(voices)
    BY <1>1, FreeVoice
  <2>2. voices' = [voices EXCEPT ![f] = p]
    BY <1>3, <2>1 DEF NoteOn
  <2>3. voices'[f] = p
    BY <1>1, <2>2
  <2> QED
    BY <2>3 DEF Heard
<1> QED
  BY <1>2, <1>3

\* celebrare starts a score in silence.
LEMMA ScoreStarts ==
    ASSUME TypeOK, Celebrate, voices' = Silent \/ mode' = "prompt"
    PROVE  ScoreInv'
<1>1. CASE mode' = "prompt"
  BY <1>1 DEF ScoreInv
<1>2. CASE mode' # "prompt"
  <2>1. /\ mode' = "strike" /\ score' \in Scores /\ tick' = 0 /\ cursor' = 1 /\ voices' = Silent
        /\ available'
    BY <1>2 DEF Celebrate, Back
  <2>2. Heard' = {}
    BY <2>1 DEF Heard, Silent
  <2>3. ASSUME NEW i \in Sounding' PROVE FALSE
    <3>1. score' \in Seq(Note)
      BY CelebrateType
    <3>2. i \in 1..Len(score') /\ score'[i] \in Note
      BY <3>1 DEF Sounding, DueAt
    <3>3. score'[i].onset \in Nat /\ score'[i].onset <= 0
      BY <2>1, <3>2 DEF Sounding, DueAt, Note
    <3>4. score'[i].onset = tick'
      BY <2>1, <3>3
    <3>5. i < 1
      BY <2>1, <3>4 DEF Sounding
    <3> QED
      BY <3>2, <3>5
  <2>4. \A i, j \in Slot : voices'[i] = NoNote
    BY <2>1 DEF Silent
  <2> QED
    BY <2>1, <2>2, <2>3, <2>4 DEF ScoreInv
<1> QED
  BY <1>1, <1>2

\* An iteration of the loop over the onsets.
LEMMA ScoreStrikes ==
    ASSUME TypeOK, ScoreInv, Strike, \A s \in Scores : Playable(s)
    PROVE  ScoreInv'
<1>1. /\ mode = "strike" /\ available /\ score \in Scores /\ Playable(score)
      /\ \A i, j \in Slot : voices[i] = voices[j] /\ voices[i] # NoNote => i = j
      /\ Heard = {score[i].pitch : i \in Sounding}
  BY DEF Strike, ScoreInv
<1>2. UNCHANGED <<available, score, tick>>
  BY DEF Strike
<1>3. CASE cursor > Len(score)
  <2>1. mode' = "sleep" /\ UNCHANGED <<voices, cursor>>
    BY <1>3, ScoreFacts DEF Strike
  <2>2. Sounding' = Sounding
    <3>1. ASSUME NEW i \in DueAt(score, tick) PROVE i < cursor
      BY <1>3, <3>1, ScoreFacts DEF DueAt
    <3>2. Sounding = DueAt(score, tick)
      BY <1>1, <3>1 DEF Sounding
    <3>3. Sounding' = DueAt(score, tick)
      BY <1>2, <2>1 DEF Sounding
    <3> QED
      BY <3>2, <3>3
  <2>3. Heard' = Heard
    BY <2>1 DEF Heard
  <2> QED
    BY <1>1, <1>2, <2>1, <2>2, <2>3 DEF ScoreInv
<1>4. CASE cursor <= Len(score)
  <2>1. /\ voices' = IF score[cursor].onset = tick THEN NoteOn(voices, score[cursor].pitch)
                     ELSE voices
        /\ cursor' = cursor + 1 /\ mode' = mode
    BY <1>4 DEF Strike
  <2>2. cursor \in DOMAIN score
    BY <1>4, ScoreFacts
  <2>3. CASE score[cursor].onset = tick
    <3> DEFINE p == score[cursor].pitch
    <3>1. p \in Nat \ {NoNote}
      BY <2>2, ScoreFacts
    <3>2. voices' = NoteOn(voices, p)
      BY <2>1, <2>3
    <3>3. \E f \in Slot : voices[f] = NoNote
      BY <1>1, <1>4, <2>3, VoiceForNext
    <3>4. /\ (\A i, j \in Slot : voices[i] = voices[j] /\ voices[i] # NoNote => i = j)'
          /\ Heard' = Heard \/ Heard' = Heard \cup {p}
      <4> HIDE DEF p
      <4> QED
        BY <1>1, <3>1, <3>2, HeardOn
    <3>5. p \in Heard'
      <4> HIDE DEF p
      <4> QED
        BY <1>1, <3>1, <3>2, <3>3, StruckIsHeard
    <3>6. Heard' = Heard \cup {p}
      <4> HIDE DEF p
      <4> QED
        BY <3>4, <3>5
    <3>7. Sounding' = Sounding \cup {cursor}
      <4>1. cursor \in DueAt(score, tick)
        BY <2>2, <2>3, ScoreFacts DEF DueAt
      <4>2. DueAt(score, tick)' = DueAt(score, tick)
        BY <1>2
      <4>3. \A i \in DueAt(score, tick) : i \in Nat /\ (i < cursor' <=> i < cursor \/ i = cursor)
        BY <2>1, ScoreFacts DEF DueAt
      <4> QED
        BY <1>1, <1>2, <2>1, <2>3, <4>1, <4>2, <4>3 DEF Sounding
    <3>8. {score'[i].pitch : i \in Sounding'} = {score[i].pitch : i \in Sounding} \cup {p}
      BY <1>2, <3>7
    <3> QED
      BY <1>1, <1>2, <2>1, <3>4, <3>6, <3>8 DEF ScoreInv
  <2>4. CASE score[cursor].onset # tick
    <3>1. voices' = voices
      BY <2>1, <2>4
    <3>2. Sounding' = Sounding
      <4>1. DueAt(score, tick)' = DueAt(score, tick)
        BY <1>2
      <4>2. \A i \in DueAt(score, tick) : i \in Nat /\ (i # cursor => (i < cursor' <=> i < cursor))
        BY <2>1, ScoreFacts DEF DueAt
      <4> QED
        BY <1>1, <1>2, <2>1, <2>4, <4>1, <4>2 DEF Sounding
    <3>3. Heard' = Heard
      BY <3>1 DEF Heard
    <3> QED
      BY <1>1, <1>2, <2>1, <3>1, <3>2, <3>3 DEF ScoreInv
  <2> QED
    BY <2>3, <2>4
<1> QED
  BY <1>3, <1>4, ScoreFacts

\* The sleep of a tick ends.
LEMMA ScoreWakes ==
    ASSUME TypeOK, ScoreInv, Wakes
    PROVE  ScoreInv'
<1>1. /\ mode = "sleep" /\ mode' = "release" /\ cursor' = 1
      /\ UNCHANGED <<available, score, tick, voices>>
  BY DEF Wakes, sound
<1>2. Sounding' = Sounding
  <2>1. \A i \in DueAt(score, tick) : i >= 1
    BY ScoreFacts DEF DueAt
  <2> QED
    BY <1>1, <2>1 DEF Sounding
<1>3. Heard' = Heard
  BY <1>1 DEF Heard
<1> QED
  BY <1>1, <1>2, <1>3 DEF ScoreInv

\* An iteration of the loop over the ends, and the end of a tick.
LEMMA ScoreLetsGo ==
    ASSUME TypeOK, ScoreInv, LetGo, \A s \in Scores : Playable(s)
    PROVE  ScoreInv'
<1>1. /\ mode = "release" /\ available /\ score \in Scores /\ Playable(score)
      /\ \A i, j \in Slot : voices[i] = voices[j] /\ voices[i] # NoNote => i = j
      /\ Heard = {score[i].pitch : i \in Sounding}
  BY DEF LetGo, ScoreInv
<1>2. UNCHANGED available
  BY DEF LetGo
<1>3. CASE /\ cursor <= Len(score)
           /\ voices' = IF EndsWith(score[cursor], tick) THEN NoteOff(voices, score[cursor].pitch)
                        ELSE voices
           /\ cursor' = cursor + 1 /\ UNCHANGED <<mode, line, tick, score>>
  <2>1. cursor \in DOMAIN score
    BY <1>3, ScoreFacts
  <2>2. DueAt(score, tick)' = DueAt(score, tick)
    BY <1>3
  <2>3. CASE EndsWith(score[cursor], tick)
    <3> DEFINE p == score[cursor].pitch
    <3>1. p \in Nat \ {NoNote}
      BY <2>1, ScoreFacts
    <3>2. voices' = NoteOff(voices, p)
      BY <1>3, <2>3
    <3>3. /\ (\A i, j \in Slot : voices[i] = voices[j] /\ voices[i] # NoNote => i = j)'
          /\ Heard' = Heard \ {p}
      <4> HIDE DEF p
      <4> QED
        BY <1>1, <3>1, <3>2, HeardOff
    <3>4. Sounding' = Sounding \ {cursor}
      <4>1. \A i \in DueAt(score, tick) : i \in Nat /\ (i >= cursor' <=> i >= cursor /\ i # cursor)
        BY <1>3, ScoreFacts DEF DueAt
      <4> QED
        BY <1>1, <1>3, <2>2, <2>3, <4>1 DEF Sounding
    <3>5. ASSUME NEW i \in Sounding, i # cursor PROVE score[i].pitch # p
      <4>1. i \in DOMAIN score /\ score[i].onset <= tick /\ tick < score[i].onset + score[i].dur
        BY DEF Sounding, DueAt
      <4>2. score[cursor].onset <= tick /\ tick < score[cursor].onset + score[cursor].dur
        BY <2>1, <2>3, ScoreFacts DEF EndsWith
      <4>3. ~(\/ score[i].onset + score[i].dur <= score[cursor].onset
              \/ score[cursor].onset + score[cursor].dur <= score[i].onset)
        BY <2>1, <4>1, <4>2, ScoreFacts
      <4> QED
        BY <1>1, <2>1, <3>5, <4>1, <4>3 DEF Playable
    <3>6. {score'[i].pitch : i \in Sounding'} = {score[i].pitch : i \in Sounding} \ {p}
      BY <1>3, <3>4, <3>5
    <3> QED
      BY <1>1, <1>2, <1>3, <3>3, <3>6 DEF ScoreInv
  <2>4. CASE ~EndsWith(score[cursor], tick)
    <3>1. voices' = voices
      BY <1>3, <2>4
    <3>2. Sounding' = Sounding
      <4>1. \A i \in DueAt(score, tick) : i \in Nat /\ (i # cursor => (i >= cursor' <=> i >= cursor))
        BY <1>3, ScoreFacts DEF DueAt
      <4> QED
        BY <1>1, <1>3, <2>2, <2>4, <4>1 DEF Sounding
    <3>3. Heard' = Heard
      BY <3>1 DEF Heard
    <3> QED
      BY <1>1, <1>2, <1>3, <3>1, <3>2, <3>3 DEF ScoreInv
  <2> QED
    BY <2>3, <2>4
<1>4. CASE /\ cursor > Len(score)
           /\ mode' = "strike" /\ tick' = tick + 1 /\ cursor' = 1 /\ UNCHANGED <<line, voices, score>>
  <2>1. ASSUME NEW i \in DOMAIN score PROVE i \in Sounding' <=> i \in Sounding
    <3>1. /\ score[i].onset \in Nat /\ score[i].dur \in Nat \ {0} /\ tick \in Nat /\ cursor \in Nat
          /\ i \in Nat /\ ~(i >= cursor) /\ ~(i < 1)
      BY <1>4, <2>1, ScoreFacts
    <3>2. i \in Sounding <=> score[i].onset <= tick /\ tick + 1 < score[i].onset + score[i].dur
      <4>1. i \in Sounding <=> /\ score[i].onset <= tick /\ tick < score[i].onset + score[i].dur
                               /\ score[i].onset + score[i].dur # tick + 1
        BY <1>1, <2>1, <3>1 DEF Sounding, DueAt, EndsWith
      <4> QED
        BY <3>1, <4>1
    <3>3. i \in Sounding' <=> score[i].onset <= tick /\ tick + 1 < score[i].onset + score[i].dur
      <4>1. i \in Sounding' <=> /\ score[i].onset <= tick + 1 /\ tick + 1 < score[i].onset + score[i].dur
                                /\ score[i].onset # tick + 1
        BY <1>4, <2>1, <3>1 DEF Sounding, DueAt
      <4> QED
        BY <3>1, <4>1
    <3> QED
      BY <3>2, <3>3
  <2>2. Sounding' = Sounding
    <3>1. Sounding \subseteq DOMAIN score
      BY DEF Sounding, DueAt
    <3>2. Sounding' \subseteq DOMAIN score
      BY <1>4 DEF Sounding, DueAt
    <3> QED
      BY <2>1, <3>1, <3>2
  <2>3. Heard' = Heard
    BY <1>4 DEF Heard
  <2> QED
    BY <1>1, <1>2, <1>4, <2>2, <2>3 DEF ScoreInv
<1>5. CASE mode' = "prompt"
  BY <1>5 DEF ScoreInv
<1> QED
  BY <1>3, <1>4, <1>5 DEF LetGo, Back

LEMMA ScoreNext ==
    ASSUME \A s \in Scores : Playable(s)
    PROVE  IInv /\ ScoreInv /\ [Next]_vars => ScoreInv'
<1> SUFFICES ASSUME IInv, ScoreInv, [Next]_vars PROVE ScoreInv'
  OBVIOUS
<1>1. TypeOK /\ SourceInv
  BY DEF IInv
<1>2. ASSUME mode' \notin {"strike", "sleep", "release"} PROVE ScoreInv'
  BY <1>2 DEF ScoreInv
<1>3. ASSUME UNCHANGED <<mode, available, score, tick, cursor, voices>> PROVE ScoreInv'
  BY <1>3 DEF ScoreInv, Sounding, Heard
<1>4. ASSUME NEW k \in Keys, Press(k) \/ Release(k) PROVE ScoreInv'
  BY <1>3, <1>4, NoFingers
<1>5. CASE PromptKey
  <2>1. voices = Silent
    BY <1>1, <1>5 DEF PromptKey, SourceInv, SilentPrompt
  <2>2. CASE Celebrate /\ UNCHANGED <<sound, playing, ghost>>
    BY <1>1, <2>1, <2>2, ScoreStarts DEF sound
  <2>3. CASE mode' \notin {"strike", "sleep", "release"}
    BY <1>2, <2>3
  <2> QED
    BY <1>5, <2>2, <2>3 DEF PromptKey, Execute, TakeUp, Back, NextToken
<1>6. CASE ScoreKey
  <2>1. voices' = Silent
    BY <1>1, <1>6 DEF ScoreKey, SourceInv, SilentPrompt, sound
  <2>2. CASE Celebrate
    BY <1>1, <2>1, <2>2, ScoreStarts
  <2>3. CASE mode' = mode
    BY <1>2, <1>6, <2>3 DEF ScoreKey
  <2> QED
    BY <1>6, <2>2, <2>3 DEF ScoreKey
<1>7. CASE TranscribeKey
  <2>1. CASE Quiet /\ Celebrate
    <3>1. mode' = "prompt" \/ available
      BY <2>1 DEF Celebrate, Back
    <3>2. voices' = Silent \/ mode' = "prompt"
      BY <2>1, <3>1 DEF Quiet
    <3> QED
      BY <1>1, <2>1, <3>2, ScoreStarts
  <2>2. CASE mode' \in {mode, "prompt"}
    BY <1>2, <1>7, <2>2 DEF TranscribeKey
  <2> QED
    BY <1>7, <2>1, <2>2 DEF TranscribeKey, TranscribeDown, TranscribeUp, Back, shell
<1>8. CASE Strike
  BY <1>1, <1>8, ScoreStrikes
<1>9. CASE Wakes
  BY <1>1, <1>9, ScoreWakes
<1>10. CASE LetGo
  BY <1>1, <1>10, ScoreLetsGo
<1>11. CASE PianoKey \/ OrganKey \/ ToneEnds \/ GapEnds
  <2>1. mode' \in {"piano", "organ", "prompt", "gap", "note"}
    BY <1>11 DEF PianoKey, PianoDown, PianoUp, OrganKey, ToneEnds, GapEnds, NextToken, Back
  <2> QED
    BY <1>2, <2>1
<1>12. CASE UNCHANGED vars
  BY <1>3, <1>12 DEF vars, shell, sound, walk
<1> QED
  BY <1>4, <1>5, <1>6, <1>7, <1>8, <1>9, <1>10, <1>11, <1>12 DEF Next, Fingers, ShellStep

\* Every note of every score sounds for the whole of its duration, if no two
\* notes of one pitch overlap and no more notes sound at once than there are
\* voices (play of celebrare.rs, note_on and note_off of ac97.rs).
THEOREM PlayableScoresSoundInFull ==
    ASSUME \A s \in Scores : Playable(s)
    PROVE  Spec => []NotesSoundInFull
<1>1. Init => ScoreInv
  BY DEF Init, ScoreInv
<1>2. IInv /\ ScoreInv /\ [Next]_vars => ScoreInv'
  BY ScoreNext
<1>3. ScoreInv => NotesSoundInFull
  <2> SUFFICES ASSUME ScoreInv, mode = "sleep", NEW i \in DueAt(score, tick)
               PROVE  score[i].pitch \in Heard
    BY DEF NotesSoundInFull
  <2>1. i \in Sounding
    BY DEF Sounding
  <2> QED
    BY <2>1 DEF ScoreInv
<1> QED
  BY <1>1, <1>2, <1>3, InductiveInvariant, PTL DEF Spec

=============================================================================
