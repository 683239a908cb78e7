---------------------------- MODULE Instruments ----------------------------
(***************************************************************************)
(* The shell's line editor and instruments (kernel/src/task/shell.rs), the *)
(* voices of the AC'97 synth (ac97.rs), the PC speaker (speaker.rs) and    *)
(* the walk of a rendered score (celebrare.rs).  Fingers press and release *)
(* keys at any time; the shell reads the events later, from a queue that   *)
(* drops what does not fit, and whichever instrument runs then gets them.  *)
(***************************************************************************)
EXTENDS Integers, Sequences, FiniteSets

CONSTANTS
    Keys,        \* the keys on the keyboard: letters, "esc", "ret" and "bsp"
    QUEUE_SIZE,  \* capacity of the scancode queue (100)
    MAX_VOICES,  \* voices of the synth (8)
    Commands,    \* what the shell does for a line, a function on the command lines
    Scores,      \* the event lists celebrare may have to play
    MaxTyped     \* bound: letters typed or played and not yet disposed of

NoNote == 0
NoKey == "none"

\* key_midi: the manual.
KeyMidi ==
    [z |-> 48, x |-> 50, c |-> 52, v |-> 53, b |-> 55, n |-> 57, m |-> 59,
     a |-> 60, w |-> 61, s |-> 62, e |-> 63, d |-> 64, f |-> 65, t |-> 66,
     g |-> 67, y |-> 68, h |-> 69, u |-> 70, j |-> 71, k |-> 72,
     o |-> 73, l |-> 74, p |-> 75]
Letters == Keys \cap DOMAIN KeyMidi

Event == [key : Keys, down : BOOLEAN]
Note == [pitch : Nat \ {NoNote}, onset : Nat, dur : Nat \ {0}]
Slot == 1..MAX_VOICES
Instrument == {"piano", "organ", "transcribe"}

ASSUME InstrumentsAssumption ==
    /\ QUEUE_SIZE \in Nat /\ MAX_VOICES \in Nat
    /\ Scores \subseteq Seq(Note)

VARIABLES
    mode,       \* what the shell task is doing
    line,       \* the line being edited at the prompt
    draft,      \* the line being edited by read_score
    available,  \* an AC'97 card was found at boot
    tone,       \* the pitch the speaker sounds
    voices,     \* the pitches of the synth's voices
    sounding,   \* piano: the key the speaker sounds for
    played,     \* transcribe: the phrase so far
    score, tick, cursor, \* play: the events, t, and the event a loop has reached
    held,       \* the letters that are physically down
    queue,      \* SCANCODE_QUEUE, decoded
    lost,       \* history: letters whose last release did not fit into the queue
    pressed,    \* history: letters the instrument saw go down and not up
    crowded     \* history: note_on found no free voice while letters were down

shell == <<mode, line, draft, available>>
sound == <<tone, voices>>
playing == <<sounding, played>>
walk == <<score, tick, cursor>>
fingers == <<held, queue, lost>>
ghost == <<pressed, crowded>>
vars == <<shell, sound, playing, walk, fingers, ghost>>

TypeOK ==
    /\ mode \in {"prompt", "score", "beep", "note", "gap", "strike", "sleep", "release"} \cup Instrument
    /\ line \in Seq(Letters) /\ draft \in Seq(Letters)
    /\ available \in BOOLEAN
    /\ tone \in Nat
    /\ voices \in [Slot -> Nat]
    /\ sounding \in Letters \cup {NoKey} /\ played \in Seq(Nat)
    /\ score \in Seq(Note) /\ tick \in Nat /\ cursor \in Nat \ {0}
    /\ held \subseteq Letters /\ queue \in Seq(Event) /\ lost \subseteq Letters
    /\ pressed \subseteq Letters /\ crowded \in BOOLEAN

Silent == [i \in Slot |-> NoNote]
Heard == {voices[i] : i \in Slot} \ {NoNote}

Init ==
    /\ mode = "prompt" /\ line = <<>> /\ draft = <<>>
    /\ available \in BOOLEAN
    /\ tone = NoNote /\ voices = Silent
    /\ sounding = NoKey /\ played = <<>>
    /\ score = <<>> /\ tick = 0 /\ cursor = 1
    /\ held = {} /\ queue = <<>> /\ lost = {}
    /\ pressed = {} /\ crowded = FALSE

----------------------------------------------------------------------------
(* The keyboard and its interrupt.                                         *)

Down(k) == [key |-> k, down |-> TRUE]
Up(k) == [key |-> k, down |-> FALSE]

\* Mutant: a full queue gives up its oldest event.
PushOver(ev) ==
    /\ queue' = Append(IF Len(queue) < QUEUE_SIZE THEN queue ELSE Tail(queue), ev)
    /\ lost' = lost \ {ev.key}

\* drain_controller: an event that does not fit is dropped.
Push(ev) ==
    /\ queue' = IF Len(queue) < QUEUE_SIZE THEN Append(queue, ev) ELSE queue
    /\ lost' = IF ev.down \/ ev.key \notin Letters THEN lost
               ELSE IF Len(queue) < QUEUE_SIZE THEN lost \ {ev.key} ELSE lost \cup {ev.key}

Pending == {i \in DOMAIN queue : queue[i].down /\ queue[i].key \in Letters}
Typed ==
    Cardinality(Pending) + CASE mode = "prompt" -> Len(line)
                             [] mode = "score" -> Len(draft)
                             [] mode = "transcribe" -> Len(played)
                             [] OTHER -> 0

\* A key goes down, or repeats while it is down.  Who is holding down which
\* of the other keys does not matter.
Press(k) ==
    /\ k \in Letters => Typed < MaxTyped
    /\ held' = held \cup ({k} \cap Letters)
    /\ Push(Down(k))
    /\ UNCHANGED <<shell, sound, playing, walk, ghost>>

Release(k) ==
    /\ k \in Letters => k \in held
    /\ held' = held \ {k}
    /\ Push(Up(k))
    /\ UNCHANGED <<shell, sound, playing, walk, ghost>>

Fingers == \E k \in Keys : Press(k) \/ Release(k)

\* The shell takes the next event.
Pop(ev) ==
    /\ queue # <<>>
    /\ ev = Head(queue)
    /\ queue' = Tail(queue)
    /\ UNCHANGED <<held, lost>>

----------------------------------------------------------------------------
(* The synth's voices.                                                     *)

FirstFree(v) == CHOOSE i \in Slot : v[i] = NoNote /\ \A j \in 1..(i - 1) : v[j] # NoNote

\* A note that sounds is retriggered, one that finds no free voice dropped.
NoteOn(v, p) ==
    IF available /\ p \notin {v[i] : i \in Slot} /\ \E i \in Slot : v[i] = NoNote
    THEN [v EXCEPT ![FirstFree(v)] = p] ELSE v

NoteOff(v, p) == [i \in Slot |-> IF v[i] = p THEN NoNote ELSE v[i]]

\* Mutant: quiet forgets the synth.
QuietSpeaker == tone' = NoNote /\ UNCHANGED voices

\* quiet(poly); poly is the availability of the card.
Quiet ==
    IF available THEN voices' = Silent /\ UNCHANGED tone
    ELSE tone' = NoNote /\ UNCHANGED voices

----------------------------------------------------------------------------
(* Commands.                                                               *)

Back == mode' = "prompt" /\ line' = <<>>

\* celebrare: a score that is unknown, unparsable or discordant is refused
\* before a note sounds; without a card, or without events, none does.
Celebrate ==
    /\ \/ Back /\ UNCHANGED walk
       \/ \E s \in Scores :
             /\ available /\ s # <<>>
             /\ mode' = "strike" /\ score' = s /\ tick' = 0 /\ cursor' = 1
             /\ UNCHANGED line
    /\ UNCHANGED <<draft, available>>

TakeUp(instrument) ==
    /\ mode' = instrument
    /\ sounding' = NoKey /\ played' = <<>>
    /\ pressed' = {} /\ crowded' = FALSE
    /\ UNCHANGED <<line, draft, available, sound, walk>>

\* play <notes>: the next note sounds, or the notes end, or one is bad.
NextToken ==
    /\ \/ mode' = "note" /\ tone' \in {KeyMidi[k] : k \in Letters} /\ UNCHANGED line
       \/ Back /\ UNCHANGED tone
    /\ UNCHANGED <<draft, available, voices, playing, walk, ghost>>

\* An entered line: the instruments and the score reader of run, then execute.
Execute(command) ==
    \/ command \in {"piano", "transcribe"} /\ TakeUp(command)
    \/ command = "organ" /\ available /\ TakeUp("organ")
    \/ command = "organ" /\ ~available /\ Back
         /\ UNCHANGED <<draft, available, sound, playing, walk, ghost>>
    \/ command = "celebrare -"
         /\ mode' = "score" /\ draft' = <<>>
         /\ UNCHANGED <<line, available, sound, playing, walk, ghost>>
    \/ command = "celebrare" /\ Celebrate /\ UNCHANGED <<sound, playing, ghost>>
    \/ command = "beep"
         /\ mode' = "beep" /\ tone' \in {KeyMidi[k] : k \in Letters}
         /\ UNCHANGED <<line, draft, available, voices, playing, walk, ghost>>
    \/ command = "play" /\ NextToken
    \/ command = "other" /\ Back
         /\ UNCHANGED <<draft, available, sound, playing, walk, ghost>>

\* The character the decoder makes of a key edits a line; releases and
\* control characters make none.
Edited(l, ev) ==
    CASE ev.down /\ ev.key \in Letters -> Append(l, ev.key)
      [] ev.down /\ ev.key = "bsp" /\ l # <<>> -> SubSeq(l, 1, Len(l) - 1)
      [] OTHER -> l

\* run, at the prompt.
PromptKey ==
    /\ mode = "prompt"
    /\ \E ev \in Event :
          /\ Pop(ev)
          /\ \/ ev = Down("ret")
                /\ Execute(IF line \in DOMAIN Commands THEN Commands[line] ELSE "other")
             \/ ev # Down("ret")
                /\ line' = Edited(line, ev)
                /\ UNCHANGED <<mode, draft, available, sound, playing, walk, ghost>>

\* read_score: an empty line ends the score, which is then celebrated.
ScoreKey ==
    /\ mode = "score"
    /\ UNCHANGED <<sound, playing, ghost>>
    /\ \E ev \in Event :
          /\ Pop(ev)
          /\ \/ ev = Down("ret") /\ draft = <<>> /\ Celebrate
             \/ ev = Down("ret") /\ draft # <<>> /\ draft' = <<>>
                  /\ UNCHANGED <<mode, line, available, walk>>
             \/ ev # Down("ret") /\ draft' = Edited(draft, ev)
                  /\ UNCHANGED <<mode, line, available, walk>>

\* The sleeps of beep and play end.
ToneEnds ==
    /\ mode \in {"beep", "note"}
    /\ tone' = NoNote
    /\ \/ mode = "beep" /\ Back
       \/ mode = "note" /\ mode' = "gap" /\ UNCHANGED line
    /\ UNCHANGED <<draft, available, voices, playing, walk, fingers, ghost>>
GapEnds == mode = "gap" /\ NextToken /\ UNCHANGED fingers

----------------------------------------------------------------------------
(* The instruments.                                                        *)

\* What the player has under the fingers, as the instrument saw it.
Follow(ev) ==
    LET down == IF ev.key \notin Letters THEN pressed
                ELSE IF ev.down THEN pressed \cup {ev.key} ELSE pressed \ {ev.key}
    IN IF mode' # mode THEN pressed' = {} /\ crowded' = FALSE
       ELSE /\ pressed' = down
            /\ crowded' = (down # {} /\ (crowded \/ \E k \in down \ pressed : KeyMidi[k] \notin Heard'))

\* Mutant: the key that stopped sounding is not forgotten.
PianoUpStale(ev) ==
    /\ ~ev.down
    /\ tone' = IF sounding = ev.key THEN NoNote ELSE tone
    /\ UNCHANGED <<sounding, mode, line>>

PianoUp(ev) ==
    /\ ~ev.down
    /\ IF sounding = ev.key THEN tone' = NoNote /\ sounding' = NoKey
       ELSE UNCHANGED <<tone, sounding>>
    /\ UNCHANGED <<mode, line>>

PianoDown(ev) ==
    /\ ev.down
    /\ \/ ev.key = "esc" /\ tone' = NoNote /\ Back /\ sounding' = NoKey
       \/ ev.key \in Letters /\ tone' = KeyMidi[ev.key] /\ sounding' = ev.key
            /\ UNCHANGED <<mode, line>>
       \/ ev.key \notin Letters \cup {"esc"} /\ UNCHANGED <<tone, sounding, mode, line>>

PianoKey ==
    /\ mode = "piano"
    /\ \E ev \in Event :
          /\ Pop(ev)
          /\ PianoDown(ev) \/ PianoUp(ev)
          /\ UNCHANGED <<draft, available, voices, played, walk>>
          /\ Follow(ev)

OrganKey ==
    /\ mode = "organ"
    /\ \E ev \in Event :
          /\ Pop(ev)
          /\ \/ ev = Down("esc") /\ voices' = Silent /\ Back
             \/ ev.key \in Letters /\ UNCHANGED <<mode, line>>
                  /\ voices' = IF ev.down THEN NoteOn(voices, KeyMidi[ev.key])
                               ELSE NoteOff(voices, KeyMidi[ev.key])
             \/ ev.key \notin Letters /\ ev # Down("esc") /\ UNCHANGED <<mode, line, voices>>
          /\ UNCHANGED <<draft, available, tone, playing, walk>>
          /\ Follow(ev)

\* Without the card, any release stops the tone.
TranscribeUp(ev) ==
    /\ ~ev.down /\ ev.key \in Letters
    /\ IF available THEN voices' = NoteOff(voices, KeyMidi[ev.key]) /\ UNCHANGED tone
       ELSE tone' = NoNote /\ UNCHANGED voices
    /\ UNCHANGED <<mode, line, played, walk>>

TranscribeDown(ev) ==
    /\ ev.down /\ ev.key \in Letters
    /\ played' = Append(played, KeyMidi[ev.key])
    /\ IF available THEN voices' = NoteOn(voices, KeyMidi[ev.key]) /\ UNCHANGED tone
       ELSE tone' = KeyMidi[ev.key] /\ UNCHANGED voices
    /\ UNCHANGED <<mode, line, walk>>

\* Escape abandons the phrase; enter transcribes it, and celebrates the verse
\* unless the phrase is none.
TranscribeKey ==
    /\ mode = "transcribe"
    /\ \E ev \in Event :
          /\ Pop(ev)
          /\ \/ ev = Down("esc") /\ Quiet /\ Back /\ played' = <<>> /\ UNCHANGED <<draft, available, walk>>
             \/ ev = Down("ret") /\ Quiet /\ Celebrate /\ played' = <<>>
             \/ (TranscribeDown(ev) \/ TranscribeUp(ev)) /\ UNCHANGED <<draft, available>>
             \/ ev.key \notin Letters /\ ev \notin {Down("esc"), Down("ret")}
                  /\ UNCHANGED <<shell, sound, played, walk>>
          /\ UNCHANGED sounding
          /\ Follow(ev)

----------------------------------------------------------------------------
(* play of celebrare.rs, one step per iteration of its loops.              *)

End(s) == CHOOSE e \in {s[i].onset + s[i].dur : i \in DOMAIN s} :
            \A i \in DOMAIN s : s[i].onset + s[i].dur <= e

\* The notes whose onset is t are struck, in the order of the list.
Strike ==
    /\ mode = "strike"
    /\ IF cursor <= Len(score)
       THEN /\ voices' = IF score[cursor].onset = tick THEN NoteOn(voices, score[cursor].pitch)
                         ELSE voices
            /\ cursor' = cursor + 1 /\ UNCHANGED mode
       ELSE mode' = "sleep" /\ UNCHANGED <<voices, cursor>>
    /\ UNCHANGED <<line, draft, available, tone, playing, score, tick, fingers, ghost>>

Wakes ==
    /\ mode = "sleep"
    /\ mode' = "release" /\ cursor' = 1
    /\ UNCHANGED <<line, draft, available, sound, playing, score, tick, fingers, ghost>>

\* Mutant: a note is released with the tick in which it still sounds.
EndsEarly(n, t) == n.onset + n.dur = t + 2
EndsWith(n, t) == n.onset + n.dur = t + 1

\* The notes that end with this tick are released; after the last tick
\* everything is.
LetGo ==
    /\ mode = "release"
    /\ \/ /\ cursor <= Len(score)
          /\ voices' = IF EndsWith(score[cursor], tick) THEN NoteOff(voices, score[cursor].pitch)
                       ELSE voices
          /\ cursor' = cursor + 1 /\ UNCHANGED <<mode, line, tick, score>>
       \/ /\ cursor > Len(score) /\ tick + 1 < End(score)
          /\ mode' = "strike" /\ tick' = tick + 1 /\ cursor' = 1 /\ UNCHANGED <<line, voices, score>>
       \/ /\ cursor > Len(score) /\ tick + 1 >= End(score)
          /\ voices' = Silent /\ Back /\ score' = <<>> /\ tick' = 0 /\ cursor' = 1
    /\ UNCHANGED <<draft, available, tone, playing, fingers, ghost>>

----------------------------------------------------------------------------
ShellStep ==
    \/ PromptKey \/ ScoreKey \/ PianoKey \/ OrganKey \/ TranscribeKey
    \/ ToneEnds \/ GapEnds \/ Strike \/ Wakes \/ LetGo

Next == Fingers \/ ShellStep

Spec == Init /\ [][Next]_vars

----------------------------------------------------------------------------
(* Properties.                                                             *)

\* Whatever the shell did last and whatever the queue dropped, nothing sounds
\* once a command has returned, while a score is typed, or between two notes.
SilentPrompt ==
    mode \in {"prompt", "score", "gap"} => tone = NoNote /\ voices = Silent

OnTheSynth == mode = "organ" \/ (mode = "transcribe" /\ available)

\* The synth plays the chord under the fingers as far as its events have been
\* read: one voice per note, a voice for pressed keys only, and for all of
\* them unless the chord outgrew the voices (note_on, note_off).
VoicesAreTheChord ==
    OnTheSynth =>
        /\ \A i, j \in Slot : voices[i] = voices[j] /\ voices[i] # NoNote => i = j
        /\ Heard \subseteq {KeyMidi[k] : k \in pressed}
        /\ crowded \/ Heard = {KeyMidi[k] : k \in pressed}

\* The speaker sounds for a key that is down: on the piano for the one that
\* took it over last, in transcribe for the last note of the phrase.
SpeakerFollowsNewest ==
    /\ mode = "piano" =>
          IF sounding = NoKey THEN tone = NoNote
          ELSE sounding \in pressed /\ tone = KeyMidi[sounding]
    /\ mode = "transcribe" /\ tone # NoNote =>
          /\ played # <<>> /\ tone = played[Len(played)]
          /\ \E k \in pressed : KeyMidi[k] = tone

\* On the synth and on the speaker, in the piano, the organ and transcribe,
\* the sound follows the keys in the order in which their events are read.
SoundFollowsKeys == VoicesAreTheChord /\ SpeakerFollowsNewest

\* A note does not get stuck: in an instrument, what sounds sounds for a key
\* that is still held, or whose release is on its way, or was dropped by the
\* full queue.
NoStuckNote ==
    mode \in Instrument =>
        \A p \in Heard \cup ({tone} \ {NoNote}) :
            \E k \in Letters :
                /\ KeyMidi[k] = p
                /\ k \in held \cup lost \/ \E i \in DOMAIN queue : queue[i] = Up(k)

\* The notes of a score that sound in a tick.
DueAt(s, t) == {i \in DOMAIN s : s[i].onset <= t /\ t < s[i].onset + s[i].dur}

\* Every note of a score sounds for the whole of its duration.
NotesSoundInFull ==
    mode = "sleep" => \A i \in DueAt(score, tick) : score[i].pitch \in Heard

\* What a score must be like for that: play has one voice per pitch, so notes
\* of one pitch must not overlap, and no more notes may sound at once than
\* there are voices.
Playable(s) ==
    /\ \A i, j \in DOMAIN s :
          i # j /\ s[i].pitch = s[j].pitch =>
              s[i].onset + s[i].dur <= s[j].onset \/ s[j].onset + s[j].dur <= s[i].onset
    /\ \A i \in DOMAIN s : Cardinality(DueAt(s, s[i].onset)) <= MAX_VOICES

=============================================================================
