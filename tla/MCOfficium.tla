----------------------------- MODULE MCOfficium -----------------------------
(***************************************************************************)
(* One run over all of officium-core and officium-audio: every performance *)
(* is a verse sung to an argument by the machine.  The verses of effects   *)
(* and the scores compare it with the reference semantics, the tuneful     *)
(* ones with the checker, and the transcripts with the melody they are.    *)
(***************************************************************************)
EXTENDS MCChecker, MCCantus

MCVerses == MCEffects \cup MCScores \cup MCTuneful \cup MCTranscripts
MCAllArgs == MCArgs \cup MCTuneArgs

Performances ==
    (MCEffects \X MCArg) \cup (MCScores \X MCArgs)
      \cup (MCTuneful \X MCTuneArgs) \cup (MCTranscripts \X MCZero)

\* The fugues of meteor.off together with the fugue of a transcript.
MCEnv == [list \in DOMAIN Meteor |-> Meteor[list] \o MCOrganum[list]]

MCInit == \E p \in Performances : verse = p[1] /\ arg = p[2] /\ Init

\* Machine's Spec, for the performances.
MCSpec == MCInit /\ [][Next]_vars
=============================================================================
