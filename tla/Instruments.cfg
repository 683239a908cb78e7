SPECIFICATION MCSpec
CONSTANTS
    Keys <- MCKeys
    QUEUE_SIZE = 2
    MAX_VOICES = 2
    Commands <- MCCommands
    Scores <- MCScores
    MaxTyped = 2
INVARIANTS
    SilentPrompt
    SoundFollowsKeys
    NoStuckNote
    NotesSoundInFull
