CHECK_DEADLOCK FALSE
SPECIFICATION Spec
CONSTANTS
    F64 <- NoF64
    Holds <- NoHolds
    MAX_EXPR_DEPTH = 7
    Numbers <- MCNumbers
    Texts <- MCTexts
    Scores <- MCScores
INVARIANTS
    ReadsBack
    LayoutIsInert
    AcceptsOnlyPrograms
