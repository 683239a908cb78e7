SPECIFICATION MCSpec
CONSTANTS
    F64 <- MCF64
    Holds <- MCHolds
    Verses <- MCVerses
    Args <- MCAllArgs
    Env <- MCEnv
    FUEL_SLICE = 4
    MAX_SLICES = 25
    LINES = 4
INVARIANTS
    TypeOK
    DepthIsLifts
    LayersMatch
    AgreesWithReference
    CommitIsConsecrated
    AcceptedVersesStayInTune
    RefusesOnlyIllTyped
    RhymesAgree
    RenderReadsBack
    PlainSkeletonsRun
