SPECIFICATION CSpec
CONSTANTS
    F64 <- MCF64
    Holds <- MCHolds
    Verses <- NoVerses
    Args <- NoArgs
    Env <- Meteor
    FUEL_SLICE = 11
    MAX_SLICES = 9
    Scores <- MCOffices
    Bodies <- Procession
    Passes <- MCPasses
    Means <- MCMeans
INVARIANTS
    SinkIsOwed
PROPERTY OfficeEnds
