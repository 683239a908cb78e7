SPECIFICATION FairSpec
CONSTANTS
    BDL_ENTRIES = 6
    BUFFERS = 3
    Burst = 5
INVARIANTS
    TypeOK
    LagIsExact
    NoRefillLost
    QuietIsUpToDate
PROPERTIES
    DmaRestarts
    PagesAreRefilled
