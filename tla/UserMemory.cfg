CHECK_DEADLOCK FALSE
SPECIFICATION Spec
CONSTANTS
    MemoryMaps <- MCMaps
    HEAP_PAGES = 2
    RING_FRAMES = 3
    MAX_TRIES = 6
    LEVELS = 2
    MaxFrames = 11
    Retries = 3
INVARIANTS
    FramesAreExclusive
    RingThreeIsMapped
    NeverMapsTwice
