SPECIFICATION Spec
CONSTANTS
    QueueCap = 3
    ScanCap = 1
    Buffers = {p1}
    MaxSleep = 2
    MaxTicks = 2
    FifoCap = 1
    MaxAwaits = 1
INVARIANTS
    TypeOK
    NoLostWakeup
    ParkedIsArmed
    HaltOnlyIdle
PROPERTY ImplementsScheduler
