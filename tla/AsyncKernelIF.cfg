SPECIFICATION Spec
CONSTANTS
    QueueCap = 100
    ScanCap = 100
    Buffers = {}
    MaxSleep = 1
    MaxTicks = 1
    FifoCap = 2
    MaxAwaits = 500
INVARIANT InterruptsOnBetweenPolls
