SPECIFICATION FairSpec
CONSTANTS
    QueueCap = 3
    ScanCap = 1
    Buffers = {}
    MaxSleep = 1
    MaxTicks = 1
    FifoCap = 1
    MaxAwaits = 1
PROPERTIES
    KeyIsRead
    SleepEnds
    StrandedBytesDrained
