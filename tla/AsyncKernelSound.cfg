SPECIFICATION FairSpec
CONSTANTS
    QueueCap = 3
    ScanCap = 1
    Buffers = {p1}
    MaxSleep = 1
    MaxTicks = 0
    FifoCap = 1
    MaxAwaits = 1
PROPERTIES
    RefillIsTaken
