SPECIFICATION Spec
CONSTANTS
    QueueCap = 100
    ScanCap = 1
    Buffers = {}
    MaxSleep = 1
    MaxTicks = 0
    FifoCap = 1
    MaxAwaits = 0
INVARIANT TaskQueueNeverFull
