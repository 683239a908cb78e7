SPECIFICATION Spec
CONSTANTS
    WIDTH = 3
    HEIGHT = 2
    Messages <- MCMessages
    MaxPrinted = 8
INVARIANTS TypeOK LockIsSafe ShowsTheEnd
