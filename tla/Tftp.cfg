CONSTANTS
    Protocols = {"get", "put"}
    Blocks = 3
    LastLen = 0
    SeqMod = 5
    Tids = {1, 2}
    MaxStarts = 2
    MaxBlock = 4
    TIMEOUT_COUNT = 10
SPECIFICATION Spec
INVARIANTS TypeOK GetIntact PutFileWhole
CHECK_DEADLOCK FALSE
