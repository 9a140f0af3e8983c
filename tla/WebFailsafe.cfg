CONSTANTS
    UIP_CONNS = 2
    MaxSend = 2
    Mss = {1}
    Requests = {"post", "get", "reset"}
    FileKinds <- Images
    MaxUploads = 1
    MaxSeg = 3
    PageLen = 2
    PollLimit = 0
    UbootMax = 2
    ArtSize = 2
    MibibSize = 2
    EthRx = {0, 1}
    Board = "dk04"
    Outcomes = {TRUE, FALSE}
    FirmwareMax = 2
SPECIFICATION LoopSpec
CHECK_DEADLOCK FALSE
INVARIANTS LoopTypeOK 
PROPERTY UpgradeEnds
