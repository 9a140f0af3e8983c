CONSTANTS
    UIP_CONNS = 1
    MaxSend = 2
    Mss = {1}
    Requests = {"post"}
    FileKinds <- Firmware
    MaxUploads = 1
    MaxSeg = 3
    PageLen = 2
    PollLimit = 0
    UbootMax = 2
    ArtSize = 2
    MibibSize = 2
    EthRx = {0}
    Board = "nor"
    Outcomes = {TRUE}
    FirmwareMax = 2
SPECIFICATION LoopSpec
CHECK_DEADLOCK FALSE
PROPERTY TimersRun
