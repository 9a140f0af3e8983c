CONSTANTS
    UIP_CONNS = 2
    MaxSend = 1
    Mss = {1}
    Requests = {"post", "get_macrw", "rest"}
    FileKinds <- Firmware
    MaxUploads = 2
    MaxSeg = 3
    PageLen = 1
    PollLimit = 0
    UbootMax = 2
    ArtSize = 2
    MibibSize = 2
SPECIFICATION Spec
CHECK_DEADLOCK FALSE
INVARIANTS BoundaryThere FlashingMeansWhole
