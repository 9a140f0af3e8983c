CONSTANTS
    UIP_CONNS = 2
    MaxSend = 4
    Mss = {2}
    Requests = {"get", "junk", "reset", "post"}
    FileKinds <- GoodAndBad
    MaxUploads = 1
    MaxSeg = 3
    PageLen = 4
    PollLimit = 1
    UbootMax = 2
    ArtSize = 2
    MibibSize = 2
SPECIFICATION Spec
CHECK_DEADLOCK FALSE
INVARIANTS TypeOK ImageIntact  FailMeansBadFile
PROPERTIES FlashingMeansUpgrade WholePageSent
