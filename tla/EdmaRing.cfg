SPECIFICATION FairSpec
CONSTANTS
    RxCount = 4
    TxCount = 4
    RxBudget = 4
    MaxFrames = 9
    MaxSends = 6
INVARIANTS TypeOK FrameIntact RecvDrains
PROPERTIES SentInOrder 
