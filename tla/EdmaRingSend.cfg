SPECIFICATION Spec
CONSTANTS
    RxCount = 4
    TxCount = 4
    RxBudget = 4
    MaxFrames = 9
    MaxSends = 6
INVARIANT SendAgain
