SPECIFICATION Spec
CONSTANTS
    a = a
    b = b
    Sends <- OneSend
    Via <- None
    Seqs <- TwoSeqs
    Typed <- None
    Answers <- None
    MaxPress = 0
    MaxStop = 0
    MaxCrash = 0
    MaxFail = 2
    MaxOther = 1
    MaxRestore = 0
INVARIANTS RunsOncePerAct
