SPECIFICATION Spec
CONSTANTS
    a = a
    b = b
    Sends <- TwoSends
    Via <- None
    Seqs <- TwoSeqs
    Typed <- None
    Answers <- None
    MaxPress = 0
    MaxStop = 1
    MaxCrash = 1
    MaxFail = 0
    MaxOther = 2
    MaxRestore = 0
INVARIANTS StoppedNeverRuns
