SPECIFICATION FairSpec
CONSTANTS
    a = a
    b = b
    Sends <- TwoSends
    Via <- OnlyB
    Seqs <- TwoSeqs
    Typed <- None
    Answers <- OnlyB
    MaxPress = 0
    MaxStop = 0
    MaxCrash = 1
    MaxFail = 0
    MaxOther = 2
    MaxRestore = 0
PROPERTIES OrderKept Resolves
