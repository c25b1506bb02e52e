SPECIFICATION Spec
CONSTANTS
    a = a
    b = b
    Sends <- TwoSends
    Via <- None
    Seqs <- ThreeSeqs
    Typed <- OnlyB
    Answers <- None
    MaxPress = 1
    MaxStop = 1
    MaxCrash = 1
    MaxFail = 0
    MaxOther = 0
    MaxRestore = 1
INVARIANTS TypeOK ParkedStays Visible NobodyStranded
PROPERTIES HeldNeedsNewPress
