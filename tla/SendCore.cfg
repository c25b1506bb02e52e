SPECIFICATION Spec
CONSTANTS
    a = a
    b = b
    Sends <- TwoSends
    Via <- None
    Seqs <- ThreeSeqs
    Typed <- None
    Answers <- None
    MaxPress = 1
    MaxStop = 0
    MaxCrash = 1
    MaxFail = 1
    MaxOther = 1
    MaxRestore = 0
INVARIANTS WordsKept RunsOncePerAct WaitingNotGiven OneStart
PROPERTIES OrderKept OneLine KeepsPromise
