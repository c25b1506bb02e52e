SPECIFICATION Spec
CONSTANTS
    t = t
    u = u
    v = v
    Tasks <- ThreeTasks
    AuthOf <- Same
    MaxAttempts = 2
    MaxWakes = 2
    MaxResults = 2
    Bounds <- Faults
    Most = 2
SYMMETRY Alike
INVARIANTS TypeOK WokenOnce OneCarrier TriesBounded NothingLost
PROPERTIES GoneStaysGone
