SPECIFICATION FairSpec
CONSTANTS
    c1 = c1
    c2 = c2
    p = p
    a = a
    Calls <- OneCall
    Phones <- OnePhone
    Bots <- OneBot
    BotOf <- OfA
    OwnBot = a
    Marked <- OnlyC
    Visible <- OnlyC
    Bounds <- Wires
    Most = 2
INVARIANTS WhoRangIsTold
PROPERTIES RingsInTime LandedStays Ends
