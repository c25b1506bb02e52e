SPECIFICATION Spec
CONSTANTS
    c1 = c1
    c2 = c2
    p = p
    a = a
    Calls <- TwoCalls
    Phones <- OnePhone
    Bots <- OneBot
    BotOf <- OfA
    OwnBot = a
    Marked <- OnlyC
    Visible <- None
    Bounds <- Alone
    Most = 4
INVARIANTS TypeOK RingsAlone LiveHasSession
PROPERTIES Forward
