SPECIFICATION Spec
CONSTANTS
    a = a
    b = b
    c = c
    d = d
    p = p
    q = q
    Site = Site
    Page = Page
    Desk = Desk
    Web = Web
    Nobody = Nobody
    Gens <- TwoGens
    Threads <- Four
    Bots <- OneBot
    BotOf <- OnP
    Resources <- None
    Touch <- None
    Limit = 1
    Kinds <- AnyKind
    First <- NoAsk
    Later <- NoAsk
    MaxClaims = 0
    Returnable <- None
    Asking <- None
SYMMETRY Alike
INVARIANTS SlotLimit
PROPERTIES OwnerFirst PlainWaits
