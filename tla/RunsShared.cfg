SPECIFICATION Spec
CONSTANTS
    a = a
    b = b
    c = c
    d = d
    p = p
    q = q
    Site = Site
    Page = Page
    Desk = Desk
    Web = Web
    Nobody = Nobody
    Gens <- TwoGens
    Threads <- Three
    Bots <- OneBot
    BotOf <- OnP
    Resources <- FolderDeskWeb4
    Touch <- Nested
    Limit = 3
    Kinds <- Plain
    First <- FirstAsks
    Later <- LaterAsks
    MaxClaims = 2
    Returnable <- OnlyDesk
    Asking <- OnlyC
INVARIANTS TypeOK Exclusive ClaimsLive WaitsEmptyHanded NoLostWakeup KeepsClaims
PROPERTIES PassesOnlyHolding
