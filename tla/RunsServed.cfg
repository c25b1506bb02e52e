SPECIFICATION FairSpec
CONSTANTS
    a = a
    b = b
    c = c
    d = d
    p = p
    q = q
    Site = Site
    Page = Page
    Desk = Desk
    Web = Web
    Nobody = Nobody
    Gens <- TwoGens
    Threads <- Three
    Bots <- TwoBots
    BotOf <- COnQ
    Resources <- DeskWeb
    Touch <- Apart
    Limit = 1
    Kinds <- Mixed
    First <- CommonAsks
    Later <- NoAsk
    MaxClaims = 1
    Returnable <- None
    Asking <- None
PROPERTIES NobodyStarves SlotsServed
