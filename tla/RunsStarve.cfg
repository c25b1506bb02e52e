SPECIFICATION FairSpec
CONSTANTS
    a = a
    b = b
    c = c
    d = d
    p = p
    q = q
    Site = Site
    Page = Page
    Desk = Desk
    Web = Web
    Nobody = Nobody
    Gens <- TwoGens
    Threads <- Three
    Bots <- OneBot
    BotOf <- OnP
    Resources <- FolderDeskWeb4
    Touch <- Apart
    Limit = 3
    Kinds <- Plain
    First <- FolderAsks
    Later <- DeskAsks
    MaxClaims = 2
    Returnable <- None
    Asking <- None
PROPERTIES NobodyStarves
