CONSTANTS
    g1 = g1
    h1 = h1
    h2 = h2
    s1 = s1
    s2 = s2
    sh1 = sh1
    sh2 = sh2
    m1 = m1
    m2 = m2
    Anonymous = Anonymous
    None = None
    NoPlacement = NoPlacement
    NoClaim = NoClaim
    Users <- MCUsers
    Signs <- TwoSessions
    Searches <- TwoSearches
    Claims <- SomeClaims
    Removals <- SomeRemovals
    Placements <- OddPlacements
    Ttl = 1
    SeamlessTtl = 2
SPECIFICATION Spec
INVARIANTS TypeOK DeliveryIsCurrent PlacementIsTheClaimants
PROPERTIES HolderKeepsTheSign SummonsSpec
