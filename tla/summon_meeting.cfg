CONSTANTS
    g1 = g1
    g2 = g2
    h1 = h1
    h2 = h2
    s1 = s1
    s2 = s2
    sh1 = sh1
    sh2 = sh2
    m1 = m1
    m2 = m2
    Anonymous = Anonymous
    None = None
    NoPlacement = NoPlacement
    NoClaim = NoClaim
    Users <- MCUsers
    Hosts <- MCHosts
    Signs <- MCSigns
    Searches <- MCSearches
    Claims <- MCClaims
    Removals <- MCRemovals
    Placements <- MCPlacements
    Maps <- MCMaps
    Ttl = 1
    SeamlessTtl = 1
SPECIFICATION PlayersSpec
PROPERTIES EveryGuestIsMet ClaimIsDelivered
