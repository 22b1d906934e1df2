---------------------------- MODULE MCSummonPlayers ----------------------------
(* Finite instances of SummonPlayers for TLC.                                 *)
EXTENDS SummonPlayers

CONSTANTS g1, g2, h1, h2, s1, s2, sh1, sh2, m1, m2

MCUsers == {g1, g2, h1, h2}
MCHosts == {h1, h2}
MCMaps == {m1, m2}

Sign(session, user, map) ==
    [session |-> session, user |-> user, chara |-> user, version |-> 3, method |-> 0,
     area |-> map, region |-> map, channel |-> 0, type |-> 0, word |-> "",
     level |-> 40, pos |-> <<1, 2, 3>>]
MCSigns == {Sign(s1, g1, m) : m \in MCMaps} \cup {Sign(s2, g2, m) : m \in MCMaps}

SearchBy(session, user, map) ==
    [user |-> user, session |-> session, version |-> 3, method |-> None, area |-> map,
     region |-> None, channel |-> 0, types |-> {0}, word |-> "", level |-> 46,
     distance |-> 100, pos |-> <<1, 2, 4>>, maxCount |-> 2]
MCSearches == {SearchBy(sh1, h1, m1), SearchBy(sh2, h2, m2)}

\* A host that tries again opens another native session.
ClaimBy(user, session, target, native) ==
    [user |-> user, session |-> session, target |-> target, chara |-> None, native |-> native]
MCClaims ==
    {ClaimBy(h1, s1, g1, 1), ClaimBy(h1, s1, g1, 2), ClaimBy(h2, s1, g1, 1),
     ClaimBy(h1, s2, g2, 1), ClaimBy(h2, s2, g2, 1)}

MCPlacements == {[from |-> h1, map |-> m1, fits |-> TRUE], [from |-> h2, map |-> m2, fits |-> TRUE]}
MCRemovals ==
    {[session |-> s1, user |-> g1, force |-> FALSE], [session |-> s2, user |-> g2, force |-> FALSE]}
================================================================================
