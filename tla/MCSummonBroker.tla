---------------------------- MODULE MCSummonBroker ----------------------------
(* Finite instances of SummonBroker for TLC.                                 *)
EXTENDS SummonBroker, TLC

CONSTANTS g1, h1, h2, s1, s2, sh1, sh2, m1, m2

MCUsers == {g1, h1, h2}

Sign(session, user, map) ==
    [session |-> session, user |-> user, chara |-> user, version |-> 3, method |-> 0,
     area |-> map, region |-> map, channel |-> 0, type |-> 0, word |-> "",
     level |-> 40, pos |-> <<1, 2, 3>>]

\* A guest that may travel between two maps.
Traveller(session, user) == {Sign(session, user, m1), Sign(session, user, m2)}
\* A guest that rings again under a new session.
TwoSessions == Traveller(s1, g1) \cup {Sign(s2, g1, m1)}

SearchBy(session, user, map) ==
    [user |-> user, session |-> session, version |-> 3, method |-> None, area |-> map,
     region |-> None, channel |-> 0, types |-> {0}, word |-> "", level |-> 46,
     distance |-> 100, pos |-> <<1, 2, 4>>, maxCount |-> 1]
TwoSearches == {SearchBy(sh1, h1, m1), SearchBy(sh2, h2, m2)}

\* native is the session the host opened: a retry opens another.
ClaimBy(user, session, target, native) ==
    [user |-> user, session |-> session, target |-> target, chara |-> None, native |-> native]
\* Two of one host, which name the sign's session and user, or the user; one of
\* nobody in particular, which names the session.
SomeClaims == {ClaimBy(h1, s1, g1, 1), ClaimBy(h1, None, g1, 2), ClaimBy(Anonymous, s1, None, 1)}

Placement(from, map, fits) == [from |-> from, map |-> map, fits |-> fits]
TwoPlacements == {Placement(h1, m1, TRUE), Placement(h2, m2, TRUE)}
\* One too long for a claim.
OddPlacements == TwoPlacements \cup {Placement(h2, m2, FALSE)}

\* By session and user, by either, by neither.
SomeRemovals ==
    {[session |-> s1, user |-> g1, force |-> FALSE],
     [session |-> s1, user |-> None, force |-> TRUE],
     [session |-> None, user |-> g1, force |-> FALSE],
     [session |-> None, user |-> None, force |-> TRUE]}
================================================================================
