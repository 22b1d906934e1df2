----------------------------- MODULE SummonPlayers -----------------------------
(***************************************************************************)
(* The summon broker among players that play: guests who ring their bell,  *)
(* travel where they are sent and take their sign down when they change    *)
(* maps, and hosts who search and claim what they find.  The players are   *)
(* the emulators, outside this repository; they do what the answers of the *)
(* broker are for, in seamless mode.  Guests renew their signs in time, so *)
(* time is left out.                                                       *)
(***************************************************************************)
EXTENDS SummonBroker

CONSTANTS
    Hosts,      \* players that search; the others are guests
    Maps        \* where players are

VARIABLES
    place,      \* the map each guest is on
    listed      \* what each host found and has not acted upon

playerVars == <<vars, place, listed>>

Guests == Users \ Hosts

PlayersInit ==
    /\ Init /\ seamless
    /\ place \in [Guests -> Maps]
    /\ listed = [h \in Hosts |-> {}]

\* A guest rings, from where it is.
Ask(g) ==
    /\ \E sign \in Signs : sign.user = g /\ sign.area = place[g] /\ Advertise(sign)
    /\ UNCHANGED <<place, listed>>

\* The map an answer of the broker sends it to.
Destinations(g) ==
    {HostPlacementMap(answers[k].placement) : k \in {x \in Keys : x[2] = g}} \ {None, place[g]}

Travel(g) ==
    /\ \E map \in Destinations(g) : place' = [place EXCEPT ![g] = map]
    /\ UNCHANGED <<vars, listed>>

\* The game takes the sign of a guest down when it leaves a map.
TakeDown(g) ==
    /\ Destinations(g) # {}
    /\ \E q \in Removals : q.user = g /\ Consume(q)
    /\ UNCHANGED <<place, listed>>

\* A host searches, with its own placement, and keeps what it is given.
Look(h) ==
    /\ listed[h] = {}
    /\ \E q \in Searches, p \in Placements :
        /\ q.user = h /\ p.from = h
        /\ Search(q, p)
        /\ \E found \in Results(q, p) : listed' = [listed EXCEPT ![h] = found]
    /\ UNCHANGED place

\* It claims one of them, perhaps too late.
Choose(h, k) ==
    /\ k \in listed[h]
    /\ \E c \in Claims, p \in Placements :
        /\ c.user = h /\ p.from = h
        /\ c.session = k[1] /\ c.target = k[2]
        /\ Claim(c, p)
    /\ listed' = [listed EXCEPT ![h] = {}]
    /\ UNCHANGED place

PlayersNext ==
    \/ \E g \in Guests : Ask(g) \/ Travel(g) \/ TakeDown(g)
    \/ \E h \in Hosts : Look(h) \/ \E k \in Keys : Choose(h, k)

\* A search that finds somebody, and one that sends for somebody.
Finds(h) == Look(h) /\ listed'[h] # {}
SendsFor(h) == Look(h) /\ \E k \in DOMAIN records : records[k].state # records'[k].state

\* Players go on playing.  Searches are frequent and at no fixed pace, so that
\* a host does not always search at the wrong moment; of the signs it is given
\* it does not always claim the same.
PlayersFairness ==
    /\ \A g \in Guests : WF_playerVars(Ask(g)) /\ WF_playerVars(Travel(g))
    /\ \A h \in Hosts :
        /\ SF_playerVars(Finds(h)) /\ SF_playerVars(SendsFor(h))
        /\ \A k \in Keys : SF_playerVars(Choose(h, k))

PlayersSpec == PlayersInit /\ [][PlayersNext]_playerVars /\ PlayersFairness

---------------------------------------------------------------------------
(* Properties                                                              *)

\* A guest who was told of a claim and is where its host wants it.
Met(g) ==
    \E k \in DOMAIN records :
        /\ k[2] = g
        /\ records[k].state = "Delivered"
        /\ HostPlacementMap(records[k].placement) = place[g]
        /\ answers[k].claim = records[k].claim

\* Every guest that keeps ringing meets a host, whatever map it starts on, and
\* though hosts on other maps send for it too, it takes its sign down when it
\* travels, and hosts act upon what they found a while ago.
EveryGuestIsMet == \A g \in Guests : <>Met(g)

\* Every claim reaches its guest, the one that replaces an earlier claim too,
\* unless the sign is free again first.
ClaimIsDelivered ==
    \A k \in Keys :
        (k \in DOMAIN records /\ records[k].state = "Claimed")
            ~> (~InUse(k) \/ records[k].state = "Delivered")
================================================================================
