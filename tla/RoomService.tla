------------------------------ MODULE RoomService ------------------------------
(***************************************************************************)
(* What matchmaking promises its users, without sessions, member ids,      *)
(* slots, flags or notifications: rooms with a roster, a capacity and one  *)
(* host, who is always somebody in the room.  A room closes when its last  *)
(* member leaves and is never opened again.                                *)
(***************************************************************************)
EXTENDS Integers, FiniteSets

CONSTANTS Users, Capacities

VARIABLES
    opened,     \* how many rooms were ever opened; rooms are numbered from 1
    roster,     \* for every open room, who is in it
    host,       \* for every open room, who may expel members
    capacity    \* for every open room, how many it admits

vars == <<opened, roster, host, capacity>>

OpenRooms == DOMAIN roster

With(f, r, v) == [x \in DOMAIN f \cup {r} |-> IF x = r THEN v ELSE f[x]]
Without(f, r) == [x \in DOMAIN f \ {r} |-> f[x]]

Init ==
    /\ opened = 0
    /\ roster = <<>>
    /\ host = <<>>
    /\ capacity = <<>>

Open(u, c) ==
    /\ opened' = opened + 1
    /\ roster' = With(roster, opened + 1, {u})
    /\ host' = With(host, opened + 1, u)
    /\ capacity' = With(capacity, opened + 1, c)

Enter(u, r) ==
    /\ u \notin roster[r]
    /\ Cardinality(roster[r]) < capacity[r]
    /\ roster' = With(roster, r, roster[r] \cup {u})
    /\ UNCHANGED <<opened, host, capacity>>

\* The last one out closes the room.
Close(u, r) ==
    /\ roster[r] = {u}
    /\ roster' = Without(roster, r)
    /\ host' = Without(host, r)
    /\ capacity' = Without(capacity, r)
    /\ UNCHANGED opened

\* Somebody who stays inherits the room from a host who leaves.
Depart(u, r) ==
    /\ u \in roster[r] /\ roster[r] # {u}
    /\ roster' = With(roster, r, roster[r] \ {u})
    /\ \E h \in roster[r] \ {u} :
        /\ host[r] # u => h = host[r]
        /\ host' = With(host, r, h)
    /\ UNCHANGED <<opened, capacity>>

\* Only the host expels, and never himself.
Expel(h, t, r) ==
    /\ h = host[r]
    /\ t \in roster[r] \ {h}
    /\ roster' = With(roster, r, roster[r] \ {t})
    /\ UNCHANGED <<opened, host, capacity>>

Next ==
    \E u \in Users :
        \/ \E c \in Capacities : Open(u, c)
        \/ \E r \in OpenRooms :
            \/ Enter(u, r)
            \/ Close(u, r)
            \/ Depart(u, r)
            \/ \E t \in Users : Expel(u, t, r)

Spec == Init /\ [][Next]_vars
================================================================================
