------------------------------ MODULE MCPresence -------------------------------
(* A finite instance of Presence for TLC: a user with two connections, one of *)
(* which hides, and a friend in the same game who follows it.                 *)
EXTENDS Presence

CONSTANTS a, b, a1, a2, b1, g, h, data, v

MCUsers == {a, b}
MCFriendships == {<<a, b>>, <<b, a>>}
MCGames == {g, h}
MCFields == {data}
MCValues == {v}
MCSessions == {a1, a2, b1}
MCUserOf == [s \in MCSessions |-> IF s = b1 THEN b ELSE a]
MCPlays == [s \in MCSessions |-> CASE s = a1 -> {g, h} [] s = a2 -> {} [] s = b1 -> {g}]
MCTitled == {a2}
MCHiders == {a1}
OnlyA == {a}
MCWatchers == {b1}
================================================================================
