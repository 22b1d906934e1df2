-------------------------------- MODULE Summons --------------------------------
(***************************************************************************)
(* What the summon broker promises the players, whatever the requests, the *)
(* map travel and the time-outs: a summon sign is held by one host at a    *)
(* time, the holder keeps it until it lapses, and the player who put the   *)
(* sign up is told of the holder's claim and of no other.                  *)
(***************************************************************************)
CONSTANTS
    Signs,      \* the signs players put up
    Hosts,      \* those who may summon
    Nobody,     \* the holder of a free sign
    Orders      \* what a host asks of the player it summons

VARIABLES
    holder,     \* the host that holds each sign
    order,      \* what the holder asks, for each sign that is held
    told        \* whether the player has been told of it

vars == <<holder, order, told>>

Init ==
    /\ holder = [s \in Signs |-> Nobody]
    /\ order = <<>>
    /\ told = [s \in Signs |-> FALSE]

Held == {s \in Signs : holder[s] # Nobody}

\* Signs in `gone' are free again: taken down, or not renewed in time.
Lapse(gone) ==
    /\ holder' = [s \in Signs |-> IF s \in gone THEN Nobody ELSE holder[s]]
    /\ order' = [s \in Held \ gone |-> order[s]]
    /\ told' = [s \in Signs |-> IF s \in gone THEN FALSE ELSE told[s]]

\* A host takes a free sign, or changes its order for one it holds.
Take(s, h, o, gone) ==
    /\ s \notin gone /\ holder[s] \in {Nobody, h}
    /\ holder' = [t \in Signs |->
                    IF t = s THEN h ELSE IF t \in gone THEN Nobody ELSE holder[t]]
    /\ order' = [t \in (Held \cup {s}) \ gone |-> IF t = s THEN o ELSE order[t]]
    /\ told' = [t \in Signs |-> t \notin gone \cup {s} /\ told[t]]

\* The player learns who summons him.
Tell(s, gone) ==
    /\ s \in Held \ gone
    /\ holder' = [t \in Signs |-> IF t \in gone THEN Nobody ELSE holder[t]]
    /\ order' = [t \in Held \ gone |-> order[t]]
    /\ told' = [t \in Signs |-> t \notin gone /\ (t = s \/ told[t])]

\* Others may lapse in the same step.
Next ==
    \E gone \in SUBSET Signs :
        \/ Lapse(gone)
        \/ \E s \in Signs :
            \/ \E h \in Hosts, o \in Orders : Take(s, h, o, gone)
            \/ Tell(s, gone)

Spec == Init /\ [][Next]_vars
================================================================================
