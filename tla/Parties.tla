-------------------------------- MODULE Parties --------------------------------
(***************************************************************************)
(* What the sessions of the Web API promise the users: each of a user's    *)
(* seats is in one party at a time, a party is there while somebody sits   *)
(* in it, one of those is its host, and a host leaves it to one who stays, *)
(* unless the party is bound to its host and ends.                         *)
(***************************************************************************)
CONSTANTS
    Users,
    Slots,      \* the seats of a user
    Names,      \* of parties
    None        \* the party of a free seat

VARIABLES
    seat,       \* the party of each seat
    host,       \* of each party there is
    bound       \* the parties that end with their host

vars == <<seat, host, bound>>

Seats == Users \X Slots

Init ==
    /\ seat = [x \in Seats |-> None]
    /\ host = <<>>
    /\ bound = {}

Seated(p) == {u \in Users : \E i \in Slots : seat[<<u, i>>] = p}

\* The seats when those in `gone` are given up: whoever sits in a party bound
\* to a host who leaves it goes too.
Ends(p, gone) == p \in bound /\ \E i \in Slots : <<host[p], i>> \in gone /\ seat[<<host[p], i>>] = p
SeatsWithout(gone) ==
    [x \in Seats |-> IF x \in gone \/ Ends(seat[x], gone) THEN None ELSE seat[x]]

\* Every party that is left has a host who sits in it; one whose host stays
\* keeps the host.
HostsFollow ==
    /\ DOMAIN host' = {seat'[x] : x \in Seats} \ {None}
    /\ \A p \in DOMAIN host' :
        /\ host'[p] \in Seated(p)'
        /\ p \in DOMAIN host /\ host[p] \in Seated(p)' => host'[p] = host[p]

\* A user leaves some parties.
Leave(gone) ==
    /\ seat' = SeatsWithout(gone)
    /\ HostsFollow
    /\ bound' = bound \cap DOMAIN host'

\* A seat that is taken in one party is given up in another.
Open(x, p, b) ==
    /\ p \notin DOMAIN host
    /\ seat' = [SeatsWithout({x}) EXCEPT ![x] = p]
    /\ HostsFollow
    /\ bound' = (bound \cup b) \cap DOMAIN host' /\ b \subseteq {p}

Enter(x, p) ==
    /\ p \in DOMAIN host /\ x[1] \notin Seated(p)
    /\ seat' = [SeatsWithout({x}) EXCEPT ![x] = p]
    /\ HostsFollow
    /\ bound' = bound \cap DOMAIN host'

Disband(p) ==
    /\ seat' = [x \in Seats |-> IF seat[x] = p THEN None ELSE seat[x]]
    /\ HostsFollow
    /\ bound' = bound \cap DOMAIN host'

Next ==
    \/ \E u \in Users : \E gone \in SUBSET ({u} \X Slots) : Leave(gone)
    \/ \E p \in Names :
        \/ \E x \in Seats : Enter(x, p) \/ \E b \in SUBSET {p} : Open(x, p, b)
        \/ Disband(p)

Spec == Init /\ [][Next]_vars
================================================================================
