--------------------------- MODULE MCWebApiSessions ---------------------------
(* Finite instances of WebApiSessions for TLC.                               *)
EXTENDS WebApiSessions

ForThree == [privacy |-> "private", max |-> 3, locked |-> FALSE]
ForTwo == [privacy |-> "public", max |-> 2, locked |-> FALSE]
LockedForTwo == [privacy |-> "public", max |-> 2, locked |-> TRUE]

\* A session may be locked or opened, and given a limit when it has more members.
TwoSettings == {ForThree, LockedForTwo}

\* It may be full without being locked, too, for someone who is not in it.
ThreeSettings == {ForThree, ForTwo, LockedForTwo}

MCSymmetry == Permutations(Users) \cup Permutations(SessionIds) \cup Permutations(InvitationIds)
================================================================================
