--------------------------- MODULE MCMatchingClients ---------------------------
(* Finite instances of MatchingClients for TLC.                              *)
EXTENDS MatchingClients, TLC

CONSTANTS a, b, c

MCUsers == {a, b, c}

RoomFor(n) ==
    [maxSlots |-> n, world |-> 0, lobby |-> 0, flags |-> {},
     allowed |-> {}, blocked |-> {}, groups |-> <<>>, passwdSlotMask |-> {},
     attr |-> NoAttr]

OneRoom == {RoomFor(2)}
NoBlocks == {{}}

SetAttr(v) ==
    [filter |-> {}, flags |-> {}, newMask |-> FALSE, passwdSlotMask |-> {}, attr |-> v]
OneValue == {SetAttr(NoAttr)}

Symmetry == Permutations(MCUsers)
================================================================================
