------------------------------ MODULE MCMatching ------------------------------
(* Finite instances of Matching for TLC.                                     *)
EXTENDS Matching, TLC

CONSTANTS a, b, c

MCUsers == {a, b, c}
TwoUsers == {a, b}

Request(maxSlots, world, lobby) ==
    [maxSlots |-> maxSlots, world |-> world, lobby |-> lobby, flags |-> {"FULL"},
     allowed |-> {}, blocked |-> {}, groups |-> <<>>, passwdSlotMask |-> {},
     attr |-> NoAttr]

(* Rooms for one and for three; a is kept out of these, some who join block b. *)
PairRequests == {Request(2, 0, 0)}
NoBlocks == {{}}
MixedRequests == {Request(1, 0, 0), [Request(3, 0, 0) EXCEPT !.blocked = {a}]}
MixedBlocks == {{}, {b}}
NoData == {}
Symmetry == Permutations(MCUsers)

(* Slot masks, groups and lists, in worlds and lobbies.  0 slots is raised   *)
(* to 1; the groups are one locked slot followed by an open rest, and the    *)
(* reverse.  4 is cut to world 0 where 16 bits stand for two.                *)
LockedFirst == <<[slotNum |-> 1, withPassword |-> TRUE], [slotNum |-> 0, withPassword |-> FALSE]>>
LockedRest  == <<[slotNum |-> 1, withPassword |-> FALSE], [slotNum |-> 0, withPassword |-> TRUE]>>
WorldRequests ==
    {[Request(0, 0, 1) EXCEPT !.passwdSlotMask = {1}],
     [Request(1, 4, 0) EXCEPT !.groups = LockedFirst, !.blocked = {a}],
     [Request(3, 2, 0) EXCEPT !.groups = LockedRest, !.blocked = {a}]}
SlotData ==
    {[filter |-> {"FULL", "HIDDEN"}, flags |-> {"FULL"}, newMask |-> TRUE,
      passwdSlotMask |-> {1, 3}, attr |-> 1]}
================================================================================
