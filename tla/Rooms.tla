--------------------------------- MODULE Rooms ---------------------------------
(***************************************************************************)
(* The Room record of src/matching_types.h and the operations on one room  *)
(* that the matching commands are built from: member-id allocation,        *)
(* arrival and departure of a member, hand-over of the ownership, the four *)
(* cached slot counts, and the room flags.                                 *)
(*                                                                         *)
(* No variables: a room is a value, and the state machine in Matching      *)
(* applies these operators under roomsLock.                                *)
(***************************************************************************)
EXTENDS Integers, Sequences, FiniteSets

CONSTANTS
    Users,      \* accounts; an npid and a userId both stand for the user
    NSlots,     \* slots that fit the 64-bit slot masks (64 in the code)
    IdCycle,    \* values of the 4-bit counter in a member id (16 in the code)
    AttrValues, \* values of the room's internal binary attribute
    NoUser,     \* the empty npid of a default-constructed RoomMember
    NoAttr      \* an internal binary attribute that is not set

ASSUME SlotsAssumption == NSlots \in Nat \ {0} /\ IdCycle \in Nat \ {0}
ASSUME NoUserAssumption == NoUser \notin Users

Flags == {"FULL", "HIDDEN"}

(***************************************************************************)
(* A member id is (slot << 4) | counter with counter < 16, which is the    *)
(* pair of the two; 0 is the id of nobody.                                 *)
(***************************************************************************)
MemberIds == (1..(NSlots + 1)) \X (0..(IdCycle - 1))
NoId == <<0, 0>>
SlotOf(id) == id[1]

\* RoomMember: who it is, the OWNER bit of flagAttr, and the users the member
\* asked at join time not to share a room with.
Member == [user : Users, owner : BOOLEAN, blocks : SUBSET Users]

\* RoomGroup, as far as the slot masks depend on it.
Group == [slotNum : Nat, withPassword : BOOLEAN]

\* The four counters a room caches for searches.
SlotCounters == [public : Nat, private : Nat, openPublic : Nat, openPrivate : Nat]

\* The fields of a Room and their types.
RoomOK(room) ==
    /\ DOMAIN room = {"maxSlot", "worldId", "lobbyId", "flags", "allowed", "blocked",
                      "groups", "passwdSlotMask", "slots", "attr", "owner", "members",
                      "memberIdCounter"}
    /\ room.maxSlot \in Nat \ {0} /\ room.worldId \in Nat /\ room.lobbyId \in Nat
    /\ room.flags \subseteq Flags
    /\ room.allowed \subseteq Users /\ room.blocked \subseteq Users
    /\ room.groups \in Seq(Group)
    /\ room.passwdSlotMask \subseteq 1..NSlots
    /\ room.slots \in SlotCounters
    /\ room.attr \in AttrValues \cup {NoAttr}
    /\ room.owner \in MemberIds
    /\ DOMAIN room.members \subseteq MemberIds
    /\ room.members \in [DOMAIN room.members -> Member]
    /\ room.memberIdCounter \in 0..(IdCycle - 1)

UsersOf(room) == {room.members[id].user : id \in DOMAIN room.members}

\* Rooms whose slots all have a bit in the masks.
Fits(room) == room.maxSlot <= NSlots

\* Room::isFull, which compares the number of members with maxSlot.
IsFull(room) == Cardinality(DOMAIN room.members) >= room.maxSlot

\* Room::findByNpid for a user who is in the room.
FindByNpid(room, u) == CHOOSE id \in DOMAIN room.members : room.members[id].user = u

---------------------------------------------------------------------------
(* Slot masks: a uint64_t mask is the set of the slots whose bit is set.   *)

SlotMaskForMaxSlot(maxSlot) == {s \in 1..NSlots : s <= maxSlot}

JoinedSlotMask(room) == {SlotOf(id) : id \in DOMAIN room.members} \cap (1..NSlots)

\* Groups take consecutive runs of slots until maxSlot is reached; a group of
\* slotNum 0 takes all that is left.  GroupEnd[i] is the last slot of group i.
GroupEnd(groups, maxSlot) ==
    LET SlotCount(g) == IF g.slotNum = 0 THEN maxSlot ELSE g.slotNum
        end[i \in 0..Len(groups)] ==
            IF i = 0 THEN 0
            ELSE LET e == end[i - 1] + SlotCount(groups[i])
                 IN  IF e < maxSlot THEN e ELSE maxSlot
    IN  end

GroupPasswordSlotMask(room, validSlots) ==
    LET end == GroupEnd(room.groups, room.maxSlot)
        locked == {i \in 1..Len(room.groups) : room.groups[i].withPassword}
    IN  {s \in validSlots : \E i \in locked : end[i - 1] < s /\ s <= end[i]}

PrivateSlots(room) ==
    LET valid == SlotMaskForMaxSlot(room.maxSlot)
        asked == room.passwdSlotMask \cap valid
    IN  IF asked = {} THEN GroupPasswordSlotMask(room, valid) ELSE asked

\* The four counters RecomputeRoomSlotCounts caches in the room.
SlotCounts(room) ==
    LET valid   == SlotMaskForMaxSlot(room.maxSlot)
        private == PrivateSlots(room)
        public  == valid \ private
        joined  == JoinedSlotMask(room) \cap valid
    IN  [public      |-> Cardinality(public),
         private     |-> Cardinality(private),
         openPublic  |-> Cardinality(public \ joined),
         openPrivate |-> Cardinality(private \ joined)]

RecomputeRoomSlotCounts(room) == [room EXCEPT !.slots = SlotCounts(room)]

---------------------------------------------------------------------------
(* Arrival and departure of a member.                                      *)

\* allocMemberId: the lowest slot no member holds, NSlots + 1 when all are
\* held, with the next value of the room's wrapping counter.
FreeSlot(room) ==
    LET taken == {SlotOf(id) : id \in DOMAIN room.members}
    IN  CHOOSE s \in 1..(NSlots + 1) :
            /\ s = NSlots + 1 \/ s \notin taken
            /\ \A t \in 1..(s - 1) : t \in taken

\* Mutants: the counter runs on past four bits; the counter is not advanced.
NextCounterUnmasked(room) == room.memberIdCounter + 1
NextCounterStuck(room) == room.memberIdCounter

NextCounter(room) == (room.memberIdCounter + 1) % IdCycle

AllocMemberId(room) == <<FreeSlot(room), NextCounter(room)>>

\* addMember: QHash::insert replaces the entry of an id already in use.
AddMember(room, m) ==
    LET new == AllocMemberId(room)
    IN  [room EXCEPT
            !.memberIdCounter = NextCounter(room),
            !.members = [id \in DOMAIN room.members \cup {new} |->
                            IF id = new THEN m ELSE room.members[id]]]

\* A room after a successful CmdJoinRoom by m.
Joined(room, m) ==
    LET r == RecomputeRoomSlotCounts(AddMember(room, m))
    IN  [r EXCEPT !.flags = IF IsFull(r) THEN @ \cup {"FULL"} ELSE @]

\* Mutant: the slot counts are not refreshed.
DepartedStale(room, gone) ==
    [room EXCEPT !.flags = @ \ {"FULL"},
                 !.members = [id \in DOMAIN room.members \ {gone} |-> room.members[id]]]

\* removeMember, then the slot counts and the FULL bit.
Departed(room, gone) ==
    LET r == [room EXCEPT !.members =
                 [id \in DOMAIN room.members \ {gone} |-> room.members[id]]]
    IN  [RecomputeRoomSlotCounts(r) EXCEPT !.flags = @ \ {"FULL"}]

\* The new owner gets the OWNER bit; the previous owner has left the room.
HandOver(room, next) ==
    [room EXCEPT !.owner = next, !.members[next].owner = TRUE]

\* Mutant: any departure hands the room over.
AfterLeaveAlways(room, gone) ==
    LET r == Departed(room, gone)
    IN  {HandOver(r, next) : next \in DOMAIN r.members}

\* The rooms that may remain when `gone' leaves a room with other members.
\* ownerSuccession is never filled, so an owner is succeeded by
\* members.begin(), whichever member the hash order puts first.
AfterLeave(room, gone) ==
    LET r == Departed(room, gone)
    IN  IF gone = room.owner
        THEN {HandOver(r, next) : next \in DOMAIN r.members}
        ELSE {r}

\* SetRoomDataInternal's flag update; the FULL bit is protected.
WithFlags(room, filter, attr) ==
    LET eff == filter \ {"FULL"}
    IN  [room EXCEPT !.flags = (@ \ eff) \cup (attr \cap eff)]
================================================================================
