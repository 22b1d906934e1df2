----------------------------- MODULE MatchingProofs -----------------------------
(***************************************************************************)
(* Facts about the operators of Rooms and the invariant of a single room;  *)
(* from them, that Matching keeps its invariants for every number of       *)
(* users, slots, rooms and requests, every counter cycle, and for every    *)
(* interleaving of the handlers.                                           *)
(***************************************************************************)
EXTENDS Matching, FiniteSetTheorems, ListLemmas, SequenceTheorems

---------------------------------------------------------------------------
(* One room                                                                *)

(***************************************************************************)
(* Members and their ids.                                                  *)
(***************************************************************************)

\* A room has finitely many members, whatever its history.
LEMMA MembersFinite ==
    ASSUME NEW room, RoomOK(room)
    PROVE  /\ IsFiniteSet(DOMAIN room.members)
           /\ Cardinality(DOMAIN room.members) \in Nat
<1>1. IsFiniteSet(1..(NSlots + 1)) /\ IsFiniteSet(0..(IdCycle - 1))
  BY FS_Interval, SlotsAssumption
<1>2. IsFiniteSet(MemberIds)
  BY <1>1, FS_Product DEF MemberIds
<1>3. IsFiniteSet(DOMAIN room.members)
  BY <1>2, FS_Subset DEF RoomOK
<1>4. QED
  BY <1>3, FS_CardinalityType

\* The loop of allocMemberId stops at a free slot or past the last one, with
\* every lower slot taken.
LEMMA FreeSlotProperties ==
    ASSUME NEW room
    PROVE  LET taken == {SlotOf(id) : id \in DOMAIN room.members}
               s     == FreeSlot(room)
           IN  /\ s \in 1..(NSlots + 1)
               /\ s = NSlots + 1 \/ s \notin taken
               /\ \A t \in 1..(s - 1) : t \in taken
<1> DEFINE taken == {SlotOf(id) : id \in DOMAIN room.members}
           free  == {s \in 1..(NSlots + 1) : s = NSlots + 1 \/ s \notin taken}
<1>1. free \in SUBSET Nat /\ NSlots + 1 \in free
  BY SlotsAssumption
<1>2. PICK s \in free : \A t \in free : s <= t
  BY <1>1, LeastElement
<1>3. \A t \in 1..(s - 1) : t \in taken
  BY <1>1, <1>2, SlotsAssumption
<1>4. \E x \in 1..(NSlots + 1) :
        /\ x = NSlots + 1 \/ x \notin taken
        /\ \A t \in 1..(x - 1) : t \in taken
  BY <1>2, <1>3
<1>5. QED
  BY <1>4 DEF FreeSlot

\* A room that is not full and whose slots fit the masks has a free slot among
\* its own: the slots taken are no more than the members.
LEMMA FreeSlotFits ==
    ASSUME NEW room, RoomOK(room),
           room.maxSlot <= NSlots, ~IsFull(room)
    PROVE  /\ FreeSlot(room) \in 1..room.maxSlot
           /\ \A id \in DOMAIN room.members : SlotOf(id) # FreeSlot(room)
<1> DEFINE M     == DOMAIN room.members
           taken == {SlotOf(id) : id \in M}
           f     == [id \in M |-> SlotOf(id)]
<1>1. room.maxSlot \in Nat \ {0} /\ NSlots \in Nat \ {0}
  BY SlotsAssumption DEF RoomOK
<1>2. IsFiniteSet(M) /\ Cardinality(M) \in Nat
  BY MembersFinite
<1>3. f \in Surjection(M, taken)
  BY DEF Surjection
<1>4. IsFiniteSet(taken) /\ Cardinality(taken) <= Cardinality(M)
  BY <1>2, <1>3, FS_Surjection
<1>5. Cardinality(taken) \in Nat
  BY <1>4, FS_CardinalityType
<1>6. Cardinality(1..room.maxSlot) = room.maxSlot
  BY <1>1, FS_Interval
<1>7. Cardinality(M) < room.maxSlot
  BY <1>1, <1>2 DEF IsFull
<1>8. ~(1..room.maxSlot \subseteq taken)
  <2>1. SUFFICES ASSUME 1..room.maxSlot \subseteq taken PROVE FALSE
    OBVIOUS
  <2>2. Cardinality(1..room.maxSlot) <= Cardinality(taken)
    BY <1>4, <2>1, FS_Subset
  <2>3. QED
    BY <1>1, <1>2, <1>4, <1>5, <1>6, <1>7, <2>2
<1>9. PICK t \in 1..room.maxSlot : t \notin taken
  BY <1>8
<1>10. FreeSlot(room) \in 1..(NSlots + 1) /\ t \notin 1..(FreeSlot(room) - 1)
  BY <1>9, FreeSlotProperties
<1>11. FreeSlot(room) \in 1..room.maxSlot
  BY <1>1, <1>9, <1>10
<1>12. FreeSlot(room) \notin taken
  BY <1>1, <1>11, FreeSlotProperties
<1>13. QED
  BY <1>11, <1>12

\* The new id is an id.
LEMMA AllocMemberIdType ==
    ASSUME NEW room, room.memberIdCounter \in 0..(IdCycle - 1)
    PROVE  /\ NextCounter(room) \in 0..(IdCycle - 1)
           /\ AllocMemberId(room) \in MemberIds
           /\ SlotOf(AllocMemberId(room)) = FreeSlot(room)
<1>1. NextCounter(room) \in 0..(IdCycle - 1)
  BY SlotsAssumption DEF NextCounter
<1>2. FreeSlot(room) \in 1..(NSlots + 1)
  BY FreeSlotProperties
<1>3. QED
  BY <1>1, <1>2 DEF AllocMemberId, MemberIds, SlotOf

(***************************************************************************)
(* Types.                                                                  *)
(***************************************************************************)

\* The counters are numbers: the masks are finite sets.
LEMMA SlotCountsType ==
    ASSUME NEW room
    PROVE  SlotCounts(room) \in SlotCounters
<1> DEFINE valid  == SlotMaskForMaxSlot(room.maxSlot)
           public == valid \ PrivateSlots(room)
           joined == JoinedSlotMask(room) \cap valid
<1>1. IsFiniteSet(1..NSlots)
  BY FS_Interval, SlotsAssumption
<1>2. valid \subseteq 1..NSlots
  BY DEF SlotMaskForMaxSlot
<1>3. PrivateSlots(room) \subseteq valid
  BY DEF PrivateSlots, GroupPasswordSlotMask
<1>4. \A S \in SUBSET (1..NSlots) : Cardinality(S) \in Nat
  BY <1>1, FS_Subset, FS_CardinalityType
<1>5. /\ Cardinality(public) \in Nat
      /\ Cardinality(PrivateSlots(room)) \in Nat
      /\ Cardinality(public \ joined) \in Nat
      /\ Cardinality(PrivateSlots(room) \ joined) \in Nat
  <2>1. /\ public \in SUBSET (1..NSlots)
        /\ PrivateSlots(room) \in SUBSET (1..NSlots)
        /\ public \ joined \in SUBSET (1..NSlots)
        /\ PrivateSlots(room) \ joined \in SUBSET (1..NSlots)
    BY <1>2, <1>3
  <2>2. QED
    BY <1>4, <2>1
<1>6. QED
  BY <1>5 DEF SlotCounts, SlotCounters

\* RecomputeRoomSlotCounts yields a room again, with counters that are numbers.
LEMMA RecomputeType ==
    ASSUME NEW room, RoomOK(room)
    PROVE  RoomOK(RecomputeRoomSlotCounts(room))
BY SlotCountsType DEF RecomputeRoomSlotCounts, RoomOK

\* A room joined by a member is a well-typed room.
LEMMA JoinedType ==
    ASSUME NEW room, RoomOK(room), NEW m \in Member
    PROVE  RoomOK(Joined(room, m))
<1> DEFINE added == AddMember(room, m)
           r     == RecomputeRoomSlotCounts(added)
<1>1. RoomOK(added)
  <2>1. /\ DOMAIN added = DOMAIN room
        /\ added.memberIdCounter \in 0..(IdCycle - 1)
        /\ DOMAIN added.members \subseteq MemberIds
        /\ added.members \in [DOMAIN added.members -> Member]
    BY AllocMemberIdType DEF AddMember, RoomOK
  <2>2. \A x \in DOMAIN room \ {"members", "memberIdCounter"} : added[x] = room[x]
    BY DEF AddMember
  <2>3. QED
    BY <2>1, <2>2 DEF RoomOK
<1>2. RoomOK(r)
  BY <1>1, RecomputeType
<1>3. RoomOK([r EXCEPT !.flags = IF IsFull(r) THEN @ \cup {"FULL"} ELSE @])
  BY <1>2 DEF RoomOK, Flags
<1>4. QED
  BY <1>3 DEF Joined

\* A room a member was removed from is a well-typed room.
LEMMA DepartedType ==
    ASSUME NEW room, RoomOK(room), NEW gone
    PROVE  /\ RoomOK(Departed(room, gone))
           /\ DOMAIN Departed(room, gone).members = DOMAIN room.members \ {gone}
<1> DEFINE r == [room EXCEPT !.members =
                    [id \in DOMAIN room.members \ {gone} |-> room.members[id]]]
<1>1. RoomOK(r)
  BY DEF RoomOK
<1>2. RoomOK(RecomputeRoomSlotCounts(r))
  BY <1>1, RecomputeType
<1>3. RoomOK([RecomputeRoomSlotCounts(r) EXCEPT !.flags = @ \ {"FULL"}])
  BY <1>2 DEF RoomOK
<1>4. DOMAIN [RecomputeRoomSlotCounts(r) EXCEPT !.flags = @ \ {"FULL"}].members
        = DOMAIN room.members \ {gone}
  BY DEF RecomputeRoomSlotCounts, RoomOK
<1>5. QED
  BY <1>3, <1>4 DEF Departed

\* Handing the ownership to a member keeps the room well-typed.
LEMMA HandOverType ==
    ASSUME NEW room, RoomOK(room), NEW next \in DOMAIN room.members
    PROVE  RoomOK(HandOver(room, next))
<1>1. [room.members EXCEPT ![next].owner = TRUE] \in [DOMAIN room.members -> Member]
  BY DEF RoomOK, Member
<1>2. QED
  BY <1>1 DEF HandOver, RoomOK

\* Every room that may remain after a leave is well-typed.
LEMMA AfterLeaveType ==
    ASSUME NEW room, RoomOK(room), NEW gone, NEW after \in AfterLeave(room, gone)
    PROVE  RoomOK(after)
<1>1. CASE gone = room.owner
  BY <1>1, DepartedType, HandOverType DEF AfterLeave
<1>2. CASE gone # room.owner
  BY <1>2, DepartedType DEF AfterLeave
<1>3. QED
  BY <1>1, <1>2

\* The flag update of SetRoomDataInternal keeps the room well-typed.
LEMMA WithFlagsType ==
    ASSUME NEW room, RoomOK(room), NEW filter, NEW attr \in SUBSET Flags
    PROVE  RoomOK(WithFlags(room, filter, attr))
BY DEF WithFlags, RoomOK

(***************************************************************************)
(* What each operation changes and what it leaves alone.                   *)
(***************************************************************************)

\* The fields the slot counts are computed from.
SameSlots(r, s) ==
    /\ r.maxSlot = s.maxSlot
    /\ r.passwdSlotMask = s.passwdSlotMask
    /\ r.groups = s.groups
    /\ DOMAIN r.members = DOMAIN s.members

\* The four counters depend on the capacity, the groups, the mask and the
\* member ids alone, so changes of other fields leave them fresh.
LEMMA SlotCountsDepend ==
    ASSUME NEW r, NEW s, SameSlots(r, s)
    PROVE  SlotCounts(r) = SlotCounts(s)
BY DEF SameSlots, SlotCounts, PrivateSlots, GroupPasswordSlotMask, JoinedSlotMask

\* Which fields no arrival, departure or hand-over touches.
SameSetup(r, s) ==
    /\ r.maxSlot = s.maxSlot
    /\ r.worldId = s.worldId
    /\ r.lobbyId = s.lobbyId
    /\ r.allowed = s.allowed
    /\ r.blocked = s.blocked
    /\ r.groups = s.groups
    /\ r.passwdSlotMask = s.passwdSlotMask

\* What CmdJoinRoom does to the room, field by field.
LEMMA JoinedFacts ==
    ASSUME NEW room, RoomOK(room), NEW m \in Member
    PROVE  LET j   == Joined(room, m)
               new == AllocMemberId(room)
           IN  /\ SameSetup(j, room)
               /\ j.owner = room.owner
               /\ DOMAIN j.members = DOMAIN room.members \cup {new}
               /\ j.members[new] = m
               /\ \A id \in DOMAIN room.members \ {new} : j.members[id] = room.members[id]
               /\ j.slots = SlotCounts(j)
               /\ "FULL" \in j.flags => "FULL" \in room.flags \/ IsFull(j)
<1> DEFINE added == AddMember(room, m)
           r     == RecomputeRoomSlotCounts(added)
           j     == [r EXCEPT !.flags = IF IsFull(r) THEN @ \cup {"FULL"} ELSE @]
           new   == AllocMemberId(room)
<1>1. /\ DOMAIN added = DOMAIN room
      /\ SameSetup(added, room)
      /\ added.owner = room.owner /\ added.flags = room.flags
      /\ DOMAIN added.members = DOMAIN room.members \cup {new}
      /\ added.members[new] = m
      /\ \A id \in DOMAIN room.members \ {new} : added.members[id] = room.members[id]
  BY DEF AddMember, SameSetup, RoomOK
<1>2. /\ DOMAIN r = DOMAIN room
      /\ SameSetup(r, added) /\ r.owner = added.owner /\ r.flags = added.flags
      /\ r.members = added.members /\ r.slots = SlotCounts(added)
  BY <1>1 DEF RecomputeRoomSlotCounts, SameSetup, RoomOK
<1>3. /\ SameSetup(j, r) /\ j.owner = r.owner
      /\ j.members = r.members /\ j.slots = r.slots
      /\ j.flags = IF IsFull(r) THEN r.flags \cup {"FULL"} ELSE r.flags
  BY <1>1, <1>2 DEF SameSetup, RoomOK
<1>4. j.slots = SlotCounts(j)
  <2>1. SameSlots(added, j)
    BY <1>2, <1>3 DEF SameSetup, SameSlots
  <2>2. QED
    BY <1>2, <1>3, <2>1, SlotCountsDepend
<1>5. "FULL" \in j.flags => "FULL" \in room.flags \/ IsFull(j)
  BY <1>1, <1>2, <1>3 DEF IsFull, SameSetup
<1>6. SameSetup(j, room)
  BY <1>1, <1>2, <1>3 DEF SameSetup
<1>7. Joined(room, m) = j
  BY DEF Joined
<1>8. QED
  BY <1>1, <1>2, <1>3, <1>4, <1>5, <1>6, <1>7

\* What a removal does to the room, field by field.
LEMMA DepartedFacts ==
    ASSUME NEW room, RoomOK(room), NEW gone
    PROVE  LET d == Departed(room, gone)
           IN  /\ SameSetup(d, room)
               /\ d.owner = room.owner
               /\ DOMAIN d.members = DOMAIN room.members \ {gone}
               /\ \A id \in DOMAIN d.members : d.members[id] = room.members[id]
               /\ d.slots = SlotCounts(d)
               /\ "FULL" \notin d.flags
<1> DEFINE fewer == [room EXCEPT !.members =
                        [id \in DOMAIN room.members \ {gone} |-> room.members[id]]]
           r     == RecomputeRoomSlotCounts(fewer)
           d     == [r EXCEPT !.flags = @ \ {"FULL"}]
<1>1. /\ DOMAIN fewer = DOMAIN room
      /\ SameSetup(fewer, room) /\ fewer.owner = room.owner
      /\ DOMAIN fewer.members = DOMAIN room.members \ {gone}
      /\ \A id \in DOMAIN fewer.members : fewer.members[id] = room.members[id]
  BY DEF SameSetup, RoomOK
<1>2. /\ DOMAIN r = DOMAIN room
      /\ SameSetup(r, fewer) /\ r.owner = fewer.owner
      /\ r.members = fewer.members /\ r.slots = SlotCounts(fewer)
  BY <1>1 DEF RecomputeRoomSlotCounts, SameSetup, RoomOK
<1>3. /\ SameSetup(d, r) /\ d.owner = r.owner
      /\ d.members = r.members /\ d.slots = r.slots
      /\ "FULL" \notin d.flags
  BY <1>1, <1>2 DEF SameSetup, RoomOK
<1>4. d.slots = SlotCounts(d)
  <2>1. SameSlots(fewer, d)
    BY <1>2, <1>3 DEF SameSetup, SameSlots
  <2>2. QED
    BY <1>2, <1>3, <2>1, SlotCountsDepend
<1>5. SameSetup(d, room)
  BY <1>1, <1>2, <1>3 DEF SameSetup
<1>6. Departed(room, gone) = d
  BY DEF Departed
<1>7. QED
  BY <1>1, <1>2, <1>3, <1>4, <1>5, <1>6

\* What a hand-over does to the room, field by field.
LEMMA HandOverFacts ==
    ASSUME NEW room, RoomOK(room), NEW next \in DOMAIN room.members
    PROVE  LET h == HandOver(room, next)
           IN  /\ SameSetup(h, room)
               /\ h.owner = next
               /\ DOMAIN h.members = DOMAIN room.members
               /\ \A id \in DOMAIN h.members :
                    /\ h.members[id].user = room.members[id].user
                    /\ h.members[id].blocks = room.members[id].blocks
                    /\ h.members[id].owner <=> id = next \/ room.members[id].owner
               /\ h.slots = room.slots
               /\ h.flags = room.flags
<1>1. \A id \in DOMAIN room.members :
        /\ room.members[id] \in Member
        /\ DOMAIN room.members[id] = {"user", "owner", "blocks"}
  BY DEF RoomOK, Member
<1>2. QED
  BY <1>1 DEF HandOver, SameSetup, RoomOK

(***************************************************************************)
(* The invariant of one room.                                              *)
(***************************************************************************)

\* The owner is a member.
OwnerInside(room) == room.owner \in DOMAIN room.members

\* A user has one entry.
Unambiguous(room) ==
    \A i, j \in DOMAIN room.members :
        room.members[i].user = room.members[j].user => i = j

\* Not over capacity, and FULL only when full.
WithinCapacity(room) ==
    /\ Cardinality(DOMAIN room.members) <= room.maxSlot
    /\ "FULL" \in room.flags => IsFull(room)

\* Members hold different slots of the room's own.
SlotsApart(room) ==
    Fits(room) =>
        /\ \A id \in DOMAIN room.members : SlotOf(id) \in 1..room.maxSlot
        /\ \A i, j \in DOMAIN room.members : SlotOf(i) = SlotOf(j) => i = j

\* The OWNER bit marks the owner and nobody else.
OwnerMarked(room) ==
    Fits(room) =>
        \A id \in DOMAIN room.members : room.members[id].owner <=> id = room.owner

\* Nobody but the owner is on the room's block list, and no member sits with
\* one he blocked.
BlocksKept(room) ==
    \A i \in DOMAIN room.members :
        /\ room.members[i].user \in room.blocked => i = room.owner
        /\ \A j \in DOMAIN room.members \ {i} :
                room.members[j].user \notin room.members[i].blocks

\* The cached counts are those of the room as it is.
CountsFresh(room) == room.slots = SlotCounts(room)

RoomInv(room) ==
    /\ RoomOK(room)
    /\ OwnerInside(room)
    /\ Unambiguous(room)
    /\ WithinCapacity(room)
    /\ SlotsApart(room)
    /\ OwnerMarked(room)
    /\ BlocksKept(room)
    /\ CountsFresh(room)

\* CmdJoinRoom keeps the invariant of the room it is let into.
LEMMA JoinKeepsRoomInv ==
    ASSUME NEW room, RoomInv(room), NEW m \in Member,
           ~IsFull(room), m.user \notin UsersOf(room),
           m.user \notin room.blocked, ~m.owner,
           \A id \in DOMAIN room.members :
                /\ room.members[id].user \notin m.blocks
                /\ m.user \notin room.members[id].blocks
    PROVE  RoomInv(Joined(room, m))
<1> DEFINE j   == Joined(room, m)
           new == AllocMemberId(room)
           D   == DOMAIN room.members
<1>1. RoomOK(room) /\ RoomOK(j)
  BY JoinedType DEF RoomInv
<1>2. /\ SameSetup(j, room)
      /\ j.owner = room.owner
      /\ DOMAIN j.members = D \cup {new}
      /\ j.members[new] = m
      /\ \A id \in D \ {new} : j.members[id] = room.members[id]
      /\ j.slots = SlotCounts(j)
      /\ "FULL" \in j.flags => "FULL" \in room.flags \/ IsFull(j)
  BY <1>1, JoinedFacts
<1>3. Fits(room) =>
        /\ SlotOf(new) \in 1..room.maxSlot
        /\ \A id \in D : SlotOf(id) # SlotOf(new)
  BY <1>1, FreeSlotFits, AllocMemberIdType DEF Fits, RoomOK
<1>4. OwnerInside(j)
  BY <1>2 DEF OwnerInside, RoomInv
<1>5. Unambiguous(j)
  BY <1>2 DEF Unambiguous, UsersOf, RoomInv
<1>6. WithinCapacity(j)
  <2>1. IsFiniteSet(D) /\ Cardinality(D) \in Nat
    BY <1>1, MembersFinite
  <2>2. Cardinality(D \cup {new}) <= Cardinality(D) + 1
    <3>1. Cardinality(D \cup {new}) = IF new \in D THEN Cardinality(D) ELSE Cardinality(D) + 1
      BY <2>1, FS_AddElement
    <3>2. QED
      BY <2>1, <3>1
  <2>3. Cardinality(D) < room.maxSlot /\ room.maxSlot \in Nat
    BY <1>1, <2>1 DEF IsFull, RoomOK
  <2>4. Cardinality(D \cup {new}) \in Nat
    BY <1>1, <1>2, MembersFinite
  <2>5. "FULL" \notin room.flags
    BY DEF RoomInv, WithinCapacity
  <2>6. QED
    BY <1>2, <2>1, <2>2, <2>3, <2>4, <2>5 DEF WithinCapacity, SameSetup
<1>7. SlotsApart(j)
  BY <1>2, <1>3 DEF SlotsApart, RoomInv, Fits, SameSetup
<1>8. OwnerMarked(j)
  <2>1. SUFFICES ASSUME Fits(j), NEW id \in DOMAIN j.members
                 PROVE  j.members[id].owner <=> id = j.owner
    BY DEF OwnerMarked
  <2>2. Fits(room) /\ new \notin D
    BY <1>2, <1>3, <2>1 DEF Fits, SameSetup
  <2>3. CASE id = new
    BY <1>2, <2>2, <2>3 DEF RoomInv, OwnerInside
  <2>4. CASE id \in D
    BY <1>2, <2>2, <2>4 DEF RoomInv, OwnerMarked
  <2>5. QED
    BY <1>2, <2>3, <2>4
<1>9. BlocksKept(j)
  <2>1. SUFFICES ASSUME NEW i \in DOMAIN j.members
                 PROVE  /\ j.members[i].user \in j.blocked => i = j.owner
                        /\ \A k \in DOMAIN j.members \ {i} :
                                j.members[k].user \notin j.members[i].blocks
    BY DEF BlocksKept
  <2>2. j.blocked = room.blocked
    BY <1>2 DEF SameSetup
  <2>3. CASE i = new
    BY <1>2, <2>2, <2>3
  <2>4. CASE i \in D \ {new}
    BY <1>2, <2>2, <2>4 DEF RoomInv, BlocksKept
  <2>5. QED
    BY <1>2, <2>1, <2>3, <2>4
<1>10. QED
  BY <1>1, <1>2, <1>4, <1>5, <1>6, <1>7, <1>8, <1>9 DEF RoomInv, CountsFresh

\* A departure keeps everything but, when the owner goes, the ownership.
LEMMA DepartureKeeps ==
    ASSUME NEW room, RoomInv(room), NEW gone \in DOMAIN room.members
    PROVE  LET d == Departed(room, gone)
           IN  /\ RoomOK(d)
               /\ Unambiguous(d) /\ WithinCapacity(d)
               /\ SlotsApart(d) /\ CountsFresh(d)
               /\ gone # room.owner => OwnerInside(d) /\ OwnerMarked(d) /\ BlocksKept(d)
<1> DEFINE d == Departed(room, gone)
           D == DOMAIN room.members
<1>1. RoomOK(room) /\ RoomOK(d)
  BY DepartedType DEF RoomInv
<1>2. /\ SameSetup(d, room)
      /\ d.owner = room.owner
      /\ DOMAIN d.members = D \ {gone}
      /\ \A id \in DOMAIN d.members : d.members[id] = room.members[id]
      /\ d.slots = SlotCounts(d)
      /\ "FULL" \notin d.flags
  BY <1>1, DepartedFacts
<1> HIDE DEF d
<1>3. Unambiguous(d)
  BY <1>2 DEF Unambiguous, RoomInv
<1>4. WithinCapacity(d)
  <2>1. Cardinality(D \ {gone}) <= Cardinality(D)
    BY <1>1, MembersFinite, FS_Subset
  <2>2. Cardinality(D) \in Nat /\ Cardinality(D \ {gone}) \in Nat
    BY <1>1, <1>2, MembersFinite
  <2>3. Cardinality(D) <= room.maxSlot /\ room.maxSlot \in Nat
    BY DEF RoomInv, RoomOK, WithinCapacity
  <2>4. QED
    BY <1>2, <2>1, <2>2, <2>3 DEF WithinCapacity, SameSetup
<1>5. SlotsApart(d)
  BY <1>2 DEF SlotsApart, RoomInv, Fits, SameSetup
<1>6. ASSUME gone # room.owner PROVE OwnerInside(d) /\ OwnerMarked(d) /\ BlocksKept(d)
  <2>1. OwnerInside(d)
    BY <1>2, <1>6 DEF OwnerInside, RoomInv
  <2>2. OwnerMarked(d)
    BY <1>2 DEF OwnerMarked, RoomInv, Fits, SameSetup
  <2>3. BlocksKept(d)
    <3>1. d.blocked = room.blocked
      BY <1>2 DEF SameSetup
    <3>2. BlocksKept(room)
      BY DEF RoomInv
    <3>3. QED
      BY <1>2, <3>1, <3>2 DEF BlocksKept
  <2>4. QED
    BY <2>1, <2>2, <2>3
<1>7. QED
  BY <1>1, <1>2, <1>3, <1>4, <1>5, <1>6 DEF CountsFresh, d

\* CmdLeaveRoom and DoLeaveRoom keep the invariant of a room that remains,
\* whoever inherits it.
LEMMA LeaveKeepsRoomInv ==
    ASSUME NEW room, RoomInv(room), NEW gone \in DOMAIN room.members,
           NEW after \in AfterLeave(room, gone)
    PROVE  RoomInv(after)
<1> DEFINE d == Departed(room, gone)
<1>1. /\ RoomOK(room) /\ RoomOK(d)
      /\ Unambiguous(d) /\ WithinCapacity(d) /\ SlotsApart(d) /\ CountsFresh(d)
      /\ gone # room.owner => OwnerInside(d) /\ OwnerMarked(d) /\ BlocksKept(d)
  BY DepartureKeeps DEF RoomInv
<1>2. /\ SameSetup(d, room)
      /\ DOMAIN d.members = DOMAIN room.members \ {gone}
      /\ \A id \in DOMAIN d.members : d.members[id] = room.members[id]
  BY <1>1, DepartedFacts
<1> HIDE DEF d
<1>3. CASE gone # room.owner
  BY <1>1, <1>3 DEF AfterLeave, RoomInv, d
<1>4. CASE gone = room.owner
  <2>1. PICK next \in DOMAIN d.members : after = HandOver(d, next)
    BY <1>4 DEF AfterLeave, d
  <2>2. /\ SameSetup(after, d)
        /\ after.owner = next
        /\ DOMAIN after.members = DOMAIN d.members
        /\ \A id \in DOMAIN after.members :
             /\ after.members[id].user = d.members[id].user
             /\ after.members[id].blocks = d.members[id].blocks
             /\ after.members[id].owner <=> id = next \/ d.members[id].owner
        /\ after.slots = d.slots
        /\ after.flags = d.flags
    BY <1>1, <2>1, HandOverFacts
  <2>3. Fits(after) = Fits(room) /\ after.blocked = room.blocked
    BY <1>2, <2>2 DEF SameSetup, Fits
  <2>4. RoomOK(after)
    BY <1>1, <2>1, HandOverType
  <2>5. OwnerInside(after) /\ Unambiguous(after)
    BY <1>1, <2>1, <2>2 DEF OwnerInside, Unambiguous
  <2>6. WithinCapacity(after)
    BY <1>1, <2>2 DEF WithinCapacity, IsFull, SameSetup
  <2>7. SlotsApart(after)
    BY <1>1, <2>2 DEF SlotsApart, Fits, SameSetup
  <2>8. OwnerMarked(after)
    <3>1. OwnerMarked(room)
      BY DEF RoomInv
    <3>2. QED
      BY <1>2, <1>4, <2>2, <2>3, <3>1 DEF OwnerMarked
  <2>9. BlocksKept(after)
    <3>1. BlocksKept(room)
      BY DEF RoomInv
    <3>2. \A id \in DOMAIN after.members :
            /\ id \in DOMAIN room.members /\ id # room.owner
            /\ after.members[id].user = room.members[id].user
            /\ after.members[id].blocks = room.members[id].blocks
      BY <1>2, <1>4, <2>2
    <3>3. QED
      BY <2>3, <3>1, <3>2 DEF BlocksKept
  <2>10. CountsFresh(after)
    <3>1. SameSlots(after, d)
      BY <2>2 DEF SameSlots, SameSetup
    <3>2. QED
      BY <1>1, <2>2, <3>1, SlotCountsDepend DEF CountsFresh
  <2>11. QED
    BY <2>4, <2>5, <2>6, <2>7, <2>8, <2>9, <2>10 DEF RoomInv
<1>5. QED
  BY <1>3, <1>4

\* CmdKickoutRoomMember keeps the invariant, whether or not the kicked user is
\* put on the room's block list.
LEMMA KickKeepsRoomInv ==
    ASSUME NEW room, RoomInv(room),
           NEW target \in DOMAIN room.members, target # room.owner
    PROVE  LET d == Departed(room, target)
               t == room.members[target].user
           IN  RoomInv(d) /\ RoomInv([d EXCEPT !.blocked = @ \cup {t}])
<1> DEFINE d == Departed(room, target)
           t == room.members[target].user
           b == [d EXCEPT !.blocked = @ \cup {t}]
<1>1. RoomInv(d)
  BY DepartureKeeps DEF RoomInv
<1>2. /\ DOMAIN d.members = DOMAIN room.members \ {target}
      /\ \A id \in DOMAIN d.members : d.members[id] = room.members[id]
  BY DepartedFacts DEF RoomInv
<1>3. t \in Users
  BY DEF RoomInv, RoomOK, Member
<1> HIDE DEF d, t
<1>4. RoomOK(b)
  BY <1>1, <1>3 DEF RoomInv, RoomOK
<1>5. /\ b.members = d.members /\ b.owner = d.owner /\ b.maxSlot = d.maxSlot
      /\ b.flags = d.flags /\ b.slots = d.slots
      /\ b.groups = d.groups /\ b.passwdSlotMask = d.passwdSlotMask
      /\ b.blocked = d.blocked \cup {t}
  BY <1>1 DEF RoomInv, RoomOK
<1>6. OwnerInside(b) /\ Unambiguous(b) /\ WithinCapacity(b)
  BY <1>1, <1>5 DEF RoomInv, OwnerInside, Unambiguous, WithinCapacity, IsFull
<1>7. SlotsApart(b) /\ OwnerMarked(b)
  BY <1>1, <1>5 DEF RoomInv, SlotsApart, OwnerMarked, Fits
<1>8. BlocksKept(b)
  <2>1. Unambiguous(room)
    BY DEF RoomInv
  <2>2. \A i \in DOMAIN d.members : d.members[i].user # t
    BY <1>2, <2>1 DEF Unambiguous, t
  <2>3. BlocksKept(d)
    BY <1>1 DEF RoomInv
  <2>4. QED
    BY <1>5, <2>2, <2>3 DEF BlocksKept
<1>9. CountsFresh(b)
  <2>1. SameSlots(b, d)
    BY <1>5 DEF SameSlots
  <2>2. QED
    BY <1>1, <1>5, <2>1, SlotCountsDepend DEF RoomInv, CountsFresh
<1>10. RoomInv(b)
  BY <1>4, <1>6, <1>7, <1>8, <1>9 DEF RoomInv
<1>11. QED
  BY <1>1, <1>10 DEF d, t

\* CmdSetRoomDataInternal keeps the invariant: it cannot set FULL, and it
\* counts the slots again under a new mask.
LEMMA DataKeepsRoomInv ==
    ASSUME NEW room, RoomInv(room), NEW filter, NEW attr \in SUBSET Flags,
           NEW mask \in SUBSET (1..NSlots), NEW newMask \in BOOLEAN,
           NEW v \in AttrValues \cup {NoAttr}
    PROVE  LET flagged == WithFlags(room, filter, attr)
               masked  == IF newMask
                          THEN RecomputeRoomSlotCounts(
                                   [flagged EXCEPT !.passwdSlotMask = mask])
                          ELSE flagged
           IN  RoomInv([masked EXCEPT !.attr = v])
<1> DEFINE flagged  == WithFlags(room, filter, attr)
           remasked == [flagged EXCEPT !.passwdSlotMask = mask]
           counted  == RecomputeRoomSlotCounts(remasked)
           masked   == IF newMask THEN counted ELSE flagged
           data     == [masked EXCEPT !.attr = v]
<1>1. RoomOK(room) /\ RoomOK(flagged)
  BY WithFlagsType DEF RoomInv
<1>2. /\ flagged.members = room.members /\ flagged.owner = room.owner
      /\ flagged.maxSlot = room.maxSlot /\ flagged.slots = room.slots
      /\ flagged.groups = room.groups /\ flagged.passwdSlotMask = room.passwdSlotMask
      /\ flagged.blocked = room.blocked
      /\ "FULL" \in flagged.flags => "FULL" \in room.flags
  BY <1>1 DEF WithFlags, RoomOK
<1> HIDE DEF flagged
<1>3. RoomOK(remasked)
  BY <1>1 DEF RoomOK
<1>4. /\ remasked.members = flagged.members /\ remasked.owner = flagged.owner
      /\ remasked.maxSlot = flagged.maxSlot /\ remasked.groups = flagged.groups
      /\ remasked.blocked = flagged.blocked /\ remasked.flags = flagged.flags
  BY <1>1 DEF RoomOK
<1> HIDE DEF remasked
<1>5. RoomOK(counted)
  BY <1>3, RecomputeType
<1>6. /\ counted.members = flagged.members /\ counted.owner = flagged.owner
      /\ counted.maxSlot = flagged.maxSlot /\ counted.groups = flagged.groups
      /\ counted.blocked = flagged.blocked /\ counted.flags = flagged.flags
      /\ counted.passwdSlotMask = remasked.passwdSlotMask
      /\ counted.slots = SlotCounts(remasked)
  BY <1>3, <1>4 DEF RecomputeRoomSlotCounts, RoomOK
<1>7. counted.slots = SlotCounts(counted)
  <2>1. SameSlots(counted, remasked)
    BY <1>4, <1>6 DEF SameSlots
  <2>2. QED
    BY <1>6, <2>1, SlotCountsDepend
<1>8. flagged.slots = SlotCounts(flagged)
  <2>1. SameSlots(flagged, room)
    BY <1>2 DEF SameSlots
  <2>2. QED
    BY <1>2, <2>1, SlotCountsDepend DEF RoomInv, CountsFresh
<1> HIDE DEF counted
<1>9. /\ RoomOK(masked) /\ masked.slots = SlotCounts(masked)
      /\ masked.members = room.members /\ masked.owner = room.owner
      /\ masked.maxSlot = room.maxSlot /\ masked.blocked = room.blocked
      /\ "FULL" \in masked.flags => "FULL" \in room.flags
  <2>1. CASE newMask
    BY <1>2, <1>5, <1>6, <1>7, <2>1
  <2>2. CASE ~newMask
    BY <1>1, <1>2, <1>8, <2>2
  <2>3. QED
    BY <2>1, <2>2
<1> HIDE DEF masked
<1>10. RoomOK(data)
  BY <1>9 DEF RoomOK
<1>11. /\ data.members = room.members /\ data.owner = room.owner
       /\ data.maxSlot = room.maxSlot /\ data.blocked = room.blocked
       /\ "FULL" \in data.flags => "FULL" \in room.flags
       /\ data.slots = masked.slots
       /\ SameSlots(data, masked)
  BY <1>9 DEF RoomOK, SameSlots
<1> HIDE DEF data
<1>12. OwnerInside(data) /\ Unambiguous(data) /\ WithinCapacity(data)
  BY <1>11 DEF RoomInv, OwnerInside, Unambiguous, WithinCapacity, IsFull
<1>13. SlotsApart(data) /\ OwnerMarked(data) /\ BlocksKept(data)
  BY <1>11 DEF RoomInv, SlotsApart, OwnerMarked, BlocksKept, Fits
<1>14. CountsFresh(data)
  BY <1>9, <1>11, SlotCountsDepend DEF CountsFresh
<1>15. RoomInv(data)
  BY <1>10, <1>12, <1>13, <1>14 DEF RoomInv
<1>16. QED
  BY <1>15 DEF data, masked, counted, remasked, flagged

(***************************************************************************)
(* What the invariant of a room means for its counts.                      *)
(***************************************************************************)

\* Splitting a finite set in two.
LEMMA SplitCardinality ==
    ASSUME NEW S, IsFiniteSet(S), NEW P \in SUBSET S
    PROVE  /\ Cardinality(S \ P) \in Nat /\ Cardinality(P) \in Nat
           /\ Cardinality(S \ P) + Cardinality(P) = Cardinality(S)
<1>1. IsFiniteSet(P) /\ IsFiniteSet(S \ P)
  BY FS_Subset
<1>2. Cardinality(P) \in Nat /\ Cardinality(S \ P) \in Nat /\ Cardinality(S) \in Nat
  BY <1>1, FS_CardinalityType
<1>3. Cardinality(S \ P) = Cardinality(S) - Cardinality(S \cap P)
  BY FS_Difference
<1>4. S \cap P = P
  OBVIOUS
<1>5. QED
  BY <1>2, <1>3, <1>4

\* Members of a room that fits take as many slots of its own as there are
\* members.
LEMMA SlotsTaken ==
    ASSUME NEW room, RoomInv(room), Fits(room)
    PROVE  /\ JoinedSlotMask(room) \subseteq SlotMaskForMaxSlot(room.maxSlot)
           /\ Cardinality(JoinedSlotMask(room)) = Cardinality(DOMAIN room.members)
<1> DEFINE D     == DOMAIN room.members
           taken == {SlotOf(id) : id \in D}
           f     == [id \in D |-> SlotOf(id)]
<1>1. /\ \A id \in D : SlotOf(id) \in 1..room.maxSlot
      /\ \A i, j \in D : SlotOf(i) = SlotOf(j) => i = j
  BY DEF RoomInv, SlotsApart
<1>2. room.maxSlot \in Nat /\ room.maxSlot <= NSlots /\ NSlots \in Nat
  BY SlotsAssumption DEF RoomInv, RoomOK, Fits
<1>3. JoinedSlotMask(room) = taken /\ taken \subseteq SlotMaskForMaxSlot(room.maxSlot)
  BY <1>1, <1>2 DEF JoinedSlotMask, SlotMaskForMaxSlot
<1>4. f \in Surjection(D, taken) /\ f \in Injection(D, taken)
  BY <1>1 DEF Surjection, Injection, IsInjective
<1>5. IsFiniteSet(D)
  BY MembersFinite DEF RoomInv
<1>6. Cardinality(taken) = Cardinality(D)
  BY <1>4, <1>5, FS_Surjection
<1>7. QED
  BY <1>3, <1>6

\* Public and private slots make up the capacity; open slots and members too.
LEMMA SlotsAddUp ==
    ASSUME NEW room, RoomInv(room), Fits(room)
    PROVE  /\ room.slots.public + room.slots.private = room.maxSlot
           /\ room.slots.openPublic + room.slots.openPrivate
                + Cardinality(DOMAIN room.members) = room.maxSlot
<1> DEFINE valid   == SlotMaskForMaxSlot(room.maxSlot)
           private == PrivateSlots(room)
           joined  == JoinedSlotMask(room)
           open    == valid \ joined
           members == Cardinality(DOMAIN room.members)
<1>1. room.maxSlot \in Nat /\ room.maxSlot <= NSlots /\ NSlots \in Nat
  BY SlotsAssumption DEF RoomInv, RoomOK, Fits
<1>2. valid = 1..room.maxSlot
  BY <1>1 DEF SlotMaskForMaxSlot
<1>3. IsFiniteSet(valid) /\ Cardinality(valid) = room.maxSlot
  BY <1>1, <1>2, FS_Interval
<1>4. private \subseteq valid
  BY DEF PrivateSlots, GroupPasswordSlotMask
<1>5. joined \subseteq valid /\ Cardinality(joined) = members
  BY SlotsTaken
<1>6. /\ room.slots.public = Cardinality(valid \ private)
      /\ room.slots.private = Cardinality(private)
      /\ room.slots.openPublic = Cardinality((valid \ private) \ (joined \cap valid))
      /\ room.slots.openPrivate = Cardinality(private \ (joined \cap valid))
  BY DEF RoomInv, CountsFresh, SlotCounts
<1> HIDE DEF valid, private, joined
<1>7. (valid \ private) \ (joined \cap valid) = open \ (private \cap open)
  OBVIOUS
<1>8. private \ (joined \cap valid) = private \cap open
  BY <1>4
<1>9. Cardinality(valid \ private) + Cardinality(private) = room.maxSlot
  BY <1>3, <1>4, SplitCardinality
<1>10. /\ Cardinality(open) \in Nat /\ Cardinality(joined) \in Nat
       /\ Cardinality(open) + Cardinality(joined) = room.maxSlot
  BY <1>3, <1>5, SplitCardinality
<1>11. /\ Cardinality(open \ (private \cap open)) \in Nat
       /\ Cardinality(private \cap open) \in Nat
       /\ Cardinality(open \ (private \cap open)) + Cardinality(private \cap open)
            = Cardinality(open)
  <2>1. IsFiniteSet(open)
    BY <1>3, FS_Subset
  <2>2. private \cap open \in SUBSET open
    OBVIOUS
  <2>3. QED
    BY <2>1, <2>2, SplitCardinality
<1>12. QED
  BY <1>5, <1>6, <1>7, <1>8, <1>9, <1>10, <1>11

\* There are no more users in a room than member entries.
LEMMA RosterSize ==
    ASSUME NEW room, RoomOK(room)
    PROVE  /\ IsFiniteSet(UsersOf(room))
           /\ Cardinality(UsersOf(room)) \in Nat
           /\ Cardinality(UsersOf(room)) <= Cardinality(DOMAIN room.members)
<1> DEFINE f == [id \in DOMAIN room.members |-> room.members[id].user]
<1>1. f \in Surjection(DOMAIN room.members, UsersOf(room))
  BY DEF Surjection, UsersOf
<1>2. QED
  BY <1>1, MembersFinite, FS_Surjection, FS_CardinalityType

\* A departure leaves the room's setup alone, whoever inherits it.
LEMMA AfterLeaveSetup ==
    ASSUME NEW room, RoomOK(room), NEW gone, NEW after \in AfterLeave(room, gone)
    PROVE  SameSetup(after, room)
<1> DEFINE d == Departed(room, gone)
<1>1. RoomOK(d) /\ SameSetup(d, room)
  BY DepartedType, DepartedFacts
<1>2. after = d \/ \E next \in DOMAIN d.members : after = HandOver(d, next)
  BY DEF AfterLeave
<1> HIDE DEF d
<1>3. after = d \/ SameSetup(after, d)
  BY <1>1, <1>2, HandOverFacts
<1>4. QED
  BY <1>1, <1>3 DEF SameSetup

---------------------------------------------------------------------------
(* The handlers                                                            *)

(***************************************************************************)
(* Tasks and events.                                                       *)
(***************************************************************************)

\* Queues of tasks stay queues of tasks when tasks are taken and put.
LEMMA SeqOfTasks ==
    ASSUME NEW s \in Task, NEW t \in Task
    PROVE  <<>> \in Seq(Task) /\ <<s>> \in Seq(Task) /\ <<s, t>> \in Seq(Task)
OBVIOUS

\* The five kinds of task are tasks.
LEMMA TaskTypes ==
    ASSUME NEW ev \in Event
    PROVE  /\ \A r \in Nat : \A id \in MemberIds : LookupTask(r, id) \in Task
           /\ \A v \in Users \cup {NoUser} : NotifyTask(ev, v) \in Task
           /\ \A v \in Users : DirectTask(ev, v) \in Task
           /\ \A V \in SUBSET Users : SendTask(ev, V) \in Task
           /\ UnregisterTask \in Task
BY DEF LookupTask, NotifyTask, DirectTask, SendTask, UnregisterTask, Task

\* The events the handlers build are events.
LEMMA EventTypes ==
    /\ \A e \in {"JOINED", "LEFT", "KICKEDOUT"} :
        \A r \in Nat : \A id \in MemberIds \cup {NoId} : \A v \in Users \cup {NoUser} :
            MemberEvent(e, r, id, v) \in Event
    /\ \A r \in Nat : \A x \in AttrValues \cup {NoAttr} : DataEvent(r, x) \in Event
BY DEF MemberEvent, DataEvent, Event

(***************************************************************************)
(* The rooms the handlers make and find.                                   *)
(***************************************************************************)

\* findByNpid finds the entry of a user who is in the room.
LEMMA FindByNpidFinds ==
    ASSUME NEW room, NEW u \in UsersOf(room)
    PROVE  /\ FindByNpid(room, u) \in DOMAIN room.members
           /\ room.members[FindByNpid(room, u)].user = u
BY DEF UsersOf, FindByNpid

\* A value cut to 16 bits is one of 2^16.
LEMMA U16Type ==
    ASSUME NEW n \in Nat
    PROVE  U16(n) \in Nat /\ U16(n) < U16Size
BY RequestsAssumption DEF U16

\* CmdCreateRoom's new room: its creator alone, owner, in slot 1.
LEMMA NewRoomInv ==
    ASSUME session \in [Users -> Session], NEW u \in Users, NEW q \in RoomRequests
    PROVE  LET room == NewRoom(u, q)
           IN  /\ RoomInv(room)
               /\ room.maxSlot \in 1..U16Size
               /\ room.maxSlot <= NSlots \/ room.maxSlot = U16(q.maxSlots)
               /\ UsersOf(room) = {u}
               /\ room.members[room.owner].user = u
               /\ room.owner[2] = room.memberIdCounter
<1> DEFINE maxSlot == U16(q.maxSlots)
           empty == [maxSlot         |-> IF maxSlot < 1 THEN 1 ELSE maxSlot,
                     worldId         |-> IF q.world # 0 THEN q.world ELSE session[u].worldId,
                     lobbyId         |-> IF q.lobby # 0 THEN q.lobby ELSE session[u].lobbyId,
                     flags           |-> q.flags \ {"FULL"},
                     allowed         |-> q.allowed,
                     blocked         |-> q.blocked,
                     groups          |-> q.groups,
                     passwdSlotMask  |-> q.passwdSlotMask,
                     slots           |-> [public |-> 0, private |-> 0,
                                          openPublic |-> 0, openPrivate |-> 0],
                     attr            |-> q.attr,
                     owner           |-> NoId,
                     members         |-> <<>>,
                     memberIdCounter |-> 0]
           id    == AllocMemberId(empty)
           m     == [user |-> u, owner |-> TRUE, blocks |-> {}]
           owned == [AddMember(empty, m) EXCEPT !.owner = id]
           room  == RecomputeRoomSlotCounts(owned)
<1>1. q \in RoomRequest /\ maxSlot \in Nat /\ maxSlot < U16Size /\ U16Size \in Nat
  BY U16Type, RequestsAssumption DEF RoomRequest
<1>2. session[u].worldId \in Nat /\ session[u].lobbyId \in Nat
  BY DEF Session
<1>3. DOMAIN empty.members = {}
  OBVIOUS
<1>4. /\ id \in MemberIds /\ SlotOf(id) = 1
      /\ id[2] = NextCounter(empty) /\ NextCounter(empty) \in 0..(IdCycle - 1)
  <2>1. empty.memberIdCounter \in 0..(IdCycle - 1)
    BY SlotsAssumption
  <2> HIDE DEF empty
  <2>2. FreeSlot(empty) \in 1..(NSlots + 1) /\ \A t \in 1..(FreeSlot(empty) - 1) : FALSE
    BY <1>3, FreeSlotProperties
  <2>3. PICK s \in 1..(NSlots + 1) : s = FreeSlot(empty) /\ \A t \in 1..(s - 1) : FALSE
    BY <2>2
  <2>4. s = 1
    <3>1. SUFFICES ASSUME s # 1 PROVE FALSE
      OBVIOUS
    <3>2. 1 \in 1..(s - 1)
      BY <3>1, SlotsAssumption
    <3>3. QED
      BY <2>3, <3>2
  <2>5. id[2] = NextCounter(empty)
    BY DEF AllocMemberId
  <2>6. QED
    BY <2>1, <2>3, <2>4, <2>5, AllocMemberIdType
<1>5. /\ owned.maxSlot = empty.maxSlot /\ owned.worldId = empty.worldId
      /\ owned.lobbyId = empty.lobbyId /\ owned.flags = q.flags \ {"FULL"}
      /\ owned.allowed = q.allowed /\ owned.blocked = q.blocked
      /\ owned.groups = q.groups /\ owned.passwdSlotMask = q.passwdSlotMask
      /\ owned.slots = empty.slots /\ owned.attr = q.attr /\ owned.owner = id
      /\ owned.members = [x \in {id} |-> m]
      /\ owned.memberIdCounter = NextCounter(empty)
      /\ DOMAIN owned = {"maxSlot", "worldId", "lobbyId", "flags", "allowed", "blocked",
                         "groups", "passwdSlotMask", "slots", "attr", "owner", "members",
                         "memberIdCounter"}
  BY <1>3 DEF AddMember
<1>6. RoomOK(owned)
  <2>1. owned.slots \in SlotCounters
    BY <1>5 DEF SlotCounters
  <2>2. owned.maxSlot \in Nat \ {0} /\ owned.worldId \in Nat /\ owned.lobbyId \in Nat
    BY <1>1, <1>2, <1>5 DEF RoomRequest
  <2>3. m \in Member
    BY DEF Member
  <2>4. /\ q.flags \subseteq Flags /\ q.allowed \subseteq Users /\ q.blocked \subseteq Users
        /\ q.groups \in Seq(Group) /\ q.passwdSlotMask \subseteq 1..NSlots
        /\ q.attr \in AttrValues \cup {NoAttr}
    BY <1>1 DEF RoomRequest
  <2>5. /\ owned.owner \in MemberIds
        /\ DOMAIN owned.members \subseteq MemberIds
        /\ owned.members \in [DOMAIN owned.members -> Member]
        /\ owned.memberIdCounter \in 0..(IdCycle - 1)
    <3> HIDE DEF empty, id, owned, m
    <3>1. QED
      BY <1>4, <1>5, <2>3
  <2> HIDE DEF empty, id, owned, m
  <2>6. QED
    BY <1>5, <2>1, <2>2, <2>4, <2>5 DEF RoomOK
<1>7. owned.maxSlot \in 1..U16Size
  BY <1>1, <1>5
<1>8. owned.maxSlot <= NSlots \/ owned.maxSlot = U16(q.maxSlots)
  BY <1>1, <1>5, SlotsAssumption
<1> HIDE DEF empty, id, owned
<1>9. /\ RoomOK(room)
      /\ SameSetup(room, owned) /\ room.owner = id /\ room.flags = owned.flags
      /\ room.members = [x \in {id} |-> m] /\ room.memberIdCounter = owned.memberIdCounter
      /\ room.slots = SlotCounts(owned)
  BY <1>5, <1>6, RecomputeType DEF RecomputeRoomSlotCounts, SameSetup
<1> HIDE DEF room
<1>10. OwnerInside(room) /\ Unambiguous(room) /\ BlocksKept(room)
  BY <1>9 DEF OwnerInside, Unambiguous, BlocksKept
<1>11. WithinCapacity(room)
  <2>1. Cardinality(DOMAIN room.members) = 1
    BY <1>9, FS_Singleton
  <2>2. QED
    BY <1>5, <1>7, <1>9, <2>1 DEF WithinCapacity, SameSetup
<1>12. SlotsApart(room) /\ OwnerMarked(room)
  BY <1>4, <1>7, <1>9 DEF SlotsApart, OwnerMarked, SameSetup
<1>13. CountsFresh(room)
  <2>1. SameSlots(room, owned)
    BY <1>5, <1>9 DEF SameSlots, SameSetup
  <2>2. QED
    BY <1>9, <2>1, SlotCountsDepend DEF CountsFresh
<1>14. /\ UsersOf(room) = {u} /\ room.members[room.owner].user = u
       /\ room.owner[2] = room.memberIdCounter
  BY <1>4, <1>5, <1>9 DEF UsersOf
<1>15. RoomInv(room) /\ room.maxSlot = owned.maxSlot
  BY <1>9, <1>10, <1>11, <1>12, <1>13 DEF RoomInv, SameSetup
<1>16. NewRoom(u, q) = room
  BY DEF NewRoom, room, owned, id, empty
<1>17. QED
  BY <1>7, <1>8, <1>14, <1>15, <1>16

(***************************************************************************)
(* The inductive invariant.                                                *)
(***************************************************************************)

IInv ==
    /\ TypeOK
    /\ \A r \in DOMAIN rooms : RoomInv(rooms[r])
    /\ IndexExact

\* Setting what a handler has still to do keeps the type of todo.
LEMMA ContinueType ==
    ASSUME todo \in [Users -> Seq(Task)], NEW u \in Users, NEW tasks \in Seq(Task),
           Continue(u, tasks)
    PROVE  todo' \in [Users -> Seq(Task)]
BY DEF Continue

\* Noting the room just entered keeps the type of the sessions.
LEMMA EnteredType ==
    ASSUME session \in [Users -> Session], NEW u \in Users, NEW r \in Nat,
           NEW room, RoomOK(room), EnteredRoom(u, r, room)
    PROVE  session' \in [Users -> Session]
<1>1. U16(room.worldId) \in Nat /\ U16(room.lobbyId) \in Nat
  BY U16Type DEF RoomOK
<1>2. session[u] \in Session
  OBVIOUS
<1>3. [session[u] EXCEPT !.roomId = r, !.worldId = U16(room.worldId),
                         !.lobbyId = U16(room.lobbyId)] \in Session
  BY <1>1, <1>2 DEF Session
<1>4. QED
  BY <1>1, <1>3 DEF EnteredRoom, Session

\* A handler that changes a room, keeping it in its world and lobby.
LEMMA RoomChangeKeepsIInv ==
    ASSUME IInv, NEW r \in DOMAIN rooms, NEW room, RoomInv(room),
           room.worldId = rooms[r].worldId, room.lobbyId = rooms[r].lobbyId,
           PutRoom(r, room),
           UNCHANGED <<nextRoomId, worldRooms, lobbyRooms>>, abandoned' \subseteq abandoned,
           session' \in [Users -> Session], todo' \in [Users -> Seq(Task)]
    PROVE  IInv'
<1>1. DOMAIN rooms' = DOMAIN rooms
  BY DEF PutRoom
<1>2. \A x \in DOMAIN rooms : rooms'[x] = IF x = r THEN room ELSE rooms[x]
  BY DEF PutRoom
<1>3. \A x \in DOMAIN rooms' : RoomInv(rooms'[x])
  BY <1>1, <1>2 DEF IInv
<1>4. TypeOK'
  BY <1>1, <1>3 DEF IInv, TypeOK, RoomInv
<1>5. \A x \in DOMAIN rooms : /\ rooms'[x].worldId = rooms[x].worldId
                             /\ rooms'[x].lobbyId = rooms[x].lobbyId
  BY <1>2
<1>6. IndexExact'
  BY <1>1, <1>5 DEF IInv, IndexExact
<1>7. QED
  BY <1>3, <1>4, <1>6 DEF IInv

\* A handler that changes no room.
LEMMA OtherChangeKeepsIInv ==
    ASSUME IInv, UNCHANGED <<rooms, nextRoomId, worldRooms, lobbyRooms>>,
           session' \in [Users -> Session], todo' \in [Users -> Seq(Task)],
           abandoned' \subseteq Nat \X Users
    PROVE  IInv'
BY DEF IInv, TypeOK, IndexExact

\* The invariant holds when the server starts.
LEMMA InitIInv == Init => IInv
<1>1. ASSUME Init PROVE IInv
  <2>1. DOMAIN rooms = {}
    BY <1>1 DEF Init
  <2>2. FreshSession \in Session
    BY DEF FreshSession, Session
  <2>3. TypeOK
    BY <1>1, <2>1, <2>2 DEF Init, TypeOK
  <2>4. IndexExact
    BY <1>1, <2>1 DEF Init, IndexExact
  <2>5. QED
    BY <2>1, <2>3, <2>4 DEF IInv
<1>2. QED
  BY <1>1

\* Login, ContextStart and ContextStop keep the invariant.
LEMMA SessionStepsKeepIInv ==
    ASSUME IInv, NEW u \in Users,
           \/ Login(u)
           \/ \E ctx \in ContextIds : CmdContextStart(u, ctx)
           \/ CmdContextStop(u)
    PROVE  IInv'
<1>1. /\ session \in [Users -> Session] /\ todo \in [Users -> Seq(Task)]
      /\ abandoned' \subseteq Nat \X Users
  BY DEF IInv, TypeOK, Login, CmdContextStart, CmdContextStop
<1>2. CASE Login(u)
  <2>1. [FreshSession EXCEPT !.registered = TRUE] \in Session
    BY DEF FreshSession, Session
  <2>2. session' \in [Users -> Session]
    BY <1>1, <1>2, <2>1 DEF Login
  <2>3. QED
    BY <1>1, <1>2, <2>2, OtherChangeKeepsIInv DEF Login
<1>3. ASSUME NEW ctx \in ContextIds, CmdContextStart(u, ctx) PROVE IInv'
  <2>1. ctx \in Nat
    BY RequestsAssumption
  <2>2. session' \in [Users -> Session]
    BY <1>1, <1>3, <2>1 DEF CmdContextStart, Session
  <2>3. QED
    BY <1>1, <1>3, <2>2, OtherChangeKeepsIInv DEF CmdContextStart
<1>4. CASE CmdContextStop(u)
  <2>1. [session[u] EXCEPT !.ctxId = 0, !.initialized = FALSE] \in Session
    BY <1>1 DEF Session
  <2>2. session' = [session EXCEPT ![u] = [session[u] EXCEPT !.ctxId = 0, !.initialized = FALSE]]
    BY <1>1, <1>4 DEF CmdContextStop
  <2>3. session' \in [Users -> Session]
    BY <1>1, <2>1, <2>2
  <2>4. QED
    BY <1>1, <1>4, <2>3, OtherChangeKeepsIInv DEF CmdContextStop
<1>5. QED
  BY <1>2, <1>3, <1>4

\* CmdCreateRoom keeps the invariant.
LEMMA CreateKeepsIInv ==
    ASSUME IInv, NEW u \in Users, NEW q \in RoomRequests, CmdCreateRoom(u, q)
    PROVE  IInv'
<1> DEFINE r    == nextRoomId
           room == NewRoom(u, q)
<1>1. /\ session \in [Users -> Session] /\ todo \in [Users -> Seq(Task)]
      /\ r \in Nat \ {0} /\ DOMAIN rooms \subseteq 1..(r - 1)
      /\ worldRooms \subseteq Nat \X Nat /\ lobbyRooms \subseteq Nat \X Nat
      /\ abandoned \subseteq Nat \X Users
  BY DEF IInv, TypeOK
<1>2. RoomInv(room) /\ RoomOK(room)
  BY <1>1, NewRoomInv DEF RoomInv
<1> HIDE DEF room
<1>3. /\ r' = r + 1
      /\ EnteredRoom(u, r, room)
      /\ PutRoom(r, room)
      /\ worldRooms' = IF room.worldId # 0
                       THEN Listed(worldRooms, room.worldId, r) ELSE worldRooms
      /\ lobbyRooms' = IF room.worldId = 0 /\ room.lobbyId # 0
                       THEN Listed(lobbyRooms, room.lobbyId, r) ELSE lobbyRooms
      /\ UNCHANGED <<todo, abandoned>>
  BY DEF CmdCreateRoom, room
<1>4. session' \in [Users -> Session]
  BY <1>1, <1>2, <1>3, EnteredType
<1>5. r \notin DOMAIN rooms
  BY <1>1
<1>6. /\ DOMAIN rooms' = DOMAIN rooms \cup {r}
      /\ rooms'[r] = room
      /\ \A x \in DOMAIN rooms : rooms'[x] = rooms[x]
  BY <1>3, <1>5 DEF PutRoom
<1>7. \A x \in DOMAIN rooms' : RoomInv(rooms'[x])
  BY <1>2, <1>6 DEF IInv
<1>8. room.worldId \in Nat /\ room.lobbyId \in Nat
  BY <1>2 DEF RoomOK
<1>9. TypeOK'
  <2>1. DOMAIN rooms' \subseteq 1..(r' - 1) /\ nextRoomId' \in Nat \ {0}
    BY <1>1, <1>3, <1>6
  <2>2. worldRooms' \subseteq Nat \X Nat /\ lobbyRooms' \subseteq Nat \X Nat
    BY <1>1, <1>3, <1>8 DEF Listed
  <2>3. QED
    BY <1>1, <1>3, <1>4, <1>7, <2>1, <2>2 DEF TypeOK, RoomInv
<1>10. IndexExact'
  <2>1. IndexExact
    BY DEF IInv
  <2>2. worldRooms' = {<<rooms'[x].worldId, x>> :
                        x \in {y \in DOMAIN rooms' : rooms'[y].worldId # 0}}
    BY <1>3, <1>5, <1>6, <2>1 DEF IndexExact, Listed
  <2>3. lobbyRooms' = {<<rooms'[x].lobbyId, x>> :
                        x \in {y \in DOMAIN rooms' : rooms'[y].worldId = 0 /\ rooms'[y].lobbyId # 0}}
    BY <1>3, <1>5, <1>6, <2>1 DEF IndexExact, Listed
  <2>4. QED
    BY <2>2, <2>3 DEF IndexExact
<1>11. QED
  BY <1>7, <1>9, <1>10 DEF IInv

\* CmdJoinRoom keeps the invariant.
LEMMA JoinKeepsIInv ==
    ASSUME IInv, NEW u \in Users, NEW r \in DOMAIN rooms, NEW blocks \in BlockLists,
           CmdJoinRoom(u, r, blocks)
    PROVE  IInv'
<1> DEFINE room   == rooms[r]
           m      == [user |-> u, owner |-> FALSE, blocks |-> blocks]
           joined == Joined(room, m)
<1>1. /\ session \in [Users -> Session] /\ todo \in [Users -> Seq(Task)]
      /\ r \in Nat /\ RoomInv(room) /\ RoomOK(room)
  BY DEF IInv, TypeOK, RoomInv
<1>2. m \in Member
  BY RequestsAssumption DEF Member
<1>3. /\ ~IsFull(room) /\ u \notin UsersOf(room) /\ Admits(room, u, blocks)
      /\ PutRoom(r, joined)
      /\ EnteredRoom(u, r, joined)
      /\ Continue(u, <<LookupTask(r, AllocMemberId(room))>>)
      /\ UNCHANGED <<nextRoomId, worldRooms, lobbyRooms, abandoned>>
  BY DEF CmdJoinRoom, InRoom
<1>4. RoomInv(joined)
  BY <1>1, <1>2, <1>3, JoinKeepsRoomInv DEF Admits
<1>5. joined.worldId = room.worldId /\ joined.lobbyId = room.lobbyId
  BY <1>1, <1>2, JoinedFacts DEF SameSetup
<1>6. session' \in [Users -> Session]
  BY <1>1, <1>3, <1>4, EnteredType DEF RoomInv
<1>7. todo' \in [Users -> Seq(Task)]
  <2>1. AllocMemberId(room) \in MemberIds
    BY <1>1, AllocMemberIdType DEF RoomOK
  <2>2. LookupTask(r, AllocMemberId(room)) \in Task
    BY <1>1, <2>1 DEF LookupTask, Task
  <2>3. QED
    BY <1>1, <1>3, <2>2, SeqOfTasks, ContinueType
<1>8. QED
  BY <1>3, <1>4, <1>5, <1>6, <1>7, RoomChangeKeepsIInv

\* The section CmdLeaveRoom and DoLeaveRoom share, whatever the handler has
\* still to do after it.
LEMMA LeaveKeepsIInv ==
    ASSUME IInv, NEW u \in Users, NEW r \in DOMAIN rooms, InRoom(u, r),
           NEW rest \in Seq(Task), LeaveRoom(u, r, rest)
    PROVE  IInv'
<1> DEFINE room == rooms[r]
           me   == FindByNpid(room, u)
           left == NotifyTask(MemberEvent("LEFT", r, me, u), NoUser)
<1>1. /\ session \in [Users -> Session] /\ todo \in [Users -> Seq(Task)]
      /\ nextRoomId \in Nat \ {0} /\ DOMAIN rooms \subseteq 1..(nextRoomId - 1)
      /\ worldRooms \subseteq Nat \X Nat /\ lobbyRooms \subseteq Nat \X Nat
      /\ r \in Nat /\ RoomInv(room) /\ RoomOK(room)
      /\ abandoned \subseteq Nat \X Users /\ abandoned' \subseteq abandoned
  BY DEF IInv, TypeOK, RoomInv, LeaveRoom
<1>2. me \in DOMAIN room.members /\ me \in MemberIds
  BY <1>1, FindByNpidFinds DEF InRoom, RoomOK
<1>3. session' \in [Users -> Session]
  BY <1>1, ZenonT(30) DEF LeaveRoom, ResetRoomState, Session
<1>4. left \in Task
  BY <1>1, <1>2, EventTypes, TaskTypes
<1>5. <<left>> \o rest \in Seq(Task)
  BY <1>4, SeqOfTasks, ConcatProperties
<1> HIDE DEF me, left
<1>6. CASE DOMAIN room.members = {me}
  <2>1. /\ DropRoom(r) /\ Continue(u, rest) /\ UNCHANGED nextRoomId
        /\ worldRooms' = IF room.worldId # 0
                         THEN worldRooms \ {<<room.worldId, r>>} ELSE worldRooms
        /\ lobbyRooms' = IF room.worldId = 0 /\ room.lobbyId # 0
                         THEN lobbyRooms \ {<<room.lobbyId, r>>} ELSE lobbyRooms
    BY <1>6 DEF LeaveRoom, me
  <2>2. /\ DOMAIN rooms' = DOMAIN rooms \ {r}
        /\ \A x \in DOMAIN rooms' : rooms'[x] = rooms[x]
    BY <2>1 DEF DropRoom
  <2>3. \A x \in DOMAIN rooms' : RoomInv(rooms'[x])
    BY <2>2 DEF IInv
  <2>4. todo' \in [Users -> Seq(Task)]
    BY <1>1, <2>1, ContinueType
  <2>5. TypeOK'
    BY <1>1, <1>3, <2>1, <2>2, <2>3, <2>4 DEF TypeOK, RoomInv
  <2>6. IndexExact'
    <3>1. IndexExact
      BY DEF IInv
    <3>2. worldRooms' = {<<rooms'[x].worldId, x>> :
                            x \in {y \in DOMAIN rooms' : rooms'[y].worldId # 0}}
      BY <2>1, <2>2, <3>1 DEF IndexExact
    <3>3. lobbyRooms' = {<<rooms'[x].lobbyId, x>> :
                            x \in {y \in DOMAIN rooms' : rooms'[y].worldId = 0 /\ rooms'[y].lobbyId # 0}}
      BY <2>1, <2>2, <3>1 DEF IndexExact
    <3>4. QED
      BY <3>2, <3>3 DEF IndexExact
  <2>7. QED
    BY <2>3, <2>5, <2>6 DEF IInv
<1>7. CASE DOMAIN room.members # {me}
  <2>1. PICK after \in AfterLeave(room, me) : PutRoom(r, after)
    BY <1>7 DEF LeaveRoom, me
  <2>2. /\ Continue(u, <<left>> \o rest)
        /\ UNCHANGED <<nextRoomId, worldRooms, lobbyRooms>>
    BY <1>7 DEF LeaveRoom, me, left
  <2>3. RoomInv(after)
    BY <1>1, <1>2, LeaveKeepsRoomInv
  <2>4. after.worldId = room.worldId /\ after.lobbyId = room.lobbyId
    BY <1>1, AfterLeaveSetup DEF SameSetup
  <2>5. todo' \in [Users -> Seq(Task)]
    BY <1>1, <1>5, <2>2, ContinueType
  <2>6. QED
    BY <1>1, <1>3, <2>1, <2>2, <2>3, <2>4, <2>5, RoomChangeKeepsIInv
<1>8. QED
  BY <1>6, <1>7

\* CmdKickoutRoomMember keeps the invariant.
LEMMA KickKeepsIInv ==
    ASSUME IInv, NEW u \in Users, NEW r \in DOMAIN rooms,
           NEW target \in DOMAIN rooms[r].members, NEW block \in BOOLEAN,
           CmdKickoutRoomMember(u, r, target, block)
    PROVE  IInv'
<1> DEFINE room == rooms[r]
           t    == room.members[target].user
           rest == Departed(room, target)
           next == IF block THEN [rest EXCEPT !.blocked = @ \cup {t}] ELSE rest
           told == DirectTask(MemberEvent("KICKEDOUT", r, NoId, NoUser), t)
           left == NotifyTask(MemberEvent("LEFT", r, target, t), t)
<1>1. /\ session \in [Users -> Session] /\ todo \in [Users -> Seq(Task)]
      /\ r \in Nat /\ RoomInv(room) /\ RoomOK(room)
      /\ target \in MemberIds /\ t \in Users
  BY DEF IInv, TypeOK, RoomInv, RoomOK, Member
<1>2. /\ target # room.owner
      /\ PutRoom(r, next)
      /\ Continue(u, <<told, left>>)
      /\ UNCHANGED <<session, nextRoomId, worldRooms, lobbyRooms>>
      /\ abandoned' \subseteq abandoned
  BY DEF CmdKickoutRoomMember
<1>3. RoomInv(next)
  BY <1>1, <1>2, KickKeepsRoomInv
<1>4. next.worldId = room.worldId /\ next.lobbyId = room.lobbyId
  <2>1. rest.worldId = room.worldId /\ rest.lobbyId = room.lobbyId
    BY <1>1, DepartedFacts DEF SameSetup
  <2>2. QED
    BY <2>1
<1>5. todo' \in [Users -> Seq(Task)]
  <2>1. told \in Task /\ left \in Task
    BY <1>1, EventTypes, TaskTypes
  <2>2. <<told, left>> \in Seq(Task)
    BY <2>1, SeqOfTasks
  <2>3. QED
    BY <1>1, <1>2, <2>2, ContinueType
<1>6. QED
  BY <1>1, <1>2, <1>3, <1>4, <1>5, RoomChangeKeepsIInv

\* The disconnect cleanup keeps the invariant.
LEMMA DisconnectKeepsIInv ==
    ASSUME IInv, NEW u \in Users, Disconnect(u)
    PROVE  IInv'
<1> DEFINE r == session[u].roomId
<1>1. /\ session \in [Users -> Session] /\ todo \in [Users -> Seq(Task)]
      /\ abandoned \subseteq Nat \X Users
  BY DEF IInv, TypeOK
<1>2. <<UnregisterTask>> \in Seq(Task)
  BY DEF UnregisterTask, Task
<1>3. CASE session[u].initialized /\ r # 0 /\ InRoom(u, r)
  BY <1>2, <1>3, LeaveKeepsIInv DEF Disconnect, InRoom
<1>4. CASE ~(session[u].initialized /\ r # 0 /\ InRoom(u, r))
  <2>1. /\ Continue(u, <<UnregisterTask>>)
        /\ UNCHANGED <<session, rooms, nextRoomId, worldRooms, lobbyRooms, abandoned>>
    BY <1>4 DEF Disconnect
  <2>2. QED
    BY <1>1, <1>2, <2>1, ContinueType, OtherChangeKeepsIInv
<1>5. QED
  BY <1>3, <1>4

\* CmdSetRoomDataInternal keeps the invariant.
LEMMA SetDataKeepsIInv ==
    ASSUME IInv, NEW u \in Users, NEW r \in DOMAIN rooms, NEW q \in DataRequests,
           CmdSetRoomDataInternal(u, r, q)
    PROVE  IInv'
<1> DEFINE room    == rooms[r]
           flagged == WithFlags(room, q.filter, q.flags)
           masked  == IF q.newMask
                      THEN RecomputeRoomSlotCounts(
                               [flagged EXCEPT !.passwdSlotMask = q.passwdSlotMask])
                      ELSE flagged
           v       == IF q.attr = NoAttr THEN masked.attr ELSE q.attr
           next    == [masked EXCEPT !.attr = v]
<1>1. /\ session \in [Users -> Session] /\ todo \in [Users -> Seq(Task)]
      /\ r \in Nat /\ RoomInv(room) /\ RoomOK(room)
  BY DEF IInv, TypeOK, RoomInv
<1>2. /\ q.flags \in SUBSET Flags /\ q.newMask \in BOOLEAN
      /\ q.passwdSlotMask \in SUBSET (1..NSlots) /\ q.attr \in AttrValues \cup {NoAttr}
  BY RequestsAssumption DEF DataRequest
<1>3. RoomOK(flagged)
  BY <1>1, <1>2, WithFlagsType
<1>4. flagged.attr = room.attr /\ flagged.worldId = room.worldId /\ flagged.lobbyId = room.lobbyId
  BY <1>1 DEF WithFlags, RoomOK
<1>5. /\ masked.attr = room.attr /\ masked.worldId = room.worldId
      /\ masked.lobbyId = room.lobbyId
  <2> HIDE DEF flagged
  <2>1. QED
    BY <1>3, <1>4 DEF RecomputeRoomSlotCounts, RoomOK
<1>6. v \in AttrValues \cup {NoAttr}
  <2> HIDE DEF masked
  <2>1. QED
    BY <1>1, <1>2, <1>5 DEF RoomOK
<1> HIDE DEF v
<1>7. RoomInv(next)
  <2>1. /\ RoomInv(room) /\ q.flags \in SUBSET Flags /\ q.passwdSlotMask \in SUBSET (1..NSlots)
        /\ q.newMask \in BOOLEAN /\ v \in AttrValues \cup {NoAttr}
    BY <1>1, <1>2, <1>6
  <2>2. QED
    BY ONLY <2>1, DataKeepsRoomInv, ZenonT(40)
<1>8. next.worldId = room.worldId /\ next.lobbyId = room.lobbyId
  <2> HIDE DEF masked
  <2>1. QED
    BY <1>5
<1>9. /\ PutRoom(r, next)
      /\ Continue(u, <<NotifyTask(DataEvent(r, q.attr), u)>>)
      /\ UNCHANGED <<session, nextRoomId, worldRooms, lobbyRooms, abandoned>>
  BY DEF CmdSetRoomDataInternal, v
<1>10. todo' \in [Users -> Seq(Task)]
  <2>1. NotifyTask(DataEvent(r, q.attr), u) \in Task
    BY <1>1, <1>2, EventTypes, TaskTypes
  <2>2. QED
    BY <1>1, <1>9, <2>1, SeqOfTasks, ContinueType
<1> HIDE DEF next
<1>11. QED
  BY <1>1, <1>7, <1>8, <1>9, <1>10, RoomChangeKeepsIInv

\* A function on 1..n is a sequence.
LEMMA ListsOfLength ==
    ASSUME NEW S, NEW n \in Nat
    PROVE  [1..n -> S] \subseteq Seq(S)
<1>1. Seq(S) = UNION {[1..k -> S] : k \in Nat}
  BY SeqDef
<1>2. [1..n -> S] \in {[1..k -> S] : k \in Nat}
  OBVIOUS
<1>3. QED
  BY ONLY <1>1, <1>2, Zenon

\* The end of a registry entry keeps the types.
LEMMA UnregisterType ==
    ASSUME session \in [Users -> Session], todo \in [Users -> Seq(Task)],
           NEW u \in Users, Unregister(u)
    PROVE  session' \in [Users -> Session] /\ todo' \in [Users -> Seq(Task)]
<1>1. FreshSession \in Session
  BY DEF FreshSession, Session
<1>2. ASSUME NEW v \in Users PROVE Forgets(todo[v], u) \in Seq(Task)
  <2>1. todo[v] \in Seq(Task)
    OBVIOUS
  <2>2. /\ Len(todo[v]) \in Nat /\ DOMAIN todo[v] = 1..Len(todo[v])
        /\ \A i \in 1..Len(todo[v]) : todo[v][i] \in Task
    BY <2>1, LenProperties
  <2>3. \A t \in Task : t.do = "send" => [t EXCEPT !.to = @ \ {u}] \in Task
    BY DEF Task
  <2>4. Forgets(todo[v], u) \in [1..Len(todo[v]) -> Task]
    BY <2>2, <2>3 DEF Forgets
  <2>5. [1..Len(todo[v]) -> Task] \subseteq Seq(Task)
    BY <2>2, ListsOfLength
  <2>6. QED
    BY ONLY <2>4, <2>5
<1>3. <<>> \in Seq(Task)
  OBVIOUS
<1>4. QED
  BY <1>1, <1>2, <1>3 DEF Unregister

\* Deleting the own account keeps the invariant.
LEMMA DeleteKeepsIInv ==
    ASSUME IInv, NEW u \in Users, CmdDelete(u)
    PROVE  IInv'
<1>1. /\ session \in [Users -> Session] /\ todo \in [Users -> Seq(Task)]
      /\ abandoned \subseteq Nat \X Users /\ DOMAIN rooms \subseteq Nat
  BY DEF IInv, TypeOK
<1>2. session' \in [Users -> Session] /\ todo' \in [Users -> Seq(Task)]
  BY <1>1, UnregisterType DEF CmdDelete
<1>3. abandoned' \subseteq Nat \X Users
  BY <1>1 DEF CmdDelete
<1>4. QED
  BY <1>2, <1>3, OtherChangeKeepsIInv DEF CmdDelete

\* The sections of a handler after its first change no room.
LEMMA ResumeKeepsIInv ==
    ASSUME IInv, NEW u \in Users, Resume(u)
    PROVE  IInv'
<1> DEFINE task == Head(todo[u])
<1>1. /\ session \in [Users -> Session] /\ todo \in [Users -> Seq(Task)]
      /\ todo[u] # <<>>
      /\ \A r \in DOMAIN rooms : RoomOK(rooms[r])
  BY DEF IInv, TypeOK, Resume
<1>2. task \in Task /\ Tail(todo[u]) \in Seq(Task)
  BY <1>1, HeadTailProperties
<1> HIDE DEF task
<1>3. /\ UNCHANGED <<rooms, nextRoomId, worldRooms, lobbyRooms>>
      /\ abandoned' \subseteq Nat \X Users
  BY DEF Resume, IInv, TypeOK
<1>4. ASSUME task.do = "lookup", Lookup(u, task)
      PROVE  session' \in [Users -> Session] /\ todo' \in [Users -> Seq(Task)]
  <2>1. task.room \in Nat /\ task.id \in MemberIds
    BY <1>2, <1>4 DEF Task
  <2>2. ASSUME task.room \in DOMAIN rooms, task.id \in DOMAIN rooms[task.room].members
        PROVE  rooms[task.room].members[task.id].user \in Users
    BY <1>1, <2>2 DEF RoomOK, Member
  <2>3. PICK ev \in Event : Continue(u, <<NotifyTask(ev, u)>>) /\ UNCHANGED session
    BY <1>4, <2>1, <2>2, EventTypes DEF Lookup
  <2>4. <<NotifyTask(ev, u)>> \in Seq(Task)
    BY TaskTypes, SeqOfTasks
  <2>5. QED
    BY <1>1, <2>3, <2>4, ContinueType
<1>5. ASSUME task.do \in {"notify", "direct"}, Collect(u, task)
      PROVE  session' \in [Users -> Session] /\ todo' \in [Users -> Seq(Task)]
  <2>1. task.ev \in Event
    BY <1>2, <1>5 DEF Task
  <2>2. Recipients(task) \in SUBSET Users
    <3>1. task.do = "direct" => task.to \in Users
      BY <1>2 DEF Task
    <3>2. \A r \in DOMAIN rooms : UsersOf(rooms[r]) \subseteq Users
      BY <1>1 DEF UsersOf, RoomOK, Member
    <3>3. QED
      BY <3>1, <3>2 DEF Recipients
  <2>3. <<SendTask(task.ev, Recipients(task))>> \o Tail(todo[u]) \in Seq(Task)
    BY <1>2, <2>1, <2>2, TaskTypes, SeqOfTasks, ConcatProperties
  <2>4. QED
    BY <1>1, <1>5, <2>3, ContinueType DEF Collect
<1>6. ASSUME Send(u)
      PROVE  session' \in [Users -> Session] /\ todo' \in [Users -> Seq(Task)]
  BY <1>1, <1>2, <1>6, ContinueType DEF Send
<1>7. ASSUME Unregister(u)
      PROVE  session' \in [Users -> Session] /\ todo' \in [Users -> Seq(Task)]
  BY <1>1, <1>7, UnregisterType
<1>8. session' \in [Users -> Session] /\ todo' \in [Users -> Seq(Task)]
  BY <1>4, <1>5, <1>6, <1>7 DEF Resume, task
<1>9. QED
  BY <1>3, <1>8, OtherChangeKeepsIInv

\* Every step keeps the invariant.
LEMMA NextIInv == IInv /\ [Next]_vars => IInv'
<1>1. SUFFICES ASSUME IInv, [Next]_vars PROVE IInv'
  OBVIOUS
<1>2. ASSUME NEW u \in Users, NEW r \in DOMAIN rooms, CmdLeaveRoom(u, r) PROVE IInv'
  <2>1. <<>> \in Seq(Task)
    OBVIOUS
  <2>2. QED
    BY <1>1, <1>2, <2>1, LeaveKeepsIInv DEF CmdLeaveRoom
<1>3. CASE UNCHANGED vars
  BY <1>1, <1>3 DEF IInv, TypeOK, IndexExact, vars
<1>4. CASE Next
  BY <1>1, <1>2, <1>4, SessionStepsKeepIInv, CreateKeepsIInv, JoinKeepsIInv, KickKeepsIInv,
     SetDataKeepsIInv, DisconnectKeepsIInv, ResumeKeepsIInv, DeleteKeepsIInv DEF Next
<1>5. QED
  BY <1>1, <1>3, <1>4

\* The inductive invariant holds throughout.
THEOREM Invariance == Spec => []IInv
BY InitIInv, NextIInv, PTL DEF Spec

(***************************************************************************)
(* The safety properties of Matching.                                      *)
(***************************************************************************)

\* Every variable keeps its type, in particular every room in the server is a
\* well-formed Room and every handler's remaining work is known work.
THEOREM TypeCorrect == Spec => []TypeOK
<1>1. IInv => TypeOK
  BY DEF IInv
<1>2. QED
  BY <1>1, Invariance, PTL

\* findByNpid never has two entries to choose from.
THEOREM UsersAreUnambiguous == Spec => []OneEntryPerUser
<1>1. IInv => OneEntryPerUser
  BY DEF IInv, RoomInv, Unambiguous, OneEntryPerUser
<1>2. QED
  BY <1>1, Invariance, PTL

\* ownerMemberId is a member's through every hand-over, and the OWNER bit
\* agrees with it.
THEOREM OwnerAlwaysPresent == Spec => []OwnerPresent
<1>1. IInv => OwnerPresent
  BY DEF IInv, RoomInv, OwnerInside, OwnerMarked, OwnerPresent
<1>2. QED
  BY <1>1, Invariance, PTL

\* Nobody is let into a full room, and no room with space is marked FULL.
THEOREM CapacityNeverExceeded == Spec => []CapacityRespected
<1>1. IInv => CapacityRespected
  BY DEF IInv, RoomInv, WithinCapacity, CapacityRespected
<1>2. QED
  BY <1>1, Invariance, PTL

\* The cached slot counts are those of the room, and add up to its capacity.
THEOREM SlotsAccountedFor == Spec => []SlotAccounting
<1>1. IInv => SlotAccounting
  <2>1. SUFFICES ASSUME IInv, NEW r \in DOMAIN rooms
                 PROVE  /\ rooms[r].slots = SlotCounts(rooms[r])
                        /\ Fits(rooms[r]) =>
                            /\ rooms[r].slots.public + rooms[r].slots.private
                                 = rooms[r].maxSlot
                            /\ rooms[r].slots.openPublic + rooms[r].slots.openPrivate
                                 + Cardinality(DOMAIN rooms[r].members) = rooms[r].maxSlot
    BY DEF SlotAccounting
  <2>2. RoomInv(rooms[r])
    BY <2>1 DEF IInv
  <2>3. QED
    BY <2>2, SlotsAddUp DEF RoomInv, CountsFresh
<1>2. QED
  BY <1>1, Invariance, PTL

\* No block is got round by leaving, hand-over, kick or reconnection.
THEOREM BlocksAlwaysHonoured == Spec => []BlocksHonoured
<1>1. IInv => BlocksHonoured
  BY DEF IInv, RoomInv, BlocksKept, BlocksHonoured
<1>2. QED
  BY <1>1, Invariance, PTL

\* The world and lobby indices list the rooms there are, each once.
THEOREM IndexAlwaysExact == Spec => []IndexExact
<1>1. IInv => IndexExact
  BY DEF IInv
<1>2. QED
  BY <1>1, Invariance, PTL

(***************************************************************************)
(* Matching implements RoomService, when no room is larger than the masks. *)
(***************************************************************************)

RequestsFit == \A q \in RoomRequests : U16(q.maxSlots) <= NSlots

AllFit == \A r \in DOMAIN rooms : Fits(rooms[r])

\* A step that leaves the rooms alone is a stutter of the abstract service.
LEMMA AbstractUnchanged ==
    ASSUME UNCHANGED <<rooms, nextRoomId>>
    PROVE  UNCHANGED Service!vars
BY DEF Service!vars, roster, host, capacity, UsersOf

\* CmdCreateRoom opens a room.
LEMMA CreateOpens ==
    ASSUME IInv, RequestsFit, AllFit,
           NEW u \in Users, NEW q \in RoomRequests, CmdCreateRoom(u, q)
    PROVE  Service!Next /\ AllFit'
<1> DEFINE r    == nextRoomId
           room == NewRoom(u, q)
<1>1. r \in Nat \ {0} /\ DOMAIN rooms \subseteq 1..(r - 1) /\ session \in [Users -> Session]
  BY DEF IInv, TypeOK
<1>2. /\ room.maxSlot \in 1..U16Size /\ room.maxSlot <= NSlots
      /\ UsersOf(room) = {u} /\ room.members[room.owner].user = u
  BY <1>1, NewRoomInv DEF RequestsFit
<1>3. r' = r + 1 /\ PutRoom(r, room)
  BY DEF CmdCreateRoom
<1> HIDE DEF room
<1>4. /\ DOMAIN rooms' = DOMAIN rooms \cup {r} /\ rooms'[r] = room /\ r \notin DOMAIN rooms
      /\ \A x \in DOMAIN rooms : rooms'[x] = rooms[x] /\ x # r
  BY <1>1, <1>3 DEF PutRoom
<1>5. AllFit'
  BY <1>2, <1>4 DEF AllFit, Fits
<1>6. r' - 1 = (r - 1) + 1 /\ (r - 1) + 1 = r
  BY <1>1, <1>3
<1>7. roster' = Service!With(roster, r, {u})
  BY <1>2, <1>4 DEF roster, Service!With
<1>8. host' = Service!With(host, r, u)
  BY <1>2, <1>4 DEF host, Service!With
<1>9. capacity' = Service!With(capacity, r, room.maxSlot)
  BY <1>4 DEF capacity, Service!With
<1>10. Service!Open(u, room.maxSlot)
  BY <1>6, <1>7, <1>8, <1>9 DEF Service!Open
<1>11. QED
  BY <1>2, <1>5, <1>10 DEF Service!Next

\* What becomes of the abstract state when one room changes.
LEMMA ChangeOfOneRoom ==
    ASSUME NEW r \in DOMAIN rooms, NEW room, PutRoom(r, room),
           UNCHANGED nextRoomId, room.maxSlot = rooms[r].maxSlot
    PROVE  /\ nextRoomId' - 1 = nextRoomId - 1 /\ capacity' = capacity
           /\ roster' = Service!With(roster, r, UsersOf(room))
           /\ host' = Service!With(host, r, room.members[room.owner].user)
           /\ AllFit => AllFit'
<1>1. /\ DOMAIN rooms' = DOMAIN rooms /\ rooms'[r] = room
      /\ \A x \in DOMAIN rooms \ {r} : rooms'[x] = rooms[x]
  BY DEF PutRoom
<1>2. capacity' = capacity
  BY <1>1 DEF capacity
<1>3. roster' = Service!With(roster, r, UsersOf(room))
  BY <1>1 DEF roster, Service!With, UsersOf
<1>4. host' = Service!With(host, r, room.members[room.owner].user)
  BY <1>1 DEF host, Service!With
<1>5. AllFit => AllFit'
  BY <1>1 DEF AllFit, Fits
<1>6. QED
  BY <1>2, <1>3, <1>4, <1>5

\* A room that keeps its roster and its host has not changed.
LEMMA SameAbstractRoom ==
    ASSUME NEW r \in DOMAIN rooms
    PROVE  /\ Service!With(roster, r, roster[r]) = roster
           /\ Service!With(host, r, host[r]) = host
BY DEF roster, host, Service!With

\* CmdJoinRoom lets the joiner in.
LEMMA JoinEnters ==
    ASSUME IInv, AllFit, NEW u \in Users, NEW r \in DOMAIN rooms,
           NEW blocks \in BlockLists, CmdJoinRoom(u, r, blocks)
    PROVE  Service!Next /\ AllFit'
<1> DEFINE room   == rooms[r]
           m      == [user |-> u, owner |-> FALSE, blocks |-> blocks]
           joined == Joined(room, m)
           new    == AllocMemberId(room)
<1>1. RoomInv(room) /\ RoomOK(room) /\ Fits(room)
  BY DEF IInv, RoomInv, AllFit
<1>2. m \in Member
  BY RequestsAssumption DEF Member
<1>3. ~IsFull(room) /\ u \notin UsersOf(room) /\ PutRoom(r, joined) /\ UNCHANGED nextRoomId
  BY DEF CmdJoinRoom, InRoom
<1>4. new \notin DOMAIN room.members
  BY <1>1, <1>3, FreeSlotFits, AllocMemberIdType DEF RoomOK, Fits
<1>5. /\ joined.maxSlot = room.maxSlot /\ joined.owner = room.owner
      /\ DOMAIN joined.members = DOMAIN room.members \cup {new}
      /\ joined.members[new] = m
      /\ \A id \in DOMAIN room.members : joined.members[id] = room.members[id]
  <2>1. /\ SameSetup(joined, room) /\ joined.owner = room.owner
        /\ DOMAIN joined.members = DOMAIN room.members \cup {new}
        /\ joined.members[new] = m
        /\ \A id \in DOMAIN room.members \ {new} : joined.members[id] = room.members[id]
    BY <1>1, <1>2, JoinedFacts
  <2> HIDE DEF joined, new, m
  <2>2. QED
    BY <1>4, <2>1 DEF SameSetup
<1> HIDE DEF joined, new
<1>6. UsersOf(joined) = UsersOf(room) \cup {u}
  BY <1>5 DEF UsersOf
<1>7. joined.members[joined.owner].user = host[r]
  BY <1>1, <1>5 DEF RoomInv, OwnerInside, host
<1>8. Cardinality(UsersOf(room)) < room.maxSlot
  <2>1. Cardinality(DOMAIN room.members) < room.maxSlot
    BY <1>1, <1>3, MembersFinite DEF IsFull, RoomOK
  <2>2. QED
    BY <1>1, <2>1, RosterSize, MembersFinite DEF RoomOK
<1>9. roster[r] = UsersOf(room) /\ capacity[r] = room.maxSlot
  BY DEF roster, capacity
<1>10. /\ nextRoomId' - 1 = nextRoomId - 1 /\ capacity' = capacity
       /\ roster' = Service!With(roster, r, UsersOf(joined))
       /\ host' = Service!With(host, r, joined.members[joined.owner].user)
       /\ AllFit'
  BY <1>3, <1>5, ChangeOfOneRoom
<1>11. host' = host
  BY <1>7, <1>10, SameAbstractRoom
<1>12. Service!Enter(u, r)
  <2>1. u \notin roster[r] /\ Service!Cardinality(roster[r]) < capacity[r]
    <3>1. \A S : Service!Cardinality(S) = Cardinality(S)
      BY DEF Service!Cardinality, Cardinality
    <3>2. QED
      BY <1>3, <1>8, <1>9, <3>1
  <2>2. roster' = Service!With(roster, r, roster[r] \cup {u})
    BY <1>6, <1>9, <1>10
  <2>3. nextRoomId' - 1 = nextRoomId - 1 /\ capacity' = capacity
    BY <1>10
  <2>4. QED
    BY <1>11, <2>1, <2>2, <2>3 DEF Service!Enter
<1>13. r \in Service!OpenRooms
  BY DEF Service!OpenRooms, roster
<1>14. QED
  BY <1>10, <1>12, <1>13 DEF Service!Next

\* Who is in a room after one entry went.
LEMMA RosterAfterDeparture ==
    ASSUME NEW room, RoomInv(room), NEW gone \in DOMAIN room.members
    PROVE  LET u == room.members[gone].user
           IN  /\ UsersOf(Departed(room, gone)) = UsersOf(room) \ {u}
               /\ \A after \in AfterLeave(room, gone) :
                    /\ UsersOf(after) = UsersOf(room) \ {u}
                    /\ after.owner \in DOMAIN after.members
                    /\ after.members[after.owner].user \in UsersOf(room) \ {u}
                    /\ gone # room.owner =>
                        after.members[after.owner].user = room.members[room.owner].user
<1> DEFINE u == room.members[gone].user
           d == Departed(room, gone)
<1>1. /\ DOMAIN d.members = DOMAIN room.members \ {gone} /\ d.owner = room.owner
      /\ \A id \in DOMAIN d.members : d.members[id] = room.members[id]
      /\ RoomOK(d)
  BY DepartedFacts, DepartedType DEF RoomInv
<1> HIDE DEF d
<1>2. UsersOf(d) = UsersOf(room) \ {u}
  BY <1>1 DEF UsersOf, RoomInv, Unambiguous
<1>3. ASSUME NEW after \in AfterLeave(room, gone)
      PROVE  /\ UsersOf(after) = UsersOf(room) \ {u}
             /\ after.owner \in DOMAIN after.members
             /\ gone # room.owner =>
                 after.members[after.owner].user = room.members[room.owner].user
  <2>1. CASE gone = room.owner
    <3>1. PICK next \in DOMAIN d.members : after = HandOver(d, next)
      BY <2>1 DEF AfterLeave, d
    <3>2. /\ DOMAIN after.members = DOMAIN d.members /\ after.owner = next
          /\ \A id \in DOMAIN d.members : after.members[id].user = d.members[id].user
      BY <1>1, <3>1, HandOverFacts
    <3>3. UsersOf(after) = UsersOf(d)
      BY <3>2 DEF UsersOf
    <3>4. QED
      BY <1>2, <2>1, <3>1, <3>2, <3>3
  <2>2. CASE gone # room.owner
    <3>1. after = d
      BY <2>2 DEF AfterLeave, d
    <3>2. room.owner \in DOMAIN d.members
      BY <1>1, <2>2 DEF RoomInv, OwnerInside
    <3>3. QED
      BY <1>1, <1>2, <3>1, <3>2
  <2>3. QED
    BY <2>1, <2>2
<1>4. ASSUME NEW after \in AfterLeave(room, gone)
      PROVE  after.members[after.owner].user \in UsersOf(room) \ {u}
  BY <1>3 DEF UsersOf
<1>5. QED
  BY <1>2, <1>3, <1>4 DEF d

\* A leave closes the room or lets the member depart.
LEMMA LeaveDeparts ==
    ASSUME IInv, AllFit, NEW u \in Users, NEW r \in DOMAIN rooms, InRoom(u, r),
           NEW rest, LeaveRoom(u, r, rest)
    PROVE  Service!Next /\ AllFit'
<1> DEFINE room == rooms[r]
           me   == FindByNpid(room, u)
<1>1. RoomInv(room) /\ RoomOK(room)
  BY DEF IInv, RoomInv
<1>2. me \in DOMAIN room.members /\ room.members[me].user = u
  BY FindByNpidFinds DEF InRoom
<1> HIDE DEF me
<1>3. /\ r \in Service!OpenRooms /\ roster[r] = UsersOf(room)
      /\ host[r] = room.members[room.owner].user
  BY DEF Service!OpenRooms, roster, host
<1>4. UNCHANGED nextRoomId
  BY DEF LeaveRoom
<1>5. CASE DOMAIN room.members = {me}
  <2>1. DropRoom(r)
    BY <1>5 DEF LeaveRoom, me
  <2>2. /\ DOMAIN rooms' = DOMAIN rooms \ {r}
        /\ \A x \in DOMAIN rooms' : rooms'[x] = rooms[x]
    BY <2>1 DEF DropRoom
  <2>3. roster[r] = {u}
    BY <1>2, <1>3, <1>5 DEF UsersOf
  <2>4. roster' = Service!Without(roster, r)
    BY <2>2 DEF roster, Service!Without, UsersOf
  <2>5. host' = Service!Without(host, r) /\ capacity' = Service!Without(capacity, r)
    BY <2>2 DEF host, capacity, Service!Without
  <2>6. Service!Close(u, r)
    BY <1>4, <2>3, <2>4, <2>5 DEF Service!Close
  <2>7. AllFit'
    BY <2>2 DEF AllFit, Fits
  <2>8. QED
    BY <1>3, <2>6, <2>7 DEF Service!Next
<1>6. CASE DOMAIN room.members # {me}
  <2>1. PICK after \in AfterLeave(room, me) : PutRoom(r, after)
    BY <1>6 DEF LeaveRoom, me
  <2>2. /\ UsersOf(after) = UsersOf(room) \ {u}
        /\ after.members[after.owner].user \in UsersOf(room) \ {u}
        /\ me # room.owner => after.members[after.owner].user = host[r]
    BY <1>1, <1>2, <1>3, RosterAfterDeparture
  <2>3. after.maxSlot = room.maxSlot
    BY <1>1, AfterLeaveSetup DEF SameSetup
  <2>4. /\ nextRoomId' - 1 = nextRoomId - 1 /\ capacity' = capacity
        /\ roster' = Service!With(roster, r, UsersOf(after))
        /\ host' = Service!With(host, r, after.members[after.owner].user)
        /\ AllFit'
    BY <1>4, <2>1, <2>3, ChangeOfOneRoom
  <2>5. host[r] # u => me # room.owner
    BY <1>2, <1>3
  <2>6. u \in roster[r] /\ roster[r] # {u}
    BY <1>3, <2>2 DEF InRoom
  <2>7. Service!Depart(u, r)
    BY <1>3, <2>2, <2>4, <2>5, <2>6 DEF Service!Depart
  <2>8. QED
    BY <1>3, <2>4, <2>7 DEF Service!Next
<1>7. QED
  BY <1>5, <1>6

\* CmdKickoutRoomMember expels the target, by the host.
LEMMA KickExpels ==
    ASSUME IInv, AllFit, NEW u \in Users, NEW r \in DOMAIN rooms,
           NEW target \in DOMAIN rooms[r].members, NEW block \in BOOLEAN,
           CmdKickoutRoomMember(u, r, target, block)
    PROVE  Service!Next /\ AllFit'
<1> DEFINE room == rooms[r]
           t    == room.members[target].user
           d    == Departed(room, target)
           next == IF block THEN [d EXCEPT !.blocked = @ \cup {t}] ELSE d
<1>1. RoomInv(room) /\ RoomOK(room) /\ t \in Users
  BY DEF IInv, RoomInv, RoomOK, Member
<1>2. /\ u \in UsersOf(room) /\ room.owner = FindByNpid(room, u)
      /\ target # room.owner /\ PutRoom(r, next) /\ UNCHANGED nextRoomId
  BY DEF CmdKickoutRoomMember, InRoom
<1>3. room.members[room.owner].user = u
  BY <1>2, FindByNpidFinds
<1>4. /\ SameSetup(d, room) /\ d.owner = room.owner
      /\ DOMAIN d.members = DOMAIN room.members \ {target}
      /\ \A id \in DOMAIN d.members : d.members[id] = room.members[id]
      /\ UsersOf(d) = UsersOf(room) \ {t}
      /\ RoomOK(d)
  BY <1>1, DepartedFacts, RosterAfterDeparture, DepartedType
<1>5. t # u /\ t \in UsersOf(room)
  BY <1>1, <1>2, <1>3 DEF RoomInv, OwnerInside, Unambiguous, UsersOf
<1> HIDE DEF d, t
<1>6. /\ next.members = d.members /\ next.owner = d.owner /\ next.maxSlot = d.maxSlot
  BY <1>4 DEF RoomOK
<1> HIDE DEF next
<1>7. UsersOf(next) = UsersOf(d)
  BY <1>6 DEF UsersOf
<1>8. next.members[next.owner].user = u
  BY <1>1, <1>2, <1>3, <1>4, <1>6 DEF RoomInv, OwnerInside
<1>9. /\ r \in Service!OpenRooms /\ roster[r] = UsersOf(room) /\ host[r] = u
  BY <1>3 DEF Service!OpenRooms, roster, host
<1>10. /\ nextRoomId' - 1 = nextRoomId - 1 /\ capacity' = capacity
       /\ roster' = Service!With(roster, r, UsersOf(next))
       /\ host' = Service!With(host, r, u)
       /\ AllFit'
  BY <1>2, <1>4, <1>6, <1>8, ChangeOfOneRoom DEF SameSetup
<1>11. host' = host
  BY <1>9, <1>10, SameAbstractRoom
<1>12. Service!Expel(u, t, r)
  BY <1>4, <1>5, <1>7, <1>9, <1>10, <1>11 DEF Service!Expel
<1>13. QED
  BY <1>1, <1>9, <1>10, <1>12 DEF Service!Next

\* Room data are no part of the abstract state.
LEMMA SetDataStutters ==
    ASSUME IInv, NEW u \in Users, NEW r \in DOMAIN rooms, NEW q \in DataRequests,
           CmdSetRoomDataInternal(u, r, q)
    PROVE  UNCHANGED Service!vars /\ (AllFit => AllFit')
<1> DEFINE room    == rooms[r]
           flagged == WithFlags(room, q.filter, q.flags)
           masked  == IF q.newMask
                      THEN RecomputeRoomSlotCounts(
                               [flagged EXCEPT !.passwdSlotMask = q.passwdSlotMask])
                      ELSE flagged
           next    == [masked EXCEPT !.attr = IF q.attr = NoAttr THEN @ ELSE q.attr]
<1>1. RoomOK(room) /\ RoomOK(flagged)
  BY WithFlagsType, RequestsAssumption DEF IInv, RoomInv, DataRequest
<1>2. /\ flagged.members = room.members /\ flagged.owner = room.owner
      /\ flagged.maxSlot = room.maxSlot
  BY <1>1 DEF WithFlags, RoomOK
<1> HIDE DEF flagged
<1>3. /\ masked.members = room.members /\ masked.owner = room.owner
      /\ masked.maxSlot = room.maxSlot
  BY <1>1, <1>2 DEF RecomputeRoomSlotCounts, RoomOK
<1> HIDE DEF masked
<1>4. /\ next.members = room.members /\ next.owner = room.owner
      /\ next.maxSlot = room.maxSlot
  BY <1>3
<1>5. PutRoom(r, next) /\ UNCHANGED nextRoomId
  BY DEF CmdSetRoomDataInternal, masked, flagged
<1> HIDE DEF next
<1>6. /\ nextRoomId' - 1 = nextRoomId - 1 /\ capacity' = capacity
      /\ roster' = Service!With(roster, r, UsersOf(next))
      /\ host' = Service!With(host, r, next.members[next.owner].user)
      /\ AllFit => AllFit'
  BY <1>4, <1>5, ChangeOfOneRoom
<1>7. UsersOf(next) = roster[r] /\ next.members[next.owner].user = host[r]
  BY <1>4 DEF UsersOf, roster, host
<1>8. QED
  BY <1>6, <1>7, SameAbstractRoom DEF Service!vars

\* A step of Matching is a step of RoomService or none.
LEMMA StepRefines ==
    ASSUME IInv, RequestsFit, AllFit, [Next]_vars
    PROVE  [Service!Next]_(Service!vars) /\ AllFit'
<1>1. ASSUME NEW u \in Users, NEW r \in DOMAIN rooms, CmdLeaveRoom(u, r)
      PROVE  Service!Next /\ AllFit'
  BY <1>1, LeaveDeparts DEF CmdLeaveRoom
<1>2. ASSUME UNCHANGED <<rooms, nextRoomId>>
      PROVE  UNCHANGED Service!vars /\ AllFit'
  BY <1>2, AbstractUnchanged DEF AllFit
<1>3. ASSUME NEW u \in Users, Disconnect(u)
      PROVE  [Service!Next]_(Service!vars) /\ AllFit'
  <2> DEFINE r == session[u].roomId
  <2>1. CASE session[u].initialized /\ r # 0 /\ InRoom(u, r)
    BY <1>3, <2>1, LeaveDeparts DEF Disconnect, InRoom
  <2>2. CASE ~(session[u].initialized /\ r # 0 /\ InRoom(u, r))
    BY <1>2, <1>3, <2>2 DEF Disconnect
  <2>3. QED
    BY <2>1, <2>2
<1>4. ASSUME NEW u \in Users,
             \/ Login(u) \/ CmdContextStop(u) \/ Resume(u) \/ CmdDelete(u)
             \/ \E ctx \in ContextIds : CmdContextStart(u, ctx)
      PROVE  UNCHANGED Service!vars /\ AllFit'
  BY <1>2, <1>4 DEF Login, CmdContextStop, CmdContextStart, Resume, CmdDelete
<1>5. CASE UNCHANGED vars
  BY <1>2, <1>5 DEF vars
<1>6. CASE Next
  <2>1. ASSUME NEW u \in Users, NEW r \in DOMAIN rooms,
               \/ \E blocks \in BlockLists : CmdJoinRoom(u, r, blocks)
               \/ CmdLeaveRoom(u, r)
               \/ \E target \in DOMAIN rooms[r].members, block \in BOOLEAN :
                    CmdKickoutRoomMember(u, r, target, block)
               \/ \E q \in DataRequests : CmdSetRoomDataInternal(u, r, q)
        PROVE  [Service!Next]_(Service!vars) /\ AllFit'
    BY <1>1, <2>1, JoinEnters, KickExpels, SetDataStutters
  <2>2. ASSUME NEW u \in Users, NEW q \in RoomRequests, CmdCreateRoom(u, q)
        PROVE  [Service!Next]_(Service!vars) /\ AllFit'
    BY <2>2, CreateOpens
  <2>3. QED
    BY <1>3, <1>4, <1>6, <2>1, <2>2 DEF Next
<1>7. QED
  BY <1>5, <1>6

\* The matching handlers implement the abstract room service: whatever their
\* interleaving, a room has one host who is in it and who alone expels, it
\* never admits more than its capacity, and it closes with its last member
\* for good.  (A room of more than NSlots slots gives one member's id, and
\* with it his place in the roster, to another.)
THEOREM MatchingImplementsRoomService ==
    ASSUME RequestsFit
    PROVE  Spec => ServiceSpec
<1>1. Init => Service!Init /\ AllFit
  <2>1. ASSUME Init PROVE Service!Init /\ AllFit
    <3>1. rooms = <<>> /\ nextRoomId = 1 /\ DOMAIN rooms = {}
      BY <2>1 DEF Init
    <3>2. roster = <<>> /\ host = <<>> /\ capacity = <<>>
      BY <3>1 DEF roster, host, capacity
    <3>3. QED
      BY <3>1, <3>2 DEF Service!Init, AllFit
  <2>2. QED
    BY <2>1
<1>2. IInv /\ AllFit /\ [Next]_vars => [Service!Next]_(Service!vars) /\ AllFit'
  BY StepRefines
<1>3. QED
  BY <1>1, <1>2, Invariance, PTL DEF Spec, ServiceSpec, Service!Spec

(***************************************************************************)
(* Clients that keep to one room leave no ghosts.                          *)
(***************************************************************************)

Parting(u) == \E i \in 1..Len(todo[u]) : todo[u][i].do = "unregister"

\* NoGhostMembers alone is not inductive: a session that has still to drop its
\* registry entry must be in no room any more.
GhostInv ==
    /\ NoGhostMembers
    /\ \A u \in Users : Parting(u) => Roomless(u)

\* Nobody is in a room twice over: a member's current room is his only one.
LEMMA OnlyRoom ==
    ASSUME NoGhostMembers, NEW u, NEW r \in DOMAIN rooms, Belongs(u, r)
    PROVE  session[u].roomId = r /\ \A x \in DOMAIN rooms : Belongs(u, x) => x = r
BY DEF NoGhostMembers, Belongs, InRoom

\* A step by u that brings nobody else into a room, nor changes what they are
\* doing, keeps the invariant if it keeps it for u.
LEMMA GhostStep ==
    ASSUME GhostInv, IInv', NEW u \in Users,
           \A v \in Users \ {u} :
                /\ session'[v] = session[v]
                /\ \A x \in DOMAIN rooms' : Belongs(v, x)' => Belongs(v, x)
                /\ Parting(v)' => Parting(v),
           \A x \in DOMAIN rooms' : Belongs(u, x)' =>
                /\ session'[u].registered /\ session'[u].initialized
                /\ session'[u].roomId = x,
           Parting(u)' => Roomless(u)'
    PROVE  GhostInv'
<1>1. \A x \in DOMAIN rooms' : UsersOf(rooms'[x]) \subseteq Users
  BY DEF IInv, TypeOK, RoomOK, Member, UsersOf
<1>2. ASSUME NEW x \in DOMAIN rooms', NEW v \in UsersOf(rooms'[x]), Belongs(v, x)'
      PROVE  /\ session'[v].registered /\ session'[v].initialized
             /\ session'[v].roomId = x
  BY <1>1, <1>2 DEF GhostInv, NoGhostMembers, Belongs, InRoom
<1>3. ASSUME NEW v \in Users, Parting(v)' PROVE Roomless(v)'
  BY <1>3 DEF GhostInv, Roomless, Belongs, InRoom
<1>4. QED
  BY <1>2, <1>3 DEF GhostInv, NoGhostMembers

\* A handler whose first section leaves no registry entry to drop.
LEMMA PartingUnchanged ==
    ASSUME NEW u \in Users, todo \in [Users -> Seq(Task)], NEW tasks, Continue(u, tasks)
    PROVE  /\ \A v \in Users \ {u} : Parting(v)' => Parting(v)
           /\ (\A i \in 1..Len(tasks) : tasks[i].do # "unregister") => ~Parting(u)'
<1>1. todo'[u] = tasks /\ \A v \in Users \ {u} : todo'[v] = todo[v]
  BY DEF Continue
<1>2. QED
  BY <1>1 DEF Parting

\* Login, ContextStart and ContextStop leave no ghost behind.
LEMMA SessionStepsKeepGhostInv ==
    ASSUME IInv, IInv', GhostInv, NEW u \in Users, KeepsToOneRoom(u),
           \/ Login(u)
           \/ \E ctx \in ContextIds : CmdContextStart(u, ctx)
           \/ CmdContextStop(u)
    PROVE  GhostInv'
<1>1. session \in [Users -> Session] /\ session[u] \in Session
  BY DEF IInv, TypeOK
<1>2. /\ UNCHANGED <<rooms, todo, abandoned>>
      /\ \A v \in Users \ {u} : session'[v] = session[v]
  BY <1>1 DEF Login, CmdContextStart, CmdContextStop
<1>3. \A v \in Users : (Parting(v)' <=> Parting(v)) /\ (Roomless(v)' <=> Roomless(v))
  BY <1>2 DEF Parting, Roomless, Belongs, InRoom
<1>4. \A x \in DOMAIN rooms' : Belongs(u, x)' =>
        /\ session'[u].registered /\ session'[u].initialized /\ session'[u].roomId = x
  <2>1. SUFFICES ASSUME NEW x \in DOMAIN rooms, Belongs(u, x)
                 PROVE  /\ session'[u].registered /\ session'[u].initialized
                        /\ session'[u].roomId = x
    BY <1>2 DEF Belongs, InRoom
  <2>2. session[u].registered /\ session[u].initialized /\ session[u].roomId = x
    BY <2>1 DEF GhostInv, NoGhostMembers, Belongs, InRoom
  <2>3. ~CmdContextStop(u)
    <3>1. SUFFICES ASSUME CmdContextStop(u) PROVE FALSE
      OBVIOUS
    <3>2. session'[u].registered /\ ~session'[u].initialized
      BY <1>1, <2>2, <3>1 DEF CmdContextStop, Session
    <3>3. Roomless(u)
      BY <2>2, <3>2 DEF KeepsToOneRoom
    <3>4. QED
      BY <2>1, <3>3 DEF Roomless
  <2>4. PICK ctx \in ContextIds : CmdContextStart(u, ctx)
    BY <2>2, <2>3 DEF Login
  <2>5. QED
    BY <1>1, <2>2, <2>4 DEF CmdContextStart, Session
<1>5. Parting(u)' => Roomless(u)'
  BY <1>3 DEF GhostInv
<1>6. QED
  BY <1>2, <1>3, <1>4, <1>5, GhostStep DEF Belongs, InRoom

\* CmdCreateRoom leaves no ghost behind.
LEMMA CreateKeepsGhostInv ==
    ASSUME IInv, IInv', GhostInv, NEW u \in Users, KeepsToOneRoom(u),
           NEW q \in RoomRequests, CmdCreateRoom(u, q)
    PROVE  GhostInv'
<1> DEFINE r    == nextRoomId
           room == NewRoom(u, q)
<1>1. /\ session \in [Users -> Session] /\ session[u] \in Session
      /\ r \in Nat \ {0} /\ DOMAIN rooms \subseteq 1..(r - 1)
  BY DEF IInv, TypeOK
<1>2. UsersOf(room) = {u}
  BY <1>1, NewRoomInv
<1>3. /\ Idle(u) /\ EnteredRoom(u, r, room) /\ PutRoom(r, room)
      /\ UNCHANGED <<todo, abandoned>>
  BY DEF CmdCreateRoom
<1> HIDE DEF room
<1>4. /\ DOMAIN rooms' = DOMAIN rooms \cup {r} /\ rooms'[r] = room /\ r \notin DOMAIN rooms
      /\ \A x \in DOMAIN rooms : rooms'[x] = rooms[x]
  BY <1>1, <1>3 DEF PutRoom
<1>5. session[u].initialized /\ Roomless(u)
  BY <1>2, <1>4 DEF KeepsToOneRoom, InRoom
<1>6. /\ session'[u].registered /\ session'[u].initialized /\ session'[u].roomId = r
      /\ \A v \in Users \ {u} : session'[v] = session[v]
  BY <1>1, <1>3, <1>5 DEF EnteredRoom, Idle, Session
<1>7. \A v \in Users : Parting(v)' <=> Parting(v)
  BY <1>3 DEF Parting
<1>8. ~Parting(u)
  BY <1>3 DEF Parting, Idle
<1>9. \A v \in Users \ {u} : \A x \in DOMAIN rooms' : Belongs(v, x)' => Belongs(v, x)
  BY <1>2, <1>3, <1>4 DEF Belongs, InRoom
<1>10. \A x \in DOMAIN rooms' : Belongs(u, x)' => x = r
  BY <1>3, <1>4, <1>5 DEF Belongs, InRoom, Roomless
<1>11. QED
  BY <1>6, <1>7, <1>8, <1>9, <1>10, GhostStep

\* CmdJoinRoom leaves no ghost behind.
LEMMA JoinKeepsGhostInv ==
    ASSUME IInv, IInv', GhostInv, NEW u \in Users, KeepsToOneRoom(u),
           NEW r \in DOMAIN rooms, NEW blocks \in BlockLists, CmdJoinRoom(u, r, blocks)
    PROVE  GhostInv'
<1> DEFINE room   == rooms[r]
           m      == [user |-> u, owner |-> FALSE, blocks |-> blocks]
           joined == Joined(room, m)
           new    == AllocMemberId(room)
           tasks  == <<LookupTask(r, new)>>
<1>1. /\ session \in [Users -> Session] /\ session[u] \in Session
      /\ todo \in [Users -> Seq(Task)] /\ RoomOK(room)
  BY DEF IInv, TypeOK
<1>2. m \in Member
  BY RequestsAssumption DEF Member
<1>3. /\ Idle(u) /\ u \notin UsersOf(room)
      /\ EnteredRoom(u, r, joined) /\ PutRoom(r, joined) /\ Continue(u, tasks)
      /\ UNCHANGED abandoned
  BY DEF CmdJoinRoom, InRoom
<1>4. UsersOf(joined) \subseteq UsersOf(room) \cup {u} /\ u \in UsersOf(joined)
  <2>1. /\ DOMAIN joined.members = DOMAIN room.members \cup {new}
        /\ joined.members[new] = m
        /\ \A id \in DOMAIN room.members \ {new} : joined.members[id] = room.members[id]
    BY <1>1, <1>2, JoinedFacts
  <2> HIDE DEF joined, new
  <2>2. QED
    BY <2>1 DEF UsersOf
<1> HIDE DEF joined, new
<1>5. /\ DOMAIN rooms' = DOMAIN rooms /\ rooms'[r] = joined
      /\ \A x \in DOMAIN rooms \ {r} : rooms'[x] = rooms[x]
  BY <1>3 DEF PutRoom
<1>6. session[u].initialized /\ Roomless(u)
  BY <1>3, <1>4, <1>5 DEF KeepsToOneRoom, InRoom
<1>7. /\ session'[u].registered /\ session'[u].initialized /\ session'[u].roomId = r
      /\ \A v \in Users \ {u} : session'[v] = session[v]
  BY <1>1, <1>3, <1>6 DEF EnteredRoom, Idle, Session
<1>8. ~Parting(u)' /\ \A v \in Users \ {u} : Parting(v)' => Parting(v)
  <2>1. \A i \in 1..Len(tasks) : tasks[i].do # "unregister"
    BY DEF LookupTask
  <2> HIDE DEF tasks
  <2>2. QED
    BY <1>1, <1>3, <2>1, PartingUnchanged
<1>9. \A v \in Users \ {u} : \A x \in DOMAIN rooms' : Belongs(v, x)' => Belongs(v, x)
  BY <1>3, <1>4, <1>5 DEF Belongs, InRoom
<1>10. \A x \in DOMAIN rooms' : Belongs(u, x)' => x = r
  BY <1>3, <1>5, <1>6 DEF Belongs, InRoom, Roomless
<1>11. QED
  BY <1>7, <1>8, <1>9, <1>10, GhostStep

\* Leaving takes u out of r, and a session that leaves to go is in no other.
LEMMA LeaveKeepsGhostInv ==
    ASSUME IInv, IInv', GhostInv, NEW u \in Users, NEW r \in DOMAIN rooms, InRoom(u, r),
           NEW rest, LeaveRoom(u, r, rest), rest = <<>> \/ r = session[u].roomId
    PROVE  GhostInv'
<1> DEFINE room == rooms[r]
           me   == FindByNpid(room, u)
<1>1. /\ session \in [Users -> Session] /\ todo \in [Users -> Seq(Task)]
      /\ session[u] \in Session /\ RoomInv(room)
  BY DEF IInv, TypeOK
<1>2. me \in DOMAIN room.members /\ me \in MemberIds /\ room.members[me].user = u
  BY <1>1, FindByNpidFinds DEF InRoom, RoomInv, RoomOK
<1>3. PICK left : /\ left.do = "notify"
                  /\ Continue(u, rest) \/ Continue(u, <<left>> \o rest)
  BY DEF LeaveRoom, NotifyTask
<1>4. /\ \A v \in Users \ {u} : session'[v] = session[v]
      /\ session[u].roomId # r => session'[u] = session[u]
      /\ abandoned' = abandoned \ {<<r, u>>}
  BY <1>1 DEF LeaveRoom, ResetRoomState, Session
<1>5. \A v \in Users \ {u} : Parting(v)' => Parting(v)
  BY <1>1, <1>3, PartingUnchanged
<1>6. \A x \in DOMAIN rooms' : x \in DOMAIN rooms /\
        \A v \in Users : InRoom(v, x)' => InRoom(v, x) /\ (v = u => x # r)
  <2>1. CASE DOMAIN room.members = {me}
    <3>1. DropRoom(r)
      BY <2>1 DEF LeaveRoom
    <3>2. /\ DOMAIN rooms' = DOMAIN rooms \ {r}
          /\ \A x \in DOMAIN rooms' : rooms'[x] = rooms[x]
      BY <3>1 DEF DropRoom
    <3>3. QED
      BY <3>2 DEF InRoom
  <2>2. CASE DOMAIN room.members # {me}
    <3>1. PICK after \in AfterLeave(room, me) : PutRoom(r, after)
      BY <2>2 DEF LeaveRoom
    <3>2. UsersOf(after) = UsersOf(room) \ {u}
      BY <1>1, <1>2, RosterAfterDeparture
    <3>3. /\ DOMAIN rooms' = DOMAIN rooms /\ rooms'[r] = after
          /\ \A x \in DOMAIN rooms \ {r} : rooms'[x] = rooms[x]
      BY <3>1 DEF PutRoom
    <3>4. QED
      BY <3>2, <3>3 DEF InRoom
  <2>3. QED
    BY <2>1, <2>2
<1>7. \A v \in Users : \A x \in DOMAIN rooms' :
        Belongs(v, x)' => x \in DOMAIN rooms /\ Belongs(v, x) /\ (v = u => x # r)
  BY <1>4, <1>6 DEF Belongs
<1>8. \A x \in DOMAIN rooms' : Belongs(u, x)' =>
        /\ session[u].roomId = x /\ x # r
        /\ session'[u].registered /\ session'[u].initialized /\ session'[u].roomId = x
  <2>1. SUFFICES ASSUME NEW x \in DOMAIN rooms', Belongs(u, x)'
                 PROVE  /\ session[u].roomId = x /\ x # r
                        /\ session'[u].registered /\ session'[u].initialized
                        /\ session'[u].roomId = x
    OBVIOUS
  <2>2. x \in DOMAIN rooms /\ Belongs(u, x) /\ x # r
    BY <1>7, <2>1
  <2>3. session[u].registered /\ session[u].initialized /\ session[u].roomId = x
    BY <2>2 DEF GhostInv, NoGhostMembers, Belongs, InRoom
  <2>4. QED
    BY <1>4, <2>2, <2>3
<1>9. Parting(u)' => Roomless(u)'
  <2>1. CASE r = session[u].roomId
    BY <1>8, <2>1 DEF Roomless
  <2>2. CASE rest = <<>>
    <3>1. Continue(u, <<>>) \/ Continue(u, <<left>>)
      BY <1>3, <2>2
    <3>2. /\ \A i \in 1..Len(<<>>) : <<>>[i].do # "unregister"
          /\ \A i \in 1..Len(<<left>>) : <<left>>[i].do # "unregister"
      BY <1>3
    <3>3. ~Parting(u)'
      BY <1>1, <3>1, <3>2, PartingUnchanged
    <3>4. QED
      BY <3>3
  <2>3. QED
    BY <2>1, <2>2
<1>10. QED
  BY <1>4, <1>5, <1>7, <1>8, <1>9, GhostStep

\* CmdKickoutRoomMember leaves no ghost behind.
LEMMA KickKeepsGhostInv ==
    ASSUME IInv, IInv', GhostInv, NEW u \in Users, NEW r \in DOMAIN rooms,
           NEW target \in DOMAIN rooms[r].members, NEW block \in BOOLEAN,
           CmdKickoutRoomMember(u, r, target, block)
    PROVE  GhostInv'
<1> DEFINE room  == rooms[r]
           t     == room.members[target].user
           d     == Departed(room, target)
           next  == IF block THEN [d EXCEPT !.blocked = @ \cup {t}] ELSE d
           tasks == <<DirectTask(MemberEvent("KICKEDOUT", r, NoId, NoUser), t),
                      NotifyTask(MemberEvent("LEFT", r, target, t), t)>>
<1>1. todo \in [Users -> Seq(Task)] /\ RoomInv(room) /\ RoomOK(d)
  BY DepartedType DEF IInv, TypeOK, RoomInv
<1>2. /\ PutRoom(r, next) /\ Continue(u, tasks) /\ UNCHANGED session
      /\ abandoned' = abandoned \ {<<r, t>>}
  BY DEF CmdKickoutRoomMember
<1>3. UsersOf(d) = UsersOf(room) \ {t}
  BY <1>1, RosterAfterDeparture
<1> HIDE DEF d, t
<1>4. next.members = d.members
  BY <1>1 DEF RoomOK
<1> HIDE DEF next
<1>5. UsersOf(next) \subseteq UsersOf(room)
  BY <1>3, <1>4 DEF UsersOf
<1>6. /\ DOMAIN rooms' = DOMAIN rooms /\ rooms'[r] = next
      /\ \A x \in DOMAIN rooms \ {r} : rooms'[x] = rooms[x]
  BY <1>2 DEF PutRoom
<1>7. \A v \in Users : \A x \in DOMAIN rooms' : Belongs(v, x)' => Belongs(v, x)
  <2>1. t \notin UsersOf(next)
    BY <1>3, <1>4 DEF UsersOf
  <2>2. QED
    BY <1>2, <1>5, <1>6, <2>1 DEF Belongs, InRoom
<1>8. ~Parting(u)' /\ \A v \in Users \ {u} : Parting(v)' => Parting(v)
  <2>1. \A i \in 1..Len(tasks) : tasks[i].do # "unregister"
    BY DEF DirectTask, NotifyTask
  <2> HIDE DEF tasks
  <2>2. QED
    BY <1>1, <1>2, <2>1, PartingUnchanged
<1>9. \A x \in DOMAIN rooms' : Belongs(u, x)' =>
        /\ session'[u].registered /\ session'[u].initialized /\ session'[u].roomId = x
  BY <1>2, <1>6, <1>7 DEF GhostInv, NoGhostMembers, Belongs, InRoom
<1>10. QED
  BY <1>2, <1>7, <1>8, <1>9, GhostStep

\* CmdSetRoomDataInternal leaves no ghost behind.
LEMMA SetDataKeepsGhostInv ==
    ASSUME IInv, IInv', GhostInv, NEW u \in Users, NEW r \in DOMAIN rooms,
           NEW q \in DataRequests, CmdSetRoomDataInternal(u, r, q)
    PROVE  GhostInv'
<1> DEFINE tasks == <<NotifyTask(DataEvent(r, q.attr), u)>>
<1>1. todo \in [Users -> Seq(Task)] /\ Continue(u, tasks) /\ UNCHANGED <<session, abandoned>>
  BY DEF IInv, TypeOK, CmdSetRoomDataInternal
<1>2. roster' = roster
  BY SetDataStutters DEF Service!vars
<1>3. DOMAIN rooms' = DOMAIN rooms /\ \A x \in DOMAIN rooms : UsersOf(rooms'[x]) = UsersOf(rooms[x])
  <2>1. DOMAIN rooms' = DOMAIN roster' /\ DOMAIN rooms = DOMAIN roster
    BY DEF roster
  <2>2. /\ \A x \in DOMAIN rooms : roster[x] = UsersOf(rooms[x])
        /\ \A x \in DOMAIN rooms' : roster'[x] = UsersOf(rooms'[x])
    BY DEF roster, UsersOf
  <2>3. QED
    BY <1>2, <2>1, <2>2
<1>4. \A v \in Users : \A x \in DOMAIN rooms' : Belongs(v, x)' => Belongs(v, x)
  BY <1>1, <1>3 DEF Belongs, InRoom
<1>5. ~Parting(u)' /\ \A v \in Users \ {u} : Parting(v)' => Parting(v)
  <2>1. \A i \in 1..Len(tasks) : tasks[i].do # "unregister"
    BY DEF NotifyTask
  <2> HIDE DEF tasks
  <2>2. QED
    BY <1>1, <2>1, PartingUnchanged
<1>6. \A x \in DOMAIN rooms' : Belongs(u, x)' =>
        /\ session'[u].registered /\ session'[u].initialized /\ session'[u].roomId = x
  BY <1>1, <1>3, <1>4 DEF GhostInv, NoGhostMembers, Belongs, InRoom
<1>7. QED
  BY <1>1, <1>4, <1>5, <1>6, GhostStep

\* The disconnect cleanup leaves no ghost behind.
LEMMA DisconnectKeepsGhostInv ==
    ASSUME IInv, IInv', GhostInv, NEW u \in Users, Disconnect(u)
    PROVE  GhostInv'
<1> DEFINE r == session[u].roomId
<1>1. todo \in [Users -> Seq(Task)] /\ DOMAIN rooms \subseteq 1..(nextRoomId - 1)
  BY DEF IInv, TypeOK
<1>2. CASE session[u].initialized /\ r # 0 /\ InRoom(u, r)
  BY <1>2, LeaveKeepsGhostInv DEF Disconnect, InRoom
<1>3. CASE ~(session[u].initialized /\ r # 0 /\ InRoom(u, r))
  <2>1. /\ Continue(u, <<UnregisterTask>>)
        /\ UNCHANGED <<session, rooms, abandoned>>
    BY <1>3 DEF Disconnect
  <2>2. Roomless(u)
    <3>1. SUFFICES ASSUME NEW x \in DOMAIN rooms, Belongs(u, x) PROVE FALSE
      BY DEF Roomless
    <3>2. session[u].initialized /\ r = x
      BY <3>1 DEF GhostInv, NoGhostMembers, Belongs, InRoom
    <3>3. x # 0
      BY <1>1
    <3>4. QED
      BY <1>3, <3>1, <3>2, <3>3 DEF Belongs
  <2>3. Roomless(u)'
    BY <2>1, <2>2 DEF Roomless, Belongs, InRoom
  <2>4. \A v \in Users \ {u} : Parting(v)' => Parting(v)
    BY <1>1, <2>1, PartingUnchanged
  <2>5. \A v \in Users : \A x \in DOMAIN rooms' : Belongs(v, x)' => Belongs(v, x)
    BY <2>1 DEF Belongs, InRoom
  <2>6. QED
    BY <2>1, <2>3, <2>4, <2>5, GhostStep DEF Roomless
<1>4. QED
  BY <1>2, <1>3

\* The end of a registry entry adds no disconnect to what is to be done.
LEMMA PartingForgotten ==
    ASSUME todo \in [Users -> Seq(Task)], todo' \in [Users -> Seq(Task)],
           NEW u \in Users, Unregister(u)
    PROVE  ~Parting(u)' /\ \A v \in Users \ {u} : Parting(v)' => Parting(v)
<1>1. ASSUME NEW v \in Users \ {u}, Parting(v)' PROVE Parting(v)
  <2>1. /\ Len(todo[v]) \in Nat /\ DOMAIN todo[v] = 1..Len(todo[v])
        /\ \A i \in 1..Len(todo[v]) : todo[v][i] \in Task
    BY LenProperties
  <2>2. todo'[v] = Forgets(todo[v], u)
    BY <1>1 DEF Unregister
  <2>3. \A t \in Task : t.do = "send" => [t EXCEPT !.to = @ \ {u}].do = "send"
    BY DEF Task
  <2>4. /\ DOMAIN todo'[v] = 1..Len(todo[v]) /\ todo'[v] \in Seq(Task)
        /\ \A i \in 1..Len(todo[v]) : todo'[v][i].do = todo[v][i].do
    <3>1. DOMAIN todo'[v] = DOMAIN todo[v]
      BY <2>2 DEF Forgets
    <3>2. ASSUME NEW i \in DOMAIN todo[v]
          PROVE  \/ todo'[v][i] = todo[v][i]
                 \/ /\ todo[v][i].do = "send"
                    /\ todo'[v][i] = [todo[v][i] EXCEPT !.to = @ \ {u}]
      BY <2>2 DEF Forgets
    <3>3. ASSUME NEW i \in 1..Len(todo[v]) PROVE todo'[v][i].do = todo[v][i].do
      <4>1. i \in DOMAIN todo[v] /\ todo[v][i] \in Task
        BY <2>1
      <4>2. todo[v][i].do = "send" => [todo[v][i] EXCEPT !.to = @ \ {u}].do = "send"
        BY <2>3, <4>1, Zenon
      <4>3. QED
        BY <3>2, <4>1, <4>2, Zenon
    <3>4. QED
      BY <2>1, <3>1, <3>3
  <2>5. Len(todo'[v]) = Len(todo[v])
    BY <2>1, <2>4, LenProperties
  <2>6. QED
    BY <1>1, <2>4, <2>5 DEF Parting
<1>2. todo'[u] = <<>>
  BY DEF Unregister
<1>3. ~Parting(u)'
  BY <1>2 DEF Parting
<1>4. QED
  BY <1>1, <1>3

\* Deleting the own account leaves no ghost but the ones it leaves for good.
LEMMA DeleteKeepsGhostInv ==
    ASSUME IInv, IInv', GhostInv, NEW u \in Users, CmdDelete(u)
    PROVE  GhostInv'
<1>1. /\ session \in [Users -> Session] /\ todo \in [Users -> Seq(Task)]
      /\ todo' \in [Users -> Seq(Task)] /\ Unregister(u) /\ UNCHANGED rooms
      /\ abandoned' = abandoned \cup {<<r, u>> : r \in {x \in DOMAIN rooms : InRoom(u, x)}}
  BY DEF IInv, TypeOK, CmdDelete
<1>2. \A v \in Users \ {u} : session'[v] = session[v]
  BY <1>1 DEF Unregister
<1>3. ~Parting(u)' /\ \A v \in Users \ {u} : Parting(v)' => Parting(v)
  BY <1>1, PartingForgotten
<1>4. \A v \in Users : \A x \in DOMAIN rooms' : Belongs(v, x)' => Belongs(v, x)
  BY <1>1 DEF Belongs, InRoom
<1>5. \A x \in DOMAIN rooms' : ~Belongs(u, x)'
  BY <1>1 DEF Belongs, InRoom
<1>6. QED
  BY <1>2, <1>3, <1>4, <1>5, GhostStep

\* What a handler does after its first section adds no disconnect to what is
\* to be done, and takes nobody's registry entry who is in a room.
LEMMA ResumeKeepsGhostInv ==
    ASSUME IInv, IInv', GhostInv, NEW u \in Users, Resume(u)
    PROVE  GhostInv'
<1> DEFINE task == Head(todo[u])
           tail == Tail(todo[u])
<1>1. /\ session \in [Users -> Session] /\ todo \in [Users -> Seq(Task)]
      /\ todo[u] # <<>> /\ UNCHANGED <<rooms, abandoned>>
  BY DEF IInv, TypeOK, Resume
<1>2. /\ task \in Task /\ task = todo[u][1]
      /\ tail \in Seq(Task) /\ Len(tail) = Len(todo[u]) - 1 /\ Len(todo[u]) \in Nat \ {0}
      /\ \A i \in 1..Len(tail) : tail[i] = todo[u][i + 1]
  <2>1. todo[u] \in Seq(Task)
    BY <1>1
  <2>2. QED
    BY <1>1, <2>1, HeadTailProperties, LenProperties, EmptySeq
<1> HIDE DEF task, tail
<1>3. (\E i \in 1..Len(tail) : tail[i].do = "unregister") => Parting(u)
  BY <1>2 DEF Parting
<1>4. \A v \in Users : Roomless(v)' <=> Roomless(v)
  BY <1>1 DEF Roomless, Belongs, InRoom
<1>5. \A v \in Users : \A x \in DOMAIN rooms' : Belongs(v, x)' => Belongs(v, x)
  BY <1>1 DEF Belongs, InRoom
<1>6. CASE /\ UNCHANGED session
           /\ \E tasks : Continue(u, tasks) /\
                ((\E i \in 1..Len(tasks) : tasks[i].do = "unregister") => Parting(u))
  <2>1. PICK tasks : /\ Continue(u, tasks)
                     /\ (\E i \in 1..Len(tasks) : tasks[i].do = "unregister") => Parting(u)
    BY <1>6
  <2>2. Parting(u)' => Parting(u)
    BY <1>1, <2>1, PartingUnchanged
  <2>3. \A v \in Users \ {u} : Parting(v)' => Parting(v)
    BY <1>1, <2>1, PartingUnchanged
  <2>4. \A x \in DOMAIN rooms' : Belongs(u, x)' =>
          /\ session'[u].registered /\ session'[u].initialized /\ session'[u].roomId = x
    BY <1>1, <1>6 DEF GhostInv, NoGhostMembers, Belongs, InRoom
  <2>5. Parting(u)' => Roomless(u)'
    BY <1>4, <2>2 DEF GhostInv
  <2>6. QED
    BY <1>5, <1>6, <2>3, <2>4, <2>5, GhostStep
<1>7. CASE Lookup(u, task)
  <2>1. PICK ev : Continue(u, <<NotifyTask(ev, u)>>) /\ UNCHANGED session
    BY <1>7 DEF Lookup
  <2>2. \A i \in 1..Len(<<NotifyTask(ev, u)>>) : <<NotifyTask(ev, u)>>[i].do # "unregister"
    BY DEF NotifyTask
  <2>3. QED
    BY <1>6, <2>1, <2>2
<1>8. CASE Collect(u, task) /\ task.do # "unregister"
  <2> DEFINE sent  == SendTask(task.ev, Recipients(task))
             tasks == <<sent>> \o tail
  <2>1. Continue(u, tasks) /\ UNCHANGED session
    BY <1>8 DEF Collect, tail
  <2>2. sent.do # "unregister"
    BY DEF SendTask
  <2> HIDE DEF sent
  <2>3. (\E i \in 1..Len(tasks) : tasks[i].do = "unregister") =>
            \E i \in 1..Len(tail) : tail[i].do = "unregister"
    <3>1. Len(tasks) = Len(tail) + 1 /\ tasks[1] = sent
      BY <1>2
    <3>2. \A i \in 2..Len(tasks) : i - 1 \in 1..Len(tail) /\ tasks[i] = tail[i - 1]
      BY <1>2
    <3>3. QED
      BY <1>2, <2>2, <3>1, <3>2
  <2> HIDE DEF tasks
  <2>4. QED
    BY <1>3, <1>6, <2>1, <2>3
<1>9. CASE Send(u)
  BY <1>3, <1>6, <1>9 DEF Send, tail
<1>10. CASE Unregister(u) /\ task.do = "unregister"
  <2>1. Roomless(u)
    <3>1. Parting(u)
      BY <1>2, <1>10 DEF Parting
    <3>2. QED
      BY <3>1 DEF GhostInv
  <2>2. \A v \in Users \ {u} : session'[v] = session[v]
    BY <1>1, <1>10 DEF Unregister
  <2>3. ~Parting(u)' /\ \A v \in Users \ {u} : Parting(v)' => Parting(v)
    BY <1>1, <1>10, PartingForgotten DEF IInv, TypeOK
  <2>4. QED
    BY <1>4, <1>5, <2>1, <2>2, <2>3, GhostStep DEF Roomless
<1>11. QED
  BY <1>7, <1>8, <1>9, <1>10 DEF Resume, task

\* Every step of clients that keep to one room leaves no ghost behind.
LEMMA NextGhostInv == IInv /\ IInv' /\ GhostInv /\ [OneRoomNext]_vars => GhostInv'
<1>1. SUFFICES ASSUME IInv, IInv', GhostInv, [OneRoomNext]_vars PROVE GhostInv'
  OBVIOUS
<1>2. CASE UNCHANGED vars
  BY <1>1, <1>2 DEF GhostInv, NoGhostMembers, Parting, Roomless, Belongs, InRoom, vars
<1>3. CASE Next /\ \A u \in Users : KeepsToOneRoom(u)
  <2>1. ASSUME NEW u \in Users, NEW r \in DOMAIN rooms, CmdLeaveRoom(u, r) PROVE GhostInv'
    BY <1>1, <2>1, LeaveKeepsGhostInv DEF CmdLeaveRoom
  <2>2. QED
    BY <1>1, <1>3, <2>1, SessionStepsKeepGhostInv, CreateKeepsGhostInv, JoinKeepsGhostInv,
       KickKeepsGhostInv, SetDataKeepsGhostInv, DisconnectKeepsGhostInv,
       ResumeKeepsGhostInv, DeleteKeepsGhostInv DEF Next
<1>4. QED
  BY <1>1, <1>2, <1>3 DEF OneRoomNext

\* When clients start a context before they enter a room and keep to one room
\* at a time, a session that is gone is in no room, whatever comes between the
\* sections of its disconnect, unless CmdDelete took its account in that room.
THEOREM NoGhosts == OneRoomSpec => []NoGhostMembers
<1>1. Init => GhostInv
  <2>1. ASSUME Init PROVE GhostInv
    <3>1. DOMAIN rooms = {} /\ \A u \in Users : todo[u] = <<>>
      BY <2>1 DEF Init
    <3>2. QED
      BY <3>1 DEF GhostInv, NoGhostMembers, Parting, Roomless
  <2>2. QED
    BY <2>1
<1>2. [OneRoomNext]_vars => [Next]_vars
  BY DEF OneRoomNext
<1>3. GhostInv => NoGhostMembers
  BY DEF GhostInv
<1>4. QED
  BY <1>1, <1>2, <1>3, InitIInv, NextIInv, NextGhostInv, PTL DEF OneRoomSpec
================================================================================
