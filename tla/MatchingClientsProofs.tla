------------------------- MODULE MatchingClientsProofs -------------------------
(***************************************************************************)
(* The rooms that clients remember from replies and events agree with the  *)
(* rooms of the server, for any number of users, rooms and handlers under  *)
(* way: nobody misses a member, and who keeps one that has gone was told   *)
(* of its arrival too late.                                                *)
(***************************************************************************)
EXTENDS MatchingClients, MatchingProofs

---------------------------------------------------------------------------
(* The invariant                                                           *)

Items(s) == {s[i] : i \in 1..Len(s)}
Pending(v) == Items(todo[v])

MemberRef == (MemberIds \cup {NoId}) \X (Users \cup {NoUser})
Caches == [room : Nat, members : SUBSET MemberRef, attr : AttrValues \cup {NoAttr}]
ClientTypes ==
    /\ inbox \in [Users -> Seq(Event)]
    /\ reply \in [Users -> Caches] /\ cache \in [Users -> Caches]

\* What a client will believe when the handler it waits for is done, who is in
\* a room, and how many have ever entered it.
Will(u) == IF todo[u] = <<>> THEN cache[u] ELSE reply[u]
WhoOf(room) == {<<id, room.members[id].user>> : id \in DOMAIN room.members}
Who(r) == IF r \in DOMAIN rooms THEN WhoOf(rooms[r]) ELSE {}
Entries(r) == IF r \in DOMAIN rooms THEN rooms[r].memberIdCounter ELSE 0

Arrival(r, m) == MemberEvent("JOINED", r, m[1], m[2])
Departure(r, m) == MemberEvent("LEFT", r, m[1], m[2])
Expulsion(r) == MemberEvent("KICKEDOUT", r, NoId, NoUser)

\* A task of v's handler that will have ev sent to u, and whether ev is on its
\* way to u at all.
Brings(v, k, u, ev) ==
    \/ k.do = "lookup" /\ v # u /\ ev.event = "JOINED" /\ ev.room = k.room /\ ev.id = k.id
    \/ k.do = "notify" /\ k.ev = ev /\ k.except # u
    \/ k.do = "direct" /\ k.ev = ev /\ k.to = u
    \/ k.do = "send" /\ k.ev = ev /\ u \in k.to
Brought(u, ev) == \E v \in Users : \E k \in Pending(v) : Brings(v, k, u, ev)
OnItsWay(u, ev) == Brought(u, ev) \/ ev \in Items(inbox[u])

\* A member id is given once in the life of a room: an event is about somebody
\* who was in the room, and after a departure there is nobody of that id.
EventSound(ev) ==
    /\ ev.room < nextRoomId
    /\ ev.event = "JOINED" => ev = Arrival(ev.room, <<ev.id, ev.user>>)
    /\ ev.event = "KICKEDOUT" => ev = Expulsion(ev.room)
    /\ ev.room \in DOMAIN rooms =>
        /\ ev.id[2] <= Entries(ev.room)
        /\ ev.event = "LEFT" => \A m \in Who(ev.room) : m[1] # ev.id
        /\ ev.event = "JOINED" => \A m \in Who(ev.room) : m[1] = ev.id => m[2] = ev.user
TaskSound(k) ==
    /\ k.do = "lookup" =>
        /\ k.room < nextRoomId
        /\ k.room \in DOMAIN rooms => k.id[2] <= Entries(k.room)
    /\ k.do = "notify" => k.ev.event # "KICKEDOUT"
    /\ k.do \in {"notify", "direct", "send"} => EventSound(k.ev)
EventsSound ==
    /\ \A r \in DOMAIN rooms : \A m \in Who(r) : m[1][2] <= Entries(r)
    /\ \A v \in Users : \A k \in Pending(v) : TaskSound(k)
    /\ \A v \in Users : \A ev \in Items(inbox[v]) : EventSound(ev)

\* Nothing of a handler is lost with its last step.
InOrder(tasks) ==
    \A i \in 1..Len(tasks) : tasks[i].do \in {"lookup", "unregister"} => i = Len(tasks)

\* Who believes to be in a room can be reached, and will leave that room.
SessionSound(u) ==
    /\ InOrder(todo[u])
    /\ session[u].initialized => session[u].registered /\ session[u].ctxId # 0
    /\ Will(u).room # 0 =>
        /\ session[u].initialized /\ Connected(u)
        /\ InRoom(u, Will(u).room) => session[u].roomId = Will(u).room

\* Client and server agree on the room of u, or the client is about to be told.
RoomKnown(u) ==
    /\ Will(u).room # 0 => InRoom(u, Will(u).room) \/ OnItsWay(u, Expulsion(Will(u).room))
    /\ \A r \in DOMAIN rooms :
        Belongs(u, r) => Will(u).room = r \/ <<u, Expulsion(r)>> \in overtaken

\* A membership that a deleted account left behind stays one while it lasts.
StayAbandoned(u) ==
    \A x : <<x, u>> \in abandoned /\ InRoom(u, x)' => <<x, u>> \in abandoned'
NoLongerLeft(r, u) == abandoned' = abandoned \ {<<r, u>>}

\* Who is in a room is known to u, or about to be; who is known or about to be
\* and has gone is about to be known to have gone, or its arrival was late.
Complete(u, r) ==
    \A m \in Who(r) : m \in Will(u).members \/ OnItsWay(u, Arrival(r, m))
Explained(u, r) ==
    \A m \in Will(u).members :
        m \in Who(r) \/ OnItsWay(u, Departure(r, m)) \/ <<u, Arrival(r, m)>> \in overtaken
DepartsAfter(u, i, r, m) == \E j \in (i + 1)..Len(inbox[u]) : inbox[u][j] = Departure(r, m)
Ordered(u, r) ==
    \A i \in 1..Len(inbox[u]) : \A m \in MemberRef :
        inbox[u][i] = Arrival(r, m) =>
            m \in Who(r) \/ Brought(u, Departure(r, m)) \/ DepartsAfter(u, i, r, m)
                \/ <<u, Arrival(r, m)>> \in overtaken
RoomSeen(u) ==
    \A r \in DOMAIN rooms :
        InRoom(u, r) /\ Will(u).room = r => Complete(u, r) /\ Explained(u, r) /\ Ordered(u, r)

UserSound(u) == SessionSound(u) /\ RoomKnown(u) /\ RoomSeen(u)

ClientInv == IInv /\ ClientTypes /\ EventsSound /\ \A u \in Users : UserSound(u)

---------------------------------------------------------------------------
(* Lists, members and events                                               *)

\* What is in a list, when something is put before it, behind it or taken.
LEMMA ItemsOfLists ==
    ASSUME NEW S, NEW s \in Seq(S), NEW a, NEW b
    PROVE  /\ Items(<<>>) = {} /\ Items(<<a>>) = {a} /\ Items(<<a, b>>) = {a, b}
           /\ s # <<>> => /\ Head(s) \in Items(s) /\ Items(s) = {Head(s)} \cup Items(Tail(s))
                          /\ Len(Tail(s)) = Len(s) - 1
           /\ s = <<>> <=> Len(s) = 0
           /\ Items(s) \subseteq S
<1>1. Items(<<>>) = {} /\ Items(<<a>>) = {a} /\ Items(<<a, b>>) = {a, b}
  BY DEF Items
<1>2. Len(s) \in Nat /\ DOMAIN s = 1..Len(s) /\ (s = <<>> <=> Len(s) = 0)
  BY LenProperties, EmptySeq
<1>3. Items(s) \subseteq S
  BY <1>2 DEF Items
<1>4. ASSUME s # <<>>
      PROVE  /\ Head(s) \in Items(s) /\ Items(s) = {Head(s)} \cup Items(Tail(s))
             /\ Len(Tail(s)) = Len(s) - 1
  <2>1. /\ Head(s) = s[1] /\ Len(Tail(s)) = Len(s) - 1 /\ Len(s) > 0
        /\ \A i \in 1..(Len(s) - 1) : Tail(s)[i] = s[i + 1]
    BY <1>2, <1>4, HeadTailProperties
  <2>2. Items(Tail(s)) \subseteq Items(s)
    BY <1>2, <2>1 DEF Items
  <2>3. ASSUME NEW i \in 1..Len(s), i # 1 PROVE s[i] \in Items(Tail(s))
    <3>1. i - 1 \in 1..(Len(s) - 1) /\ Tail(s)[i - 1] = s[(i - 1) + 1]
      BY <1>2, <2>1, <2>3
    <3>2. QED
      BY <1>2, <2>1, <3>1 DEF Items
  <2>4. Items(s) \subseteq {Head(s)} \cup Items(Tail(s))
    BY <1>2, <2>1, <2>3 DEF Items
  <2>5. Head(s) \in Items(s)
    BY <1>2, <2>1 DEF Items
  <2>6. QED
    BY <2>1, <2>2, <2>4, <2>5
<1>5. QED
  BY <1>1, <1>2, <1>3, <1>4

LEMMA ItemsJoined ==
    ASSUME NEW S, NEW s \in Seq(S), NEW a \in S
    PROVE  Items(<<a>> \o s) = {a} \cup Items(s) /\ Len(<<a>> \o s) = Len(s) + 1
<1>1. Len(s) \in Nat /\ DOMAIN s = 1..Len(s) /\ <<a>> \in Seq(S) /\ Len(<<a>>) = 1 /\ <<a>>[1] = a
  BY LenProperties
<1> DEFINE t == <<a>> \o s
<1>2. /\ Len(t) = Len(s) + 1 /\ t[1] = a
      /\ \A i \in 1..Len(s) : t[i + 1] = s[i]
  BY <1>1, ConcatProperties
<1> HIDE DEF t
<1>3. a \in Items(t)
  BY <1>1, <1>2 DEF Items
<1>4. ASSUME NEW i \in 1..Len(s) PROVE s[i] \in Items(t)
  <2>1. i + 1 \in 1..Len(t)
    BY <1>1, <1>2
  <2>2. QED
    BY <1>2, <2>1 DEF Items
<1>5. ASSUME NEW i \in 1..Len(t) PROVE t[i] \in {a} \cup Items(s)
  <2>1. CASE i = 1
    BY <1>2, <2>1
  <2>2. CASE i # 1
    <3>1. i - 1 \in 1..Len(s) /\ t[(i - 1) + 1] = s[i - 1] /\ (i - 1) + 1 = i
      BY <1>1, <1>2, <2>2
    <3>2. QED
      BY <1>1, <3>1 DEF Items
  <2>3. QED
    BY <2>1, <2>2
<1>6. Items(t) = {a} \cup Items(s)
  BY <1>3, <1>4, <1>5 DEF Items
<1>7. QED
  BY <1>2, <1>6 DEF t

LEMMA ItemsAppended ==
    ASSUME NEW S, NEW s \in Seq(S), NEW a \in S
    PROVE  LET t == Append(s, a)
           IN  /\ Items(t) = Items(s) \cup {a}
               /\ Len(t) = Len(s) + 1 /\ t[Len(s) + 1] = a
               /\ \A i \in 1..Len(s) : t[i] = s[i]
<1>1. Len(s) \in Nat /\ DOMAIN s = 1..Len(s)
  BY LenProperties
<1>2. /\ Len(Append(s, a)) = Len(s) + 1 /\ Append(s, a)[Len(s) + 1] = a
      /\ \A i \in 1..Len(s) : Append(s, a)[i] = s[i]
  BY <1>1, AppendProperties
<1>3. Items(Append(s, a)) = Items(s) \cup {a}
  BY <1>1, <1>2 DEF Items
<1>4. QED
  BY <1>2, <1>3

\* A snapshot has the members of the room.
LEMMA SnapshotOf ==
    ASSUME NEW r, NEW room
    PROVE  Snapshot(r, room).room = r /\ Snapshot(r, room).members = WhoOf(room)
BY DEF Snapshot, WhoOf

\* The members of a room as pairs, and who is in it.
Rosters ==
    \A r :
        /\ Who(r) \subseteq MemberIds \X Users
        /\ Entries(r) \in Nat
        /\ \A m \in Who(r) : m = <<m[1], m[2]>> /\ m[1][2] \in Nat
        /\ \A u : InRoom(u, r) <=> \E m \in Who(r) : m[2] = u
        /\ \A m, n \in Who(r) : m[1] = n[1] \/ m[2] = n[2] => m = n
        /\ r \in DOMAIN rooms => r \in Nat \ {0} /\ r < nextRoomId
        /\ nextRoomId \in Nat

LEMMA WhoIsIn == IInv => Rosters
<1> SUFFICES ASSUME IInv PROVE Rosters
  OBVIOUS
<1> SUFFICES ASSUME NEW r
             PROVE  /\ Who(r) \subseteq MemberIds \X Users
                    /\ Entries(r) \in Nat
                    /\ \A m \in Who(r) : m = <<m[1], m[2]>> /\ m[1][2] \in Nat
                    /\ \A u : InRoom(u, r) <=> \E m \in Who(r) : m[2] = u
                    /\ \A m, n \in Who(r) : m[1] = n[1] \/ m[2] = n[2] => m = n
                    /\ r \in DOMAIN rooms => r \in Nat \ {0} /\ r < nextRoomId
                    /\ nextRoomId \in Nat
  BY DEF Rosters
<1>1. nextRoomId \in Nat /\ (r \in DOMAIN rooms => r \in 1..(nextRoomId - 1))
  BY DEF IInv, TypeOK
<1>2. CASE r \in DOMAIN rooms
  <2> DEFINE D == DOMAIN rooms[r].members
             user(id) == rooms[r].members[id].user
  <2>1. /\ D \subseteq MemberIds /\ \A id \in D : user(id) \in Users
        /\ rooms[r].memberIdCounter \in 0..(IdCycle - 1)
        /\ \A i, j \in D : user(i) = user(j) => i = j
    BY <1>2 DEF IInv, RoomInv, RoomOK, Unambiguous, Member
  <2>2. Who(r) = {<<id, user(id)>> : id \in D}
    BY <1>2 DEF Who, WhoOf
  <2>3. \A u : InRoom(u, r) <=> \E id \in D : user(id) = u
    BY <1>2 DEF InRoom, UsersOf
  <2>4. Entries(r) \in Nat
    BY <1>2, <2>1, SlotsAssumption DEF Entries
  <2> HIDE DEF D, user
  <2>5. Who(r) \subseteq MemberIds \X Users /\ \A m \in Who(r) : m = <<m[1], m[2]>>
    BY <2>1, <2>2
  <2>6. \A m, n \in Who(r) : m[1] = n[1] \/ m[2] = n[2] => m = n
    BY <2>1, <2>2
  <2>7. \A m \in Who(r) : m[1][2] \in Nat
    BY <2>5, SlotsAssumption DEF MemberIds
  <2>8. \A u : (\E m \in Who(r) : m[2] = u) <=> \E id \in D : user(id) = u
    <3>1. \A m \in Who(r) : \E id \in D : user(id) = m[2]
      BY <2>2
    <3>2. \A id \in D : <<id, user(id)>> \in Who(r)
      BY <2>2
    <3>3. \A id \in D : \E m \in Who(r) : m[2] = user(id)
      <4> TAKE id \in D
      <4>1. <<id, user(id)>>[2] = user(id)
        OBVIOUS
      <4>2. QED
        BY <3>2, <4>1
    <3>4. QED
      BY <3>1, <3>3
  <2>9. QED
    BY <1>1, <2>3, <2>4, <2>5, <2>6, <2>7, <2>8
<1>3. CASE r \notin DOMAIN rooms
  BY <1>1, <1>3 DEF Who, Entries, InRoom
<1>4. QED
  BY <1>2, <1>3

LEMMA WhoIsInNext == IInv' => Rosters'
BY WhoIsIn, PTL

\* Events about different things are different.
LEMMA EventsDiffer ==
    ASSUME NEW r, NEW m
    PROVE  /\ Arrival(r, m).event = "JOINED" /\ Arrival(r, m).room = r
           /\ Arrival(r, m).id = m[1] /\ Arrival(r, m).user = m[2]
           /\ Departure(r, m).event = "LEFT" /\ Departure(r, m).room = r
           /\ Departure(r, m).id = m[1] /\ Departure(r, m).user = m[2]
           /\ Expulsion(r).event = "KICKEDOUT" /\ Expulsion(r).room = r
           /\ Expulsion(r).id = NoId
BY DEF Arrival, Departure, Expulsion, MemberEvent

---------------------------------------------------------------------------
(* What the handlers do to the members of the rooms                        *)

\* Who is in which room after a step that changes at most room r.
Becomes(r, S) == \A x : Who(x)' = IF x = r THEN S ELSE Who(x)

\* Member ids are given in ascending order, and room ids too.
Evolves ==
    /\ nextRoomId <= nextRoomId'
    /\ \A x \in DOMAIN rooms' :
        /\ IF x \in DOMAIN rooms THEN Entries(x) <= Entries(x)' ELSE nextRoomId <= x
        /\ \A m \in Who(x)' :
            \/ m \in Who(x)
            \/ m[1][2] <= Entries(x)' /\ (x \in DOMAIN rooms => Entries(x) < m[1][2])

\* The rooms after one was put, or dropped.
LEMMA PutRoomWho ==
    ASSUME NEW r, NEW room, PutRoom(r, room)
    PROVE  /\ DOMAIN rooms' = DOMAIN rooms \cup {r}
           /\ Becomes(r, WhoOf(room))
           /\ \A x : Entries(x)' = IF x = r THEN room.memberIdCounter ELSE Entries(x)
<1>1. /\ DOMAIN rooms' = DOMAIN rooms \cup {r}
      /\ rooms'[r] = room /\ \A x \in DOMAIN rooms \ {r} : rooms'[x] = rooms[x]
  BY DEF PutRoom
<1>2. \A x : Who(x)' = IF x = r THEN WhoOf(room) ELSE Who(x)
  BY <1>1 DEF Who, WhoOf
<1>3. \A x : Entries(x)' = IF x = r THEN room.memberIdCounter ELSE Entries(x)
  BY <1>1 DEF Entries
<1>4. QED
  BY <1>1, <1>2, <1>3 DEF Becomes

LEMMA DropRoomWho ==
    ASSUME NEW r, DropRoom(r)
    PROVE  /\ DOMAIN rooms' = DOMAIN rooms \ {r}
           /\ Becomes(r, {})
           /\ \A x \in DOMAIN rooms' : Entries(x)' = Entries(x)
<1>1. DOMAIN rooms' = DOMAIN rooms \ {r} /\ \A x \in DOMAIN rooms \ {r} : rooms'[x] = rooms[x]
  BY DEF DropRoom
<1>2. \A x : Who(x)' = IF x = r THEN {} ELSE Who(x)
  BY <1>1 DEF Who, WhoOf
<1>3. \A x \in DOMAIN rooms' : Entries(x)' = Entries(x)
  BY <1>1 DEF Entries
<1>4. QED
  BY <1>1, <1>2, <1>3 DEF Becomes

\* A step that takes away members, or none, evolves the rooms.
LEMMA FewerEvolve ==
    ASSUME IInv, NEW r, NEW S \in SUBSET Who(r), Becomes(r, S),
           DOMAIN rooms' \subseteq DOMAIN rooms,
           \A x \in DOMAIN rooms' : Entries(x)' = Entries(x), nextRoomId' = nextRoomId
    PROVE  Evolves
<1>1. nextRoomId \in Nat /\ \A x : Entries(x) \in Nat
  BY WhoIsIn DEF Rosters
<1>2. \A x : \A m \in Who(x)' : m \in Who(x)
  BY DEF Becomes
<1>3. QED
  BY <1>1, <1>2 DEF Evolves

\* A step that leaves the rooms alone.
LEMMA SameRooms ==
    ASSUME IInv, UNCHANGED <<rooms, nextRoomId>>
    PROVE  Evolves /\ \A r : Becomes(r, Who(r))
<1>1. \A x : Who(x)' = Who(x) /\ Entries(x)' = Entries(x)
  BY DEF Who, WhoOf, Entries
<1>2. Becomes(0, Who(0)) /\ \A r : Becomes(r, Who(r))
  BY <1>1 DEF Becomes
<1>3. QED
  BY <1>1, <1>2, FewerEvolve

\* CmdCreateRoom opens a room with its creator.
LEMMA CreateWho ==
    ASSUME IInv, NEW u \in Users, NEW q \in RoomRequests, CmdCreateRoom(u, q),
           NEW n, n = nextRoomId
    PROVE  /\ Who(n) = {} /\ DOMAIN rooms' = DOMAIN rooms \cup {n}
           /\ \E id : Becomes(n, {<<id, u>>})
           /\ WhoOf(rooms'[n]) = Who(n)'
           /\ Evolves
<1> DEFINE room == NewRoom(u, q)
           id   == room.owner
<1>1. /\ PutRoom(n, room) /\ nextRoomId' = n + 1
  BY DEF CmdCreateRoom
<1>2. /\ RoomInv(room) /\ UsersOf(room) = {u}
      /\ room.owner[2] = room.memberIdCounter
  BY NewRoomInv DEF IInv, TypeOK
<1>3. n \in Nat \ {0} /\ n \notin DOMAIN rooms
  BY DEF IInv, TypeOK
<1> HIDE DEF room
<1>4. WhoOf(room) = {<<id, u>>}
  <2>1. \A i \in DOMAIN room.members : room.members[i].user = u
    BY <1>2 DEF UsersOf
  <2>2. id \in DOMAIN room.members
    BY <1>2 DEF RoomInv, OwnerInside
  <2>3. \A i, j \in DOMAIN room.members : i = j
    BY <1>2, <2>1 DEF RoomInv, Unambiguous
  <2>4. QED
    BY <2>1, <2>2, <2>3 DEF WhoOf
<1>5. /\ DOMAIN rooms' = DOMAIN rooms \cup {n} /\ Becomes(n, {<<id, u>>})
      /\ \A x : Entries(x)' = IF x = n THEN room.memberIdCounter ELSE Entries(x)
  <2>1. /\ DOMAIN rooms' = DOMAIN rooms \cup {n} /\ Becomes(n, WhoOf(room))
        /\ \A x : Entries(x)' = IF x = n THEN room.memberIdCounter ELSE Entries(x)
    BY <1>1, PutRoomWho
  <2>2. QED
    BY <1>4, <2>1
<1>6. Who(n) = {} /\ WhoOf(rooms'[n]) = Who(n)'
  BY <1>3, <1>5 DEF Who, WhoOf
<1>7. Evolves
  <2>1. \A x : Entries(x) \in Nat
    BY WhoIsIn DEF Rosters
  <2>2. Who(n)' = {<<id, u>>} /\ \A x : x # n => Who(x)' = Who(x)
    BY <1>5 DEF Becomes
  <2>3. room.memberIdCounter \in Nat
    BY <1>2, SlotsAssumption DEF RoomInv, RoomOK
  <2>4. \A m \in Who(n)' : m[1][2] <= Entries(n)'
    BY <1>2, <1>5, <2>2, <2>3
  <2>5. QED
    BY <1>1, <1>3, <1>5, <2>1, <2>2, <2>4 DEF Evolves
<1>8. QED
  BY <1>5, <1>6, <1>7

\* CmdJoinRoom adds the member, under an id the room never gave before.
LEMMA JoinWho ==
    ASSUME IInv, EventsSound, NEW u \in Users, NEW r \in DOMAIN rooms, NEW blocks \in BlockLists,
           rooms[r].memberIdCounter < MaxJoins, CmdJoinRoom(u, r, blocks)
    PROVE  LET m == <<AllocMemberId(rooms[r]), u>>
           IN  /\ Becomes(r, Who(r) \cup {m}) /\ m \notin Who(r)
               /\ WhoOf(rooms'[r]) = Who(r)'
               /\ m[1] \in MemberIds /\ m[1][2] = Entries(r)'
               /\ DOMAIN rooms' = DOMAIN rooms /\ Evolves
<1> DEFINE room == rooms[r]
           new  == AllocMemberId(room)
           who  == [user |-> u, owner |-> FALSE, blocks |-> blocks]
           j    == Joined(room, who)
           m    == <<new, u>>
<1>1. /\ RoomOK(room) /\ who \in Member /\ nextRoomId \in Nat
      /\ PutRoom(r, j) /\ nextRoomId' = nextRoomId
  BY RequestsAssumption DEF IInv, TypeOK, Member, CmdJoinRoom
<1>2. /\ DOMAIN j.members = DOMAIN room.members \cup {new} /\ j.members[new] = who
      /\ \A id \in DOMAIN room.members \ {new} : j.members[id] = room.members[id]
  BY <1>1, JoinedFacts
<1>3. j.memberIdCounter = NextCounter(room)
  BY <1>1 DEF Joined, RecomputeRoomSlotCounts, AddMember, RoomOK
<1>4. Entries(r) = room.memberIdCounter /\ Entries(r) \in Nat
  BY WhoIsIn DEF Rosters, Entries
<1>5. NextCounter(room) = Entries(r) + 1
  BY <1>4, JoinsAssumption, SlotsAssumption DEF NextCounter
<1>6. new \in MemberIds /\ new[2] = Entries(r) + 1
  BY <1>1, <1>5, AllocMemberIdType DEF AllocMemberId, RoomOK
<1>7. new \notin DOMAIN room.members
  <2>1. SUFFICES ASSUME new \in DOMAIN room.members PROVE FALSE
    OBVIOUS
  <2>2. <<new, room.members[new].user>> \in Who(r)
    BY <2>1 DEF Who, WhoOf
  <2>3. new[2] <= Entries(r)
    BY <2>2 DEF EventsSound
  <2>4. QED
    BY <1>4, <1>6, <2>3
<1> HIDE DEF new, j, who
<1>8. WhoOf(j) = Who(r) \cup {m}
  <2>1. who.user = u
    BY DEF who
  <2>2. QED
    BY <1>2, <1>7, <2>1 DEF Who, WhoOf
<1>9. m \notin Who(r)
  BY <1>7 DEF Who, WhoOf
<1>10. /\ DOMAIN rooms' = DOMAIN rooms /\ Becomes(r, Who(r) \cup {m})
       /\ \A x : Entries(x)' = IF x = r THEN Entries(r) + 1 ELSE Entries(x)
  <2>1. /\ DOMAIN rooms' = DOMAIN rooms \cup {r} /\ Becomes(r, WhoOf(j))
        /\ \A x : Entries(x)' = IF x = r THEN j.memberIdCounter ELSE Entries(x)
    BY <1>1, PutRoomWho
  <2>2. QED
    BY <1>3, <1>5, <1>8, <2>1
<1>11. WhoOf(rooms'[r]) = Who(r)'
  BY <1>10 DEF Who, WhoOf
<1>12. Evolves
  <2>1. \A x : Entries(x) \in Nat
    BY WhoIsIn DEF Rosters
  <2>2. \A x : \A p \in Who(x)' : p \in Who(x) \/ (x = r /\ p = m)
    BY <1>10 DEF Becomes
  <2>3. m[1][2] = Entries(r) + 1
    BY <1>6
  <2> HIDE DEF m
  <2>4. QED
    BY <1>1, <1>10, <2>1, <2>2, <2>3 DEF Evolves
<1>13. QED
  BY <1>6, <1>9, <1>10, <1>11, <1>12 DEF new

\* A departure takes the member's entry away.
LEMMA DepartedWho ==
    ASSUME NEW room, RoomOK(room), NEW gone \in DOMAIN room.members
    PROVE  /\ WhoOf(Departed(room, gone)) =
                {m \in WhoOf(room) : m[1] # gone}
           /\ Departed(room, gone).memberIdCounter = room.memberIdCounter
<1> DEFINE d == Departed(room, gone)
<1>1. /\ DOMAIN d.members = DOMAIN room.members \ {gone}
      /\ \A id \in DOMAIN d.members : d.members[id] = room.members[id]
  BY DepartedFacts
<1>2. d.memberIdCounter = room.memberIdCounter
  BY DEF Departed, RecomputeRoomSlotCounts, RoomOK
<1> HIDE DEF d
<1>3. WhoOf(d) = {m \in WhoOf(room) : m[1] # gone}
  BY <1>1 DEF WhoOf
<1>4. QED
  BY <1>2, <1>3 DEF d

\* The room after a departure is without the member, and otherwise as it was.
LEMMA GoneFromRoom ==
    ASSUME IInv, NEW r \in DOMAIN rooms, NEW gone \in DOMAIN rooms[r].members, NEW room,
           WhoOf(room) = WhoOf(Departed(rooms[r], gone)),
           room.memberIdCounter = Departed(rooms[r], gone).memberIdCounter,
           PutRoom(r, room), nextRoomId' = nextRoomId
    PROVE  LET m == <<gone, rooms[r].members[gone].user>>
           IN  m \in Who(r) /\ Becomes(r, Who(r) \ {m}) /\ DOMAIN rooms' = DOMAIN rooms /\ Evolves
<1> DEFINE m == <<gone, rooms[r].members[gone].user>>
<1>1. RoomOK(rooms[r])
  BY DEF IInv, TypeOK
<1>2. Who(r) = WhoOf(rooms[r]) /\ m \in Who(r) /\ Entries(r) = rooms[r].memberIdCounter
  BY DEF Who, WhoOf, Entries
<1>3. WhoOf(room) = {n \in Who(r) : n[1] # gone} /\ room.memberIdCounter = Entries(r)
  BY <1>1, <1>2, DepartedWho
<1>4. \A n \in Who(r) : n[1] = gone => n = m
  BY <1>2, WhoIsIn DEF Rosters
<1>5. WhoOf(room) = Who(r) \ {m}
  BY <1>3, <1>4
<1>6. /\ DOMAIN rooms' = DOMAIN rooms /\ Becomes(r, Who(r) \ {m})
      /\ \A x : Entries(x)' = Entries(x)
  <2>1. /\ DOMAIN rooms' = DOMAIN rooms \cup {r} /\ Becomes(r, WhoOf(room))
        /\ \A x : Entries(x)' = IF x = r THEN room.memberIdCounter ELSE Entries(x)
    BY PutRoomWho
  <2>2. QED
    BY <1>3, <1>5, <2>1
<1>7. Evolves
  BY <1>6, FewerEvolve
<1>8. QED
  BY <1>2, <1>6, <1>7

\* CmdLeaveRoom and DoLeaveRoom take the member away, and have its departure
\* announced if anyone is left.
LEMMA LeaveWho ==
    ASSUME IInv, NEW u \in Users, NEW r \in DOMAIN rooms, NEW rest,
           InRoom(u, r), LeaveRoom(u, r, rest)
    PROVE  \E m \in Who(r) :
               /\ m[2] = u /\ Becomes(r, Who(r) \ {m}) /\ Evolves
               /\ \/ Who(r) = {m} /\ Continue(u, rest)
                  \/ Continue(u, <<NotifyTask(Departure(r, m), NoUser)>> \o rest)
<1> DEFINE room == rooms[r]
           me   == FindByNpid(room, u)
           m    == <<me, u>>
<1>1. RoomOK(room) /\ me \in DOMAIN room.members /\ room.members[me].user = u
  BY FindByNpidFinds DEF IInv, TypeOK, InRoom
<1>2. m \in Who(r) /\ nextRoomId' = nextRoomId
  BY <1>1 DEF Who, WhoOf, LeaveRoom
<1>3. CASE DOMAIN room.members = {me}
  <2>1. DropRoom(r) /\ Continue(u, rest)
    BY <1>3 DEF LeaveRoom
  <2>2. Who(r) = {m}
    BY <1>1, <1>3 DEF Who, WhoOf
  <2>3. /\ DOMAIN rooms' = DOMAIN rooms \ {r} /\ Becomes(r, {})
        /\ \A x \in DOMAIN rooms' : Entries(x)' = Entries(x)
    BY <2>1, DropRoomWho
  <2>4. Becomes(r, Who(r) \ {m})
    <3>1. Who(r) \ {m} = {}
      BY <2>2
    <3>2. QED
      BY <2>3, <3>1
  <2>5. Evolves
    BY <1>2, <2>3, <2>4, FewerEvolve
  <2>6. QED
    BY <1>2, <2>1, <2>2, <2>4, <2>5
<1>4. CASE DOMAIN room.members # {me}
  <2>1. PICK after \in AfterLeave(room, me) : PutRoom(r, after)
    BY <1>4 DEF LeaveRoom
  <2>2. Continue(u, <<NotifyTask(Departure(r, m), NoUser)>> \o rest)
    BY <1>4 DEF LeaveRoom, Departure
  <2>3. /\ WhoOf(after) = WhoOf(Departed(room, me))
        /\ after.memberIdCounter = Departed(room, me).memberIdCounter
    <3> DEFINE d == Departed(room, me)
    <3>1. CASE after = d
      BY <3>1
    <3>2. CASE after # d
      <4>1. PICK next \in DOMAIN d.members : after = HandOver(d, next)
        BY <3>2 DEF AfterLeave
      <4>2. RoomOK(d)
        BY <1>1, DepartedType
      <4> HIDE DEF d
      <4>3. /\ DOMAIN after.members = DOMAIN d.members
            /\ \A id \in DOMAIN d.members : after.members[id].user = d.members[id].user
        BY <4>1, <4>2, HandOverFacts
      <4>4. after.memberIdCounter = d.memberIdCounter
        BY <4>1, <4>2 DEF HandOver, RoomOK
      <4>5. WhoOf(after) = WhoOf(d)
        BY <4>3 DEF WhoOf
      <4>6. QED
        BY <4>4, <4>5 DEF d
    <3>3. QED
      BY <3>1, <3>2
  <2>4. Becomes(r, Who(r) \ {m}) /\ Evolves
    <3>1. m = <<me, room.members[me].user>>
      BY <1>1
    <3>2. QED
      BY <1>1, <1>2, <2>1, <2>3, <3>1, GoneFromRoom
  <2>5. QED
    BY <1>2, <2>2, <2>4
<1>5. QED
  BY <1>3, <1>4

\* CmdKickoutRoomMember takes away another member than the owner who asks.
LEMMA KickWho ==
    ASSUME IInv, NEW u \in Users, NEW r \in DOMAIN rooms,
           NEW target \in DOMAIN rooms[r].members, NEW block \in BOOLEAN,
           CmdKickoutRoomMember(u, r, target, block)
    PROVE  \E m \in Who(r) :
               /\ m[2] \in Users \ {u} /\ Becomes(r, Who(r) \ {m}) /\ Evolves
               /\ Continue(u, <<DirectTask(Expulsion(r), m[2]),
                                NotifyTask(Departure(r, m), m[2])>>)
               /\ NoLongerLeft(r, m[2])
<1> DEFINE room == rooms[r]
           t    == room.members[target].user
           rest == Departed(room, target)
           next == IF block THEN [rest EXCEPT !.blocked = @ \cup {t}] ELSE rest
           m    == <<target, t>>
<1>1. /\ RoomOK(room) /\ t \in Users /\ RoomOK(rest)
      /\ PutRoom(r, next) /\ nextRoomId' = nextRoomId
      /\ InRoom(u, r) /\ room.owner = FindByNpid(room, u) /\ target # room.owner
  BY DepartedType DEF IInv, TypeOK, RoomOK, Member, CmdKickoutRoomMember
<1>2. /\ Continue(u, <<DirectTask(Expulsion(r), m[2]), NotifyTask(Departure(r, m), m[2])>>)
      /\ NoLongerLeft(r, m[2])
  BY DEF CmdKickoutRoomMember, Expulsion, Departure, NoLongerLeft
<1>3. t # u
  <2>1. room.owner \in DOMAIN room.members /\ room.members[room.owner].user = u
    BY <1>1, FindByNpidFinds DEF InRoom
  <2>2. Unambiguous(room)
    BY DEF IInv, RoomInv
  <2>3. QED
    BY <1>1, <2>1, <2>2 DEF Unambiguous
<1> HIDE DEF rest
<1>4. next.members = rest.members /\ next.memberIdCounter = rest.memberIdCounter
  BY <1>1 DEF RoomOK
<1>5. WhoOf(next) = WhoOf(rest)
  BY <1>4 DEF WhoOf
<1> HIDE DEF next
<1>6. m \in Who(r) /\ Becomes(r, Who(r) \ {m}) /\ Evolves
  BY <1>1, <1>4, <1>5, GoneFromRoom DEF rest
<1>7. QED
  BY <1>1, <1>2, <1>3, <1>6

\* CmdSetRoomDataInternal leaves everybody where he is.
LEMMA SetDataWho ==
    ASSUME IInv, NEW u \in Users, NEW r \in DOMAIN rooms, NEW q \in DataRequests,
           CmdSetRoomDataInternal(u, r, q)
    PROVE  Becomes(r, Who(r)) /\ Evolves
<1> DEFINE flagged == WithFlags(rooms[r], q.filter, q.flags)
           masked  == IF q.newMask
                      THEN RecomputeRoomSlotCounts(
                               [flagged EXCEPT !.passwdSlotMask = q.passwdSlotMask])
                      ELSE flagged
           room    == [masked EXCEPT !.attr = IF q.attr = NoAttr THEN @ ELSE q.attr]
<1>1. PutRoom(r, room) /\ nextRoomId' = nextRoomId /\ RoomOK(rooms[r])
  BY DEF CmdSetRoomDataInternal, IInv, TypeOK
<1>2. /\ DOMAIN flagged = DOMAIN rooms[r] /\ flagged.members = rooms[r].members
      /\ flagged.memberIdCounter = rooms[r].memberIdCounter
  BY <1>1 DEF WithFlags, RoomOK
<1> HIDE DEF flagged
<1>3. /\ DOMAIN masked = DOMAIN rooms[r] /\ masked.members = rooms[r].members
      /\ masked.memberIdCounter = rooms[r].memberIdCounter
  BY <1>1, <1>2 DEF RecomputeRoomSlotCounts, RoomOK
<1> HIDE DEF masked
<1>4. room.members = rooms[r].members /\ room.memberIdCounter = rooms[r].memberIdCounter
  BY <1>1, <1>3 DEF RoomOK
<1> HIDE DEF room
<1>5. WhoOf(room) = Who(r) /\ room.memberIdCounter = Entries(r)
  BY <1>4 DEF WhoOf, Who, Entries
<1>6. /\ DOMAIN rooms' = DOMAIN rooms /\ Becomes(r, Who(r))
      /\ \A x : Entries(x)' = Entries(x)
  <2>1. /\ DOMAIN rooms' = DOMAIN rooms \cup {r} /\ Becomes(r, WhoOf(room))
        /\ \A x : Entries(x)' = IF x = r THEN room.memberIdCounter ELSE Entries(x)
    BY <1>1, PutRoomWho
  <2>2. QED
    BY <1>5, <2>1
<1>7. QED
  BY <1>1, <1>6, FewerEvolve

---------------------------------------------------------------------------
(* Events stay sound                                                       *)

\* What is queued and under way is made of tasks and events.
LEMMA QueuedTypes ==
    ASSUME IInv, ClientTypes
    PROVE  /\ \A v \in Users : todo[v] \in Seq(Task) /\ inbox[v] \in Seq(Event)
           /\ \A v \in Users : Pending(v) \subseteq Task /\ Items(inbox[v]) \subseteq Event
<1>1. \A v \in Users : todo[v] \in Seq(Task) /\ inbox[v] \in Seq(Event)
  BY DEF IInv, TypeOK, ClientTypes
<1>2. ASSUME NEW v \in Users PROVE Pending(v) \subseteq Task /\ Items(inbox[v]) \subseteq Event
  <2>1. todo[v] \in Seq(Task) /\ inbox[v] \in Seq(Event)
    BY <1>1
  <2>2. Items(todo[v]) \subseteq Task
    BY <2>1, ItemsOfLists
  <2>3. Items(inbox[v]) \subseteq Event
    BY <2>1, ItemsOfLists
  <2>4. QED
    BY <2>2, <2>3 DEF Pending
<1>3. QED
  BY <1>1, <1>2

\* What a task of each kind carries.
LEMMA TaskFields ==
    ASSUME NEW k \in Task
    PROVE  /\ k.do \in {"lookup", "notify", "direct", "send", "unregister"}
           /\ k.do = "lookup" => k.room \in Nat /\ k.id \in MemberIds
           /\ k.do \in {"notify", "direct", "send"} => k.ev \in Event
           /\ k.do = "notify" => k.except \in Users \cup {NoUser}
           /\ k.do = "direct" => k.to \in Users
           /\ k.do = "send" => k.to \subseteq Users
           /\ k.do = "unregister" => k = UnregisterTask
BY DEF Task, UnregisterTask

\* The counter part of an id is a number, and nobody has the id of nobody.
LEMMA IdCounters ==
    /\ \A id \in MemberIds : id[2] \in Nat /\ id # NoId
    /\ NoId[2] = 0
    /\ \A ev \in Event : ev.id[2] \in Nat /\ ev.room \in Nat
<1>1. \A id \in MemberIds : id[2] \in Nat /\ id[1] \in 1..(NSlots + 1) /\ id = <<id[1], id[2]>>
  BY SlotsAssumption DEF MemberIds
<1>2. \A id \in MemberIds : id # NoId
  BY <1>1, SlotsAssumption DEF NoId
<1>3. NoId[2] = 0
  BY DEF NoId
<1>4. QED
  BY <1>1, <1>2, <1>3 DEF Event

\* What is true of an event stays true while ids are given in ascending order.
LEMMA EventStaysSound ==
    ASSUME IInv, IInv', Evolves, NEW ev \in Event, EventSound(ev)
    PROVE  EventSound(ev)'
<1>1. /\ nextRoomId \in Nat /\ nextRoomId' \in Nat /\ nextRoomId <= nextRoomId'
      /\ \A x : Entries(x) \in Nat
  BY WhoIsIn DEF Rosters, Evolves, IInv, TypeOK
<1>2. \A x : Entries(x)' \in Nat /\ \A m \in Who(x)' : m[1][2] \in Nat
  BY WhoIsInNext DEF Rosters
<1>3. ev.room \in Nat /\ ev.id[2] \in Nat
  BY IdCounters
<1> DEFINE r == ev.room
<1>4. ev.room < nextRoomId'
  BY <1>1, <1>3 DEF EventSound
<1>5. ASSUME r \in DOMAIN rooms'
      PROVE  /\ ev.id[2] <= Entries(r)'
             /\ \A m \in Who(r)' : m[1] = ev.id => m \in Who(r)
  <2>1. r \in DOMAIN rooms /\ Entries(r) <= Entries(r)'
    BY <1>1, <1>3, <1>5 DEF Evolves, EventSound
  <2>2. ev.id[2] <= Entries(r)
    BY <2>1 DEF EventSound
  <2>3. \A m \in Who(r)' : m \in Who(r) \/ Entries(r) < m[1][2]
    BY <1>5, <2>1 DEF Evolves
  <2>4. Entries(r) \in Nat /\ Entries(r)' \in Nat
    BY <1>1, <1>2
  <2>5. QED
    BY <1>3, <2>1, <2>2, <2>3, <2>4
<1>6. r \in DOMAIN rooms' => r \in DOMAIN rooms
  BY <1>1, <1>3 DEF Evolves, EventSound
<1>7. QED
  BY <1>4, <1>5, <1>6 DEF EventSound

\* So is what is true of a task that looks a member up.
LEMMA TaskStaysSound ==
    ASSUME IInv, IInv', Evolves, NEW k \in Task, TaskSound(k)
    PROVE  TaskSound(k)'
<1>1. k.do \in {"notify", "direct", "send"} => EventSound(k.ev)'
  BY TaskFields, EventStaysSound DEF TaskSound
<1>2. ASSUME k.do = "lookup"
      PROVE  k.room < nextRoomId' /\ (k.room \in DOMAIN rooms' => k.id[2] <= Entries(k.room)')
  <2>1. k.room \in Nat /\ k.id[2] \in Nat
    BY <1>2, TaskFields, IdCounters
  <2>2. /\ nextRoomId \in Nat /\ nextRoomId' \in Nat /\ nextRoomId <= nextRoomId'
        /\ \A x : Entries(x) \in Nat
    BY WhoIsIn DEF Rosters, Evolves, IInv, TypeOK
  <2>3. \A x : Entries(x)' \in Nat
    BY WhoIsInNext DEF Rosters
  <2>4. k.room < nextRoomId /\ (k.room \in DOMAIN rooms => k.id[2] <= Entries(k.room))
    BY <1>2 DEF TaskSound
  <2>5. k.room \in DOMAIN rooms' => k.room \in DOMAIN rooms /\ Entries(k.room) <= Entries(k.room)'
    BY <2>1, <2>2, <2>4 DEF Evolves
  <2>6. k.room \in DOMAIN rooms' => k.id[2] <= Entries(k.room)'
    <3>1. Entries(k.room) \in Nat /\ Entries(k.room)' \in Nat
      BY <2>2, <2>3
    <3>2. QED
      BY <2>1, <2>4, <2>5, <3>1
  <2>7. k.room < nextRoomId'
    BY <2>1, <2>2, <2>4
  <2>8. QED
    BY <2>6, <2>7
<1>3. k.do = "notify" => k.ev.event # "KICKEDOUT"
  BY DEF TaskSound
<1>4. QED
  BY <1>1, <1>2, <1>3 DEF TaskSound

\* A step whose new tasks and events are sound.
LEMMA EventsStaySound ==
    ASSUME IInv, IInv', ClientTypes, EventsSound, Evolves,
           \A v \in Users : \A k \in Pending(v)' : k \in Pending(v) \/ TaskSound(k)',
           \A v \in Users : \A ev \in Items(inbox'[v]) :
                ev \in Items(inbox[v]) \/ EventSound(ev)'
    PROVE  EventsSound'
<1>1. ASSUME NEW r \in DOMAIN rooms', NEW m \in Who(r)' PROVE m[1][2] <= Entries(r)'
  <2>1. CASE m \in Who(r)
    <3>1. r \in DOMAIN rooms
      BY <2>1 DEF Who
    <3>2. m[1][2] <= Entries(r) /\ Entries(r) <= Entries(r)'
      BY <2>1, <3>1 DEF EventsSound, Evolves
    <3>3. m[1][2] \in Nat /\ Entries(r) \in Nat
      BY <2>1, WhoIsIn DEF Rosters
    <3>4. Entries(r)' \in Nat
      BY WhoIsInNext DEF Rosters
    <3>5. QED
      BY <3>2, <3>3, <3>4
  <2>2. CASE m \notin Who(r)
    BY <2>2 DEF Evolves
  <2>3. QED
    BY <2>1, <2>2
<1>2. ASSUME NEW v \in Users, NEW k \in Pending(v)' PROVE TaskSound(k)'
  <2>1. CASE k \in Pending(v)
    <3>1. k \in Task /\ TaskSound(k)
      BY <2>1, QueuedTypes DEF EventsSound
    <3>2. QED
      BY <3>1, TaskStaysSound
  <2>2. QED
    BY <2>1
<1>3. ASSUME NEW v \in Users, NEW ev \in Items(inbox'[v]) PROVE EventSound(ev)'
  <2>1. CASE ev \in Items(inbox[v])
    <3>1. ev \in Event /\ EventSound(ev)
      BY <2>1, QueuedTypes DEF EventsSound
    <3>2. QED
      BY <3>1, EventStaysSound
  <2>2. QED
    BY <2>1
<1>4. QED
  BY <1>1, <1>2, <1>3 DEF EventsSound

\* The events of a departure, a kick and an update are sound.
NewEvents ==
    \A r \in Nat : r < nextRoomId =>
        /\ EventSound(Expulsion(r)) /\ \A x : EventSound(DataEvent(r, x))
        /\ \A m :
            (r \in DOMAIN rooms => m[1][2] <= Entries(r) /\ \A n \in Who(r) : m[1] # n[1]) =>
                EventSound(Departure(r, m))

LEMMA NewEventsSound == IInv => NewEvents
<1> SUFFICES ASSUME IInv, NEW r \in Nat, r < nextRoomId
             PROVE  /\ EventSound(Expulsion(r)) /\ \A x : EventSound(DataEvent(r, x))
                    /\ \A m :
                        (r \in DOMAIN rooms =>
                            m[1][2] <= Entries(r) /\ \A n \in Who(r) : m[1] # n[1]) =>
                        EventSound(Departure(r, m))
  BY DEF NewEvents
<1>1. Entries(r) \in Nat
  BY WhoIsIn DEF Rosters
<1>2. EventSound(Expulsion(r))
  BY <1>1, IdCounters, EventsDiffer DEF EventSound
<1>3. ASSUME NEW x PROVE EventSound(DataEvent(r, x))
  BY <1>1, IdCounters DEF EventSound, DataEvent
<1>4. ASSUME NEW m,
             r \in DOMAIN rooms => m[1][2] <= Entries(r) /\ \A n \in Who(r) : m[1] # n[1]
      PROVE  EventSound(Departure(r, m))
  BY <1>4, EventsDiffer DEF EventSound
<1>5. QED
  BY <1>2, <1>3, <1>4

LEMMA NewEventsSoundNext == IInv' => NewEvents'
BY NewEventsSound, PTL

---------------------------------------------------------------------------
(* Requests                                                                *)

\* A handler that begins brings what it has to do and takes nothing away.
LEMMA NewTasks ==
    ASSUME IInv, NEW w \in Users, todo[w] = <<>>, NEW tasks, Continue(w, tasks)
    PROVE  /\ todo'[w] = tasks /\ Pending(w)' = Items(tasks)
           /\ \A v \in Users \ {w} : todo'[v] = todo[v] /\ Pending(v)' = Pending(v)
           /\ \A v \in Users : \A k \in Pending(v)' : k \in Pending(v) \/ k \in Items(tasks)
           /\ \A u, ev : Brought(u, ev) => Brought(u, ev)'
           /\ \A k \in Items(tasks) : \A u, ev : Brings(w, k, u, ev) => Brought(u, ev)'
<1>1. /\ todo'[w] = tasks /\ \A v \in Users \ {w} : todo'[v] = todo[v]
  BY DEF Continue, IInv, TypeOK
<1>2. Pending(w)' = Items(tasks) /\ \A v \in Users \ {w} : Pending(v)' = Pending(v)
  BY <1>1 DEF Pending, Items
<1>3. Pending(w) = {}
  BY DEF Pending, Items
<1>4. ASSUME NEW u, NEW ev, Brought(u, ev) PROVE Brought(u, ev)'
  <2>1. PICK v \in Users : \E k \in Pending(v) : Brings(v, k, u, ev)
    BY <1>4 DEF Brought
  <2>2. PICK k \in Pending(v) : Brings(v, k, u, ev)
    BY <2>1
  <2>3. k \in Pending(v)'
    BY <1>2, <1>3
  <2>4. QED
    BY <2>2, <2>3 DEF Brought, Brings
<1>5. ASSUME NEW k \in Items(tasks), NEW u, NEW ev, Brings(w, k, u, ev) PROVE Brought(u, ev)'
  BY <1>2, <1>5 DEF Brought, Brings
<1>6. QED
  BY <1>1, <1>2, <1>4, <1>5

\* A user whose own belief does not change: whoever comes or goes in a room is
\* announced to its members, and the member itself is told when kicked.
LEMMA BystanderKept ==
    ASSUME IInv, IInv', NEW u \in Users, RoomKnown(u), RoomSeen(u),
           Will(u)'.room = Will(u).room, Will(u)'.members = Will(u).members,
           inbox'[u] = inbox[u], overtaken \subseteq overtaken', StayAbandoned(u),
           \A ev : Brought(u, ev) => Brought(u, ev)',
           \A x : \A m \in Who(x)' \ Who(x) :
                m[2] # u /\ (InRoom(u, x)' => Brought(u, Arrival(x, m))'),
           \A x : \A m \in Who(x) \ Who(x)' :
                IF m[2] = u THEN Brought(u, Expulsion(x))'
                ELSE InRoom(u, x)' => Brought(u, Departure(x, m))'
    PROVE  RoomKnown(u)' /\ RoomSeen(u)' /\ \A x : InRoom(u, x)' => InRoom(u, x)
<1>1. \A ev : OnItsWay(u, ev) => OnItsWay(u, ev)'
  BY DEF OnItsWay, Items
<1>2. ASSUME NEW x, InRoom(u, x)' PROVE InRoom(u, x)
  <2>1. PICK m \in Who(x)' : m[2] = u
    BY <1>2, WhoIsInNext DEF Rosters
  <2>2. m \in Who(x)
    BY <2>1
  <2>3. QED
    BY <2>1, <2>2, WhoIsIn DEF Rosters
<1>3. ASSUME NEW x, InRoom(u, x), ~InRoom(u, x)' PROVE OnItsWay(u, Expulsion(x))'
  <2>1. PICK m \in Who(x) : m[2] = u
    BY <1>3, WhoIsIn DEF Rosters
  <2>2. m \notin Who(x)'
    BY <1>3, <2>1, WhoIsInNext DEF Rosters
  <2>3. QED
    BY <2>1, <2>2 DEF OnItsWay
<1> DEFINE b == Will(u).room
<1>4. RoomKnown(u)'
  <2>1. b # 0 => InRoom(u, b)' \/ OnItsWay(u, Expulsion(b))'
    BY <1>1, <1>3 DEF RoomKnown
  <2>2. \A x \in DOMAIN rooms' : Belongs(u, x)' => b = x \/ <<u, Expulsion(x)>> \in overtaken'
    BY <1>2 DEF RoomKnown, InRoom, Belongs, StayAbandoned
  <2>3. QED
    BY <2>1, <2>2 DEF RoomKnown
<1>5. ASSUME NEW r \in DOMAIN rooms', InRoom(u, r)', Will(u)'.room = r
      PROVE  Complete(u, r)' /\ Explained(u, r)' /\ Ordered(u, r)'
  <2>1. Complete(u, r) /\ Explained(u, r) /\ Ordered(u, r)
    BY <1>2, <1>5 DEF RoomSeen, InRoom
  <2>2. Complete(u, r)'
    BY <1>1, <1>5, <2>1 DEF Complete, OnItsWay
  <2>3. ASSUME NEW m \in Who(r), m \notin Who(r)' PROVE Brought(u, Departure(r, m))'
    <3>1. PICK n \in Who(r)' : n[2] = u
      BY <1>5, WhoIsInNext DEF Rosters
    <3>2. n \in Who(r)
      BY <3>1
    <3>3. m[2] # u
      BY <2>3, <3>1, <3>2, WhoIsIn DEF Rosters
    <3>4. QED
      BY <1>5, <2>3, <3>3
  <2>4. Explained(u, r)'
    BY <1>1, <2>1, <2>3 DEF Explained, OnItsWay
  <2>5. ASSUME NEW i \in 1..Len(inbox'[u]), NEW m \in MemberRef, inbox'[u][i] = Arrival(r, m)
        PROVE  \/ m \in Who(r)' \/ Brought(u, Departure(r, m))' \/ DepartsAfter(u, i, r, m)'
               \/ <<u, Arrival(r, m)>> \in overtaken'
    <3>1. \/ m \in Who(r) \/ Brought(u, Departure(r, m)) \/ DepartsAfter(u, i, r, m)
          \/ <<u, Arrival(r, m)>> \in overtaken
      BY <2>1, <2>5 DEF Ordered
    <3>2. DepartsAfter(u, i, r, m) => DepartsAfter(u, i, r, m)'
      BY DEF DepartsAfter
    <3>3. QED
      BY <2>3, <3>1, <3>2
  <2>6. Ordered(u, r)'
    BY <2>5 DEF Ordered
  <2>7. QED
    BY <2>2, <2>4, <2>6
<1>6. RoomSeen(u)'
  BY <1>5 DEF RoomSeen
<1>7. QED
  BY <1>2, <1>4, <1>6

\* A session that stays as it is.
LEMMA SessionKept ==
    ASSUME IInv, NEW u \in Users, SessionSound(u),
           session'[u] = session[u], todo'[u] = todo[u], Will(u)'.room = Will(u).room,
           \A x : InRoom(u, x)' => InRoom(u, x)
    PROVE  SessionSound(u)'
<1>1. Connected(u)' = Connected(u) /\ InOrder(todo'[u]) = InOrder(todo[u])
  BY DEF Connected
<1>2. QED
  BY <1>1 DEF SessionSound

\* What a reply holds is a cache.
LEMMA SnapshotType ==
    ASSUME NEW r \in Nat, NEW room, RoomOK(room)
    PROVE  Snapshot(r, room) \in Caches
<1>1. \A id \in DOMAIN room.members : id \in MemberIds /\ room.members[id].user \in Users
  BY DEF RoomOK, Member
<1>2. room.attr \in AttrValues \cup {NoAttr}
  BY DEF RoomOK
<1>3. QED
  BY <1>1, <1>2 DEF Snapshot, Caches, MemberRef

\* Clients name their contexts by ids other than 0: the server takes ctxId 0 for
\* no context (matching_types.h) and sends the client of such a one no event.
ContextsNamed == 0 \notin ContextIds

\* Logging in and the life of a context keep the invariant.
LEMMA StartsKeep ==
    ASSUME ClientInv, IInv', ContextsNamed, NEW w \in Users, Starts(w)
    PROVE  ClientInv'
<1>1. /\ UNCHANGED <<rooms, nextRoomId, todo, inbox, reply, cache, overtaken, abandoned>>
      /\ \A u \in Users \ {w} : session'[u] = session[u]
  <2>1. session \in [Users -> Session]
    BY DEF ClientInv, IInv, TypeOK
  <2>2. QED
    BY <2>1 DEF Starts, clientVars, Login, CmdContextStart, CmdContextStop
<1>2. Evolves /\ (\A x : Who(x)' = Who(x)) /\ (\A u : Will(u)' = Will(u))
      /\ (\A v : Pending(v)' = Pending(v)) /\ \A u, ev : Brought(u, ev)' = Brought(u, ev)
  <2>1. Evolves /\ Becomes(0, Who(0))
    BY <1>1, SameRooms DEF ClientInv
  <2>2. (\A u : Will(u)' = Will(u)) /\ (\A v : Pending(v)' = Pending(v))
    BY <1>1 DEF Will, Pending
  <2>3. \A u, ev : Brought(u, ev)' = Brought(u, ev)
    BY <2>2 DEF Brought, Brings
  <2>4. \A x : Who(x)' = Who(x)
    BY <2>1 DEF Becomes
  <2>5. QED
    BY <2>1, <2>2, <2>3, <2>4
<1>3. ClientTypes' /\ EventsSound'
  BY <1>1, <1>2, EventsStaySound DEF ClientInv, ClientTypes
<1>4. ASSUME NEW u \in Users
      PROVE  RoomKnown(u)' /\ RoomSeen(u)' /\ \A x : InRoom(u, x)' => InRoom(u, x)
  <2>1. RoomKnown(u) /\ RoomSeen(u)
    BY DEF ClientInv, UserSound
  <2>2. QED
    BY <1>1, <1>2, <2>1, BystanderKept DEF ClientInv, StayAbandoned
<1>5. ASSUME NEW u \in Users \ {w} PROVE SessionSound(u)'
  BY <1>1, <1>2, <1>4, SessionKept DEF ClientInv, UserSound
<1>6. SessionSound(w)'
  <2>1. SessionSound(w) /\ session \in [Users -> Session]
    BY DEF ClientInv, UserSound, IInv, TypeOK
  <2>2. Will(w).room = 0
    <3>1. CASE cache[w] = NoRoom /\ todo[w] = <<>>
      BY <3>1 DEF Will, NoRoom
    <3>2. CASE ~session[w].initialized
      BY <2>1, <3>2 DEF SessionSound
    <3>3. CASE ~session[w].registered
      BY <2>1, <3>3 DEF SessionSound
    <3>4. QED
      BY <3>1, <3>2, <3>3 DEF Starts, Login, CmdContextStart, CmdContextStop, Idle
  <2>3. session'[w].initialized => session'[w].registered /\ session'[w].ctxId # 0
    <3>1. CASE Login(w)
      BY <2>1, <3>1 DEF Login, FreshSession
    <3>2. CASE CmdContextStop(w)
      BY <2>1, <3>2 DEF CmdContextStop
    <3>3. ASSUME NEW ctx \in ContextIds, CmdContextStart(w, ctx)
          PROVE  session'[w].registered /\ session'[w].ctxId # 0
      BY <2>1, <3>3 DEF CmdContextStart, Idle, ContextsNamed, Session
    <3>4. QED
      BY <3>1, <3>2, <3>3 DEF Starts
  <2>4. QED
    BY <1>1, <1>2, <2>1, <2>2, <2>3 DEF SessionSound
<1>7. QED
  BY <1>3, <1>4, <1>5, <1>6 DEF ClientInv, UserSound

\* What entering a room leaves of a session.
LEMMA EnteredSession ==
    ASSUME NEW old \in Session, NEW new,
           new = [old EXCEPT !.roomId = new.roomId, !.worldId = new.worldId,
                             !.lobbyId = new.lobbyId]
    PROVE  /\ new.initialized = old.initialized /\ new.registered = old.registered
           /\ new.ctxId = old.ctxId
BY DEF Session

\* Creating a room keeps the invariant: its creator knows it at once, and
\* nobody else is in it.
LEMMA CreatesKeep ==
    ASSUME ClientInv, IInv', NEW w \in Users, Creates(w)
    PROVE  ClientInv'
<1>1. PICK n : n = nextRoomId
  OBVIOUS
<1>2. PICK q \in RoomRequests : CmdCreateRoom(w, q)
  BY DEF Creates
<1>3. /\ IInv /\ ClientTypes /\ EventsSound /\ \A u \in Users : UserSound(u)
      /\ session \in [Users -> Session] /\ n \in Nat \ {0}
  BY <1>1 DEF ClientInv, IInv, TypeOK
<1>4. /\ cache' = [cache EXCEPT ![w] = Snapshot(n, rooms'[n])] /\ cache[w] = NoRoom
      /\ UNCHANGED <<inbox, reply, overtaken, todo, abandoned>> /\ todo[w] = <<>>
      /\ session[w].initialized /\ session'[w].roomId = n
      /\ session'[w] = [session[w] EXCEPT !.roomId = session'[w].roomId,
                                          !.worldId = session'[w].worldId,
                                          !.lobbyId = session'[w].lobbyId]
      /\ \A u \in Users \ {w} : session'[u] = session[u]
  BY <1>1, <1>2, <1>3 DEF Creates, CmdCreateRoom, EnteredRoom, Idle, Session
<1>5. PICK id : /\ Who(n) = {} /\ DOMAIN rooms' = DOMAIN rooms \cup {n}
                /\ Becomes(n, {<<id, w>>}) /\ WhoOf(rooms'[n]) = Who(n)' /\ Evolves
  BY <1>1, <1>2, <1>3, CreateWho
<1> DEFINE m == <<id, w>>
<1>6. Who(n)' = {m} /\ \A x : x # n => Who(x)' = Who(x)
  BY <1>5 DEF Becomes
<1>7. ClientTypes'
  <2>1. RoomOK(rooms'[n])
    BY <1>5 DEF IInv, TypeOK
  <2>2. Snapshot(n, rooms'[n]) \in Caches
    BY <1>3, <2>1, SnapshotType
  <2>3. QED
    BY <1>3, <1>4, <2>2 DEF ClientTypes
<1>8. /\ \A v : Pending(v)' = Pending(v)
      /\ \A u, ev : Brought(u, ev)' = Brought(u, ev)
      /\ \A u \in Users \ {w} : Will(u)' = Will(u)
      /\ Will(w)'.room = n /\ Will(w)'.members = {m} /\ Will(w).room = 0
  <2>1. \A v : Pending(v)' = Pending(v)
    BY <1>4 DEF Pending
  <2>2. \A u, ev : Brought(u, ev)' = Brought(u, ev)
    BY <2>1 DEF Brought, Brings
  <2>3. \A u \in Users \ {w} : Will(u)' = Will(u)
    BY <1>3, <1>4 DEF Will, ClientTypes
  <2>4. Will(w)' = Snapshot(n, rooms'[n]) /\ Will(w).room = 0
    BY <1>3, <1>4 DEF Will, ClientTypes, NoRoom
  <2>5. QED
    BY <1>5, <1>6, <2>1, <2>2, <2>3, <2>4, SnapshotOf
<1>9. EventsSound'
  BY <1>3, <1>4, <1>5, <1>8, EventsStaySound
<1>10. ASSUME NEW u \in Users \ {w} PROVE UserSound(u)'
  <2>1. RoomKnown(u)' /\ RoomSeen(u)' /\ \A x : InRoom(u, x)' => InRoom(u, x)
    <3>1. RoomKnown(u) /\ RoomSeen(u) /\ Will(u)' = Will(u) /\ inbox'[u] = inbox[u]
      BY <1>3, <1>4, <1>8 DEF UserSound
    <3>2. \A x : \A p \in Who(x)' \ Who(x) : x = n /\ p[2] # u
      BY <1>6
    <3>3. ~InRoom(u, n)'
      BY <1>6, WhoIsInNext DEF Rosters
    <3>4. \A x : Who(x) \ Who(x)' = {}
      BY <1>5, <1>6
    <3>5. QED
      BY <1>3, <1>4, <1>8, <3>1, <3>2, <3>3, <3>4, BystanderKept DEF StayAbandoned
  <2>2. SessionSound(u)'
    BY <1>3, <1>4, <1>8, <2>1, SessionKept DEF UserSound
  <2>3. QED
    BY <2>1, <2>2 DEF UserSound
<1>11. UserSound(w)'
  <2>1. InRoom(w, n)' /\ \A x : x # n /\ InRoom(w, x)' => InRoom(w, x)
    <3>1. m[2] = w /\ \A u : InRoom(u, n)' <=> \E p \in Who(n)' : p[2] = u
      BY WhoIsInNext DEF Rosters
    <3>2. InRoom(w, n)'
      BY <1>6, <3>1
    <3>3. ASSUME NEW x, x # n, InRoom(w, x)' PROVE InRoom(w, x)
      <4>1. PICK p \in Who(x)' : p[2] = w
        BY <3>3, WhoIsInNext DEF Rosters
      <4>2. p \in Who(x)
        BY <1>6, <3>3, <4>1
      <4>3. QED
        BY <1>3, <4>1, <4>2, WhoIsIn DEF Rosters
    <3>4. QED
      BY <3>2, <3>3
  <2>2. SessionSound(w)'
    <3>1. SessionSound(w)
      BY <1>3 DEF UserSound
    <3>2. /\ session'[w].initialized /\ session'[w].registered = session[w].registered
          /\ session'[w].ctxId = session[w].ctxId
      <4>1. session[w] \in Session
        BY <1>3
      <4>2. QED
        BY <1>3, <1>4, <4>1, EnteredSession
    <3>3. Connected(w)' /\ InOrder(todo'[w])
      <4>1. todo'[w] = <<>>
        BY <1>4
      <4>2. QED
        BY <1>4, <3>1, <3>2, <4>1 DEF SessionSound, Connected, InOrder
    <3>4. QED
      BY <1>4, <1>8, <3>1, <3>2, <3>3 DEF SessionSound
  <2>3. RoomKnown(w)'
    <3>1. RoomKnown(w)
      BY <1>3 DEF UserSound
    <3>2. \A x \in DOMAIN rooms' : Belongs(w, x)' => x = n \/ <<w, Expulsion(x)>> \in overtaken'
      BY <1>3, <1>4, <1>8, <2>1, <3>1, WhoIsIn DEF RoomKnown, InRoom, Belongs, Rosters
    <3>3. QED
      BY <1>8, <2>1, <3>2 DEF RoomKnown
  <2>4. RoomSeen(w)'
    <3>1. Complete(w, n)' /\ Explained(w, n)'
      BY <1>6, <1>8 DEF Complete, Explained
    <3>2. \A i \in 1..Len(inbox'[w]) : inbox'[w][i].room # n
      <4>1. \A ev \in Items(inbox[w]) : ev \in Event /\ ev.room < n
        BY <1>1, <1>3, QueuedTypes DEF EventsSound, EventSound
      <4>2. \A ev \in Items(inbox[w]) : ev.room # n
        BY <1>3, <4>1, IdCounters
      <4>3. QED
        BY <1>4, <4>2 DEF Items
    <3>3. Ordered(w, n)'
      BY <3>2, EventsDiffer DEF Ordered
    <3>4. QED
      BY <1>8, <3>1, <3>3 DEF RoomSeen
  <2>5. QED
    BY <2>2, <2>3, <2>4 DEF UserSound
<1>12. QED
  BY <1>7, <1>9, <1>10, <1>11 DEF ClientInv

\* A sound arrival of somebody who is not in the room announces the gone.
LEMMA GoneAnnounced ==
    ASSUME IInv, NEW r, NEW m \in MemberRef, EventSound(Arrival(r, m)), m \notin Who(r)
    PROVE  AnnouncesTheGone(Arrival(r, m))
<1>1. SUFFICES ASSUME r \in DOMAIN rooms, m[1] \in DOMAIN rooms[r].members PROVE FALSE
  BY EventsDiffer DEF AnnouncesTheGone
<1>2. PICK q : q = <<m[1], rooms[r].members[m[1]].user>>
  OBVIOUS
<1>3. q \in Who(r) /\ q[1] = m[1] /\ q = <<q[1], q[2]>>
  BY <1>1, <1>2 DEF Who, WhoOf
<1>4. q[2] = m[2]
  BY <1>1, <1>3, EventsDiffer DEF EventSound
<1>5. m = <<m[1], m[2]>>
  BY DEF MemberRef
<1>6. QED
  BY <1>3, <1>4, <1>5

\* Joining keeps the invariant: the others are told, the joiner has the reply,
\* and what still waits for it from an earlier stay is noted.
LEMMA JoinsKeep ==
    ASSUME ClientInv, IInv', NEW w \in Users, Joins(w)
    PROVE  ClientInv'
<1>1. PICK r \in DOMAIN rooms, blocks \in BlockLists :
        /\ rooms[r].memberIdCounter < MaxJoins /\ CmdJoinRoom(w, r, blocks)
        /\ reply' = [reply EXCEPT ![w] = Snapshot(r, rooms'[r])]
        /\ overtaken' = overtaken \cup ({w} \X OutOfDate(w, r))
  BY DEF Joins
<1>2. /\ IInv /\ ClientTypes /\ EventsSound /\ \A u \in Users : UserSound(u)
      /\ session \in [Users -> Session] /\ r \in Nat \ {0} /\ r < nextRoomId
  BY WhoIsIn DEF ClientInv, IInv, TypeOK, Rosters
<1>3. PICK id : id = AllocMemberId(rooms[r])
  OBVIOUS
<1> DEFINE m == <<id, w>>
           k == LookupTask(r, id)
<1>4. /\ UNCHANGED <<inbox, cache>> /\ cache[w] = NoRoom
      /\ Continue(w, <<k>>) /\ todo[w] = <<>> /\ UNCHANGED <<nextRoomId, abandoned>>
      /\ session[w].initialized /\ session'[w].roomId = r
      /\ session'[w] = [session[w] EXCEPT !.roomId = session'[w].roomId,
                                          !.worldId = session'[w].worldId,
                                          !.lobbyId = session'[w].lobbyId]
      /\ \A u \in Users \ {w} : session'[u] = session[u]
  BY <1>1, <1>2, <1>3 DEF Joins, CmdJoinRoom, EnteredRoom, Idle, Session
<1>5. /\ Becomes(r, Who(r) \cup {m}) /\ WhoOf(rooms'[r]) = Who(r)'
      /\ id \in MemberIds /\ id[2] = Entries(r)' /\ DOMAIN rooms' = DOMAIN rooms /\ Evolves
  BY <1>1, <1>2, <1>3, JoinWho
<1>6. Who(r)' = Who(r) \cup {m} /\ \A x : x # r => Who(x)' = Who(x)
  BY <1>5 DEF Becomes
<1>7. ClientTypes'
  <2>1. RoomOK(rooms'[r])
    BY <1>5 DEF IInv, TypeOK
  <2>2. Snapshot(r, rooms'[r]) \in Caches
    BY <1>2, <2>1, SnapshotType
  <2>3. QED
    BY <1>1, <1>2, <1>4, <2>2 DEF ClientTypes
<1>8. /\ todo'[w] = <<k>> /\ Pending(w)' = Items(<<k>>)
      /\ \A v \in Users \ {w} : todo'[v] = todo[v] /\ Pending(v)' = Pending(v)
      /\ \A v \in Users : \A t \in Pending(v)' : t \in Pending(v) \/ t \in Items(<<k>>)
      /\ \A u, ev : Brought(u, ev) => Brought(u, ev)'
      /\ \A t \in Items(<<k>>) : \A u, ev : Brings(w, t, u, ev) => Brought(u, ev)'
  BY <1>2, <1>4, NewTasks
<1>9. Items(<<k>>) = {k} /\ k.do = "lookup" /\ k.room = r /\ k.id = id
  <2>1. k.do = "lookup" /\ k.room = r /\ k.id = id
    BY DEF LookupTask
  <2> HIDE DEF k
  <2>2. Items(<<k>>) = {k}
    BY DEF Items
  <2>3. QED
    BY <2>1, <2>2
<1> HIDE DEF k
<1>10. /\ \A u \in Users \ {w} : Will(u)' = Will(u)
       /\ Will(w)'.room = r /\ Will(w)'.members = Who(r)' /\ Will(w).room = 0
  <2>1. \A u \in Users \ {w} : Will(u)' = Will(u)
    BY <1>1, <1>2, <1>4, <1>8 DEF Will, ClientTypes
  <2>2. todo'[w] # <<>>
    BY <1>8
  <2>3. Will(w)' = Snapshot(r, rooms'[r]) /\ Will(w).room = 0
    BY <1>1, <1>2, <1>4, <2>2 DEF Will, ClientTypes, NoRoom
  <2>4. QED
    BY <1>5, <2>1, <2>3, SnapshotOf
<1>11. EventsSound'
  <2>1. TaskSound(k)'
    <3>1. k.room < nextRoomId' /\ (k.room \in DOMAIN rooms' => k.id[2] <= Entries(k.room)')
      <4>1. Entries(r)' \in Nat /\ id[2] = Entries(r)'
        BY <1>5, WhoIsInNext DEF Rosters
      <4>2. id[2] <= Entries(r)'
        BY <4>1
      <4>3. QED
        BY <1>2, <1>4, <1>9, <4>2
    <3>2. QED
      BY <1>9, <3>1 DEF TaskSound
  <2>2. QED
    BY <1>2, <1>4, <1>5, <1>8, <1>9, <2>1, EventsStaySound
<1>12. ASSUME NEW u \in Users \ {w} PROVE UserSound(u)'
  <2>1. Brought(u, Arrival(r, m))'
    <3>1. Brings(w, k, u, Arrival(r, m))
      BY <1>9, EventsDiffer DEF Brings
    <3>2. QED
      BY <1>8, <1>9, <3>1
  <2>2. RoomKnown(u)' /\ RoomSeen(u)' /\ \A x : InRoom(u, x)' => InRoom(u, x)
    <3>1. /\ RoomKnown(u) /\ RoomSeen(u) /\ Will(u)' = Will(u) /\ inbox'[u] = inbox[u]
          /\ overtaken \subseteq overtaken'
      BY <1>1, <1>2, <1>4, <1>10 DEF UserSound
    <3>2. \A x : \A p \in Who(x)' \ Who(x) : x = r /\ p = m /\ p[2] # u
      BY <1>6
    <3>3. \A x : Who(x) \ Who(x)' = {}
      BY <1>6
    <3>4. QED
      BY <1>2, <1>4, <1>8, <2>1, <3>1, <3>2, <3>3, BystanderKept DEF StayAbandoned
  <2>3. SessionSound(u)'
    BY <1>2, <1>4, <1>8, <1>10, <2>2, SessionKept DEF UserSound
  <2>4. QED
    BY <2>2, <2>3 DEF UserSound
<1>13. UserSound(w)'
  <2>1. InRoom(w, r)' /\ \A x : x # r /\ InRoom(w, x)' => InRoom(w, x)
    <3>1. m[2] = w /\ \A u : InRoom(u, r)' <=> \E p \in Who(r)' : p[2] = u
      BY WhoIsInNext DEF Rosters
    <3>2. InRoom(w, r)'
      BY <1>6, <3>1
    <3>3. ASSUME NEW x, x # r, InRoom(w, x)' PROVE InRoom(w, x)
      <4>1. PICK p \in Who(x)' : p[2] = w
        BY <3>3, WhoIsInNext DEF Rosters
      <4>2. p \in Who(x)
        BY <1>6, <3>3, <4>1
      <4>3. QED
        BY <1>2, <4>1, <4>2, WhoIsIn DEF Rosters
    <3>4. QED
      BY <3>2, <3>3
  <2>2. SessionSound(w)'
    <3>1. SessionSound(w)
      BY <1>2 DEF UserSound
    <3>2. /\ session'[w].initialized /\ session'[w].registered = session[w].registered
          /\ session'[w].ctxId = session[w].ctxId
      <4>1. session[w] \in Session
        BY <1>2
      <4>2. QED
        BY <1>2, <1>4, <4>1, EnteredSession
    <3>3. Connected(w)' /\ InOrder(todo'[w])
      <4>1. Len(todo'[w]) = 1 /\ todo'[w][1] = k /\ k # UnregisterTask
        BY <1>8, <1>9 DEF UnregisterTask
      <4>2. QED
        BY <1>4, <3>1, <3>2, <4>1 DEF SessionSound, Connected, InOrder
    <3>4. QED
      BY <1>4, <1>10, <3>1, <3>2, <3>3 DEF SessionSound
  <2>3. RoomKnown(w)'
    <3>1. RoomKnown(w)
      BY <1>2 DEF UserSound
    <3>2. \A x \in DOMAIN rooms' : Belongs(w, x)' => x = r \/ <<w, Expulsion(x)>> \in overtaken'
      BY <1>1, <1>2, <1>4, <1>10, <2>1, <3>1, WhoIsIn DEF RoomKnown, InRoom, Belongs, Rosters
    <3>3. QED
      BY <1>10, <2>1, <3>2 DEF RoomKnown
  <2>4. RoomSeen(w)'
    <3>1. Complete(w, r)' /\ Explained(w, r)'
      BY <1>10 DEF Complete, Explained
    <3>2. ASSUME NEW i \in 1..Len(inbox'[w]), NEW p \in MemberRef, inbox'[w][i] = Arrival(r, p),
                 p \notin Who(r)'
          PROVE  <<w, Arrival(r, p)>> \in overtaken'
      <4>1. inbox[w][i] = Arrival(r, p) /\ i \in 1..Len(inbox[w]) /\ EventSound(inbox[w][i])
        BY <1>2, <1>4, <3>2 DEF EventsSound, Items
      <4>2. p \notin Who(r)
        BY <1>6, <3>2
      <4>3. AnnouncesTheGone(inbox[w][i]) /\ inbox[w][i].room = r
        BY <1>2, <4>1, <4>2, EventsDiffer, GoneAnnounced
      <4>4. inbox[w][i] \in OutOfDate(w, r)
        BY <4>1, <4>3 DEF OutOfDate
      <4>5. QED
        BY <1>1, <4>1, <4>4
    <3>3. Ordered(w, r)'
      BY <3>2 DEF Ordered
    <3>4. QED
      BY <1>10, <3>1, <3>3 DEF RoomSeen
  <2>5. QED
    BY <2>2, <2>3, <2>4 DEF UserSound
<1>14. QED
  BY <1>7, <1>11, <1>12, <1>13 DEF ClientInv

\* Short lists, and when they are in order.
LEMMA PairsOfLists ==
    ASSUME NEW a, NEW b
    PROVE  <<a>> \o <<>> = <<a>> /\ <<a>> \o <<b>> = <<a, b>>
<1>1. <<>> \in Seq({a, b}) /\ <<a>> \in Seq({a, b}) /\ <<b>> \in Seq({a, b})
  OBVIOUS
<1>2. <<a>> \o <<>> = <<a>>
  BY <1>1
<1>3. <<a>> \o <<b>> = <<a, b>>
  <2> DEFINE s == <<a>> \o <<b>>
             t == <<a, b>>
  <2>1. s \in Seq({a, b}) /\ Len(s) = 2 /\ s[1] = a /\ s[2] = b
    BY <1>1, ConcatProperties
  <2>2. t \in Seq({a, b}) /\ Len(t) = 2 /\ t[1] = a /\ t[2] = b
    OBVIOUS
  <2> HIDE DEF s, t
  <2>3. s = t
    BY <2>1, <2>2, SeqEqual
  <2>4. QED
    BY <2>3 DEF s, t
<1>4. QED
  BY <1>2, <1>3

LEMMA PairsInOrder ==
    ASSUME NEW a, NEW b
    PROVE  /\ InOrder(<<>>) /\ InOrder(<<a>>)
           /\ a.do \notin {"lookup", "unregister"} => InOrder(<<a, b>>)
<1>1. Len(<<>>) = 0 /\ Len(<<a>>) = 1 /\ Len(<<a, b>>) = 2 /\ <<a, b>>[1] = a
  OBVIOUS
<1>2. QED
  BY <1>1 DEF InOrder

\* A handler that takes one member away: nothing comes, and the departure is
\* brought to those who stay.
LEMMA OneGone ==
    ASSUME IInv, IInv', ClientTypes, EventsSound, NEW w \in Users, todo[w] = <<>>,
           NEW r \in DOMAIN rooms, NEW m \in Who(r), Becomes(r, Who(r) \ {m}), Evolves,
           NEW tasks, Continue(w, tasks), NEW except,
           Items(tasks) \subseteq {NotifyTask(Departure(r, m), except),
                                   DirectTask(Expulsion(r), m[2]), UnregisterTask},
           Who(r) # {m} => NotifyTask(Departure(r, m), except) \in Items(tasks),
           \A v \in Users : Items(inbox'[v]) \subseteq Items(inbox[v])
    PROVE  /\ EventsSound'
           /\ \A x : Who(x)' \subseteq Who(x)
           /\ \A x : \A p \in Who(x) \ Who(x)' : x = r /\ p = m
           /\ \A u \in Users : u # except /\ InRoom(u, r)' => Brought(u, Departure(r, m))'
<1> DEFINE left == NotifyTask(Departure(r, m), except)
           told == DirectTask(Expulsion(r), m[2])
<1>1. Who(r)' = Who(r) \ {m} /\ \A x : x # r => Who(x)' = Who(x)
  BY DEF Becomes
<1>2. /\ \A v \in Users : \A k \in Pending(v)' : k \in Pending(v) \/ k \in Items(tasks)
      /\ \A k \in Items(tasks) : \A u, ev : Brings(w, k, u, ev) => Brought(u, ev)'
  BY NewTasks
<1>3. EventsSound'
  <2>1. r \in Nat /\ r < nextRoomId'
    <3>1. r \in Nat /\ r < nextRoomId /\ nextRoomId \in Nat
      BY WhoIsIn DEF Rosters
    <3>2. nextRoomId' \in Nat
      BY WhoIsInNext DEF Rosters
    <3>3. QED
      BY <3>1, <3>2 DEF Evolves
  <2>2. r \in DOMAIN rooms' => m[1][2] <= Entries(r)' /\ \A n \in Who(r)' : m[1] # n[1]
    <3>1. m[1][2] <= Entries(r) /\ m[1][2] \in Nat /\ Entries(r) \in Nat
      BY WhoIsIn DEF EventsSound, Rosters
    <3>2. Entries(r)' \in Nat
      BY WhoIsInNext DEF Rosters
    <3>3. r \in DOMAIN rooms' => Entries(r) <= Entries(r)'
      BY DEF Evolves
    <3>4. \A n \in Who(r)' : m[1] # n[1]
      BY <1>1, WhoIsIn DEF Rosters
    <3>5. QED
      BY <3>1, <3>2, <3>3, <3>4
  <2>3. EventSound(Departure(r, m))' /\ EventSound(Expulsion(r))'
    BY <2>1, <2>2, NewEventsSoundNext DEF NewEvents
  <2>4. TaskSound(left)'
    BY <2>3, EventsDiffer DEF TaskSound, NotifyTask
  <2>5. TaskSound(told)' /\ TaskSound(UnregisterTask)'
    BY <2>3 DEF TaskSound, DirectTask, UnregisterTask
  <2>6. \A k \in Items(tasks) : TaskSound(k)'
    BY <2>4, <2>5
  <2>7. QED
    BY <1>2, <2>6, EventsStaySound
<1>4. ASSUME NEW u \in Users, u # except, InRoom(u, r)' PROVE Brought(u, Departure(r, m))'
  <2>1. Who(r) # {m}
    BY <1>1, <1>4, WhoIsInNext DEF Rosters
  <2>2. Brings(w, left, u, Departure(r, m))
    BY <1>4 DEF Brings, NotifyTask
  <2>3. QED
    BY <1>2, <2>1, <2>2
<1>5. QED
  BY <1>1, <1>3, <1>4

\* A member that leaves: its departure is announced to the others.
LEMMA LeavingKeeps ==
    ASSUME ClientInv, IInv', NEW w \in Users, todo[w] = <<>>, NEW r \in DOMAIN rooms,
           NEW rest \in {<<>>, <<UnregisterTask>>}, InRoom(w, r), LeaveRoom(w, r, rest),
           \A u \in Users \ {w} : /\ cache'[u] = cache[u] /\ reply'[u] = reply[u]
                                  /\ inbox'[u] = inbox[u],
           Items(inbox'[w]) \subseteq Items(inbox[w]), overtaken' = overtaken
    PROVE  /\ EventsSound' /\ \A u \in Users \ {w} : UserSound(u)'
           /\ InOrder(todo'[w])
           /\ \A x : InRoom(w, x)' => InRoom(w, x) /\ x # r
           /\ StayAbandoned(w)
<1>1. /\ IInv /\ ClientTypes /\ EventsSound /\ \A u \in Users : UserSound(u)
      /\ session \in [Users -> Session]
  BY DEF ClientInv, IInv, TypeOK
<1>2. PICK m \in Who(r) :
        /\ m[2] = w /\ Becomes(r, Who(r) \ {m}) /\ Evolves
        /\ \/ Who(r) = {m} /\ Continue(w, rest)
           \/ Continue(w, <<NotifyTask(Departure(r, m), NoUser)>> \o rest)
  BY <1>1, LeaveWho
<1> DEFINE left == NotifyTask(Departure(r, m), NoUser)
<1>3. PICK tasks : /\ Continue(w, tasks)
                   /\ tasks \in {<<>>, <<UnregisterTask>>, <<left>>, <<left, UnregisterTask>>}
                   /\ Who(r) = {m} \/ tasks \in {<<left>>, <<left, UnregisterTask>>}
  <2> HIDE DEF left
  <2>1. /\ <<left>> \o <<>> = <<left>>
        /\ <<left>> \o <<UnregisterTask>> = <<left, UnregisterTask>>
    BY PairsOfLists
  <2>2. CASE Who(r) = {m} /\ Continue(w, rest)
    <3>1. WITNESS rest
    <3>2. QED
      BY <2>2
  <2>3. CASE Continue(w, <<left>> \o rest)
    <3>1. CASE rest = <<>>
      <4>1. WITNESS <<left>>
      <4>2. QED
        BY <2>1, <2>3, <3>1
    <3>2. CASE rest = <<UnregisterTask>>
      <4>1. WITNESS <<left, UnregisterTask>>
      <4>2. QED
        BY <2>1, <2>3, <3>2
    <3>3. QED
      BY <3>1, <3>2
  <2>4. \/ Who(r) = {m} /\ Continue(w, rest)
        \/ Continue(w, <<left>> \o rest)
    BY <1>2 DEF left
  <2>5. QED
    BY <2>2, <2>3, <2>4
<1>4. /\ left.do = "notify" /\ UnregisterTask.do = "unregister"
      /\ Items(tasks) \subseteq {left, UnregisterTask}
      /\ Who(r) # {m} => left \in Items(tasks)
      /\ InOrder(tasks)
  <2>1. left.do = "notify" /\ UnregisterTask.do = "unregister"
    BY DEF NotifyTask, UnregisterTask
  <2> HIDE DEF left
  <2>2. /\ Items(<<>>) = {} /\ Items(<<UnregisterTask>>) = {UnregisterTask}
        /\ Items(<<left>>) = {left} /\ Items(<<left, UnregisterTask>>) = {left, UnregisterTask}
    BY DEF Items
  <2>3. InOrder(tasks)
    BY <1>3, <2>1, PairsInOrder
  <2>4. QED
    BY <1>3, <2>1, <2>2, <2>3
<1>5. \A v \in Users : Items(inbox'[v]) \subseteq Items(inbox[v])
  OBVIOUS
<1>6. /\ EventsSound'
      /\ \A x : Who(x)' \subseteq Who(x)
      /\ \A x : \A p \in Who(x) \ Who(x)' : x = r /\ p = m
      /\ \A u \in Users : u # NoUser /\ InRoom(u, r)' => Brought(u, Departure(r, m))'
  <2>1. Items(tasks) \subseteq {left, DirectTask(Expulsion(r), m[2]), UnregisterTask}
    BY <1>4
  <2>2. QED
    BY <1>1, <1>2, <1>3, <1>4, <1>5, <2>1, OneGone
<1>7. /\ todo'[w] = tasks /\ \A v \in Users \ {w} : todo'[v] = todo[v]
      /\ \A u, ev : Brought(u, ev) => Brought(u, ev)'
  BY <1>1, <1>3, NewTasks
<1>8. ASSUME NEW u \in Users \ {w} PROVE UserSound(u)'
  <2>1. session'[u] = session[u] /\ Will(u)' = Will(u)
    BY <1>1, <1>7 DEF LeaveRoom, ResetRoomState, Will
  <2>2. RoomKnown(u)' /\ RoomSeen(u)' /\ \A x : InRoom(u, x)' => InRoom(u, x)
    <3>1. RoomKnown(u) /\ RoomSeen(u) /\ inbox'[u] = inbox[u] /\ u # NoUser
      BY <1>1, NoUserAssumption DEF UserSound
    <3>2. \A x : Who(x)' \ Who(x) = {}
      BY <1>6
    <3>3. \A x : \A p \in Who(x) \ Who(x)' :
            x = r /\ p = m /\ p[2] # u /\ (InRoom(u, x)' => Brought(u, Departure(x, p))')
      BY <1>2, <1>6, <3>1
    <3>4. StayAbandoned(u)
      BY DEF LeaveRoom, StayAbandoned
    <3>5. QED
      BY <1>1, <1>7, <2>1, <3>1, <3>2, <3>3, <3>4, BystanderKept
  <2>3. SessionSound(u)'
    BY <1>1, <1>7, <2>1, <2>2, SessionKept DEF UserSound
  <2>4. QED
    BY <2>2, <2>3 DEF UserSound
<1>9. ASSUME NEW x, InRoom(w, x)' PROVE InRoom(w, x) /\ x # r
  <2>1. PICK p \in Who(x)' : p[2] = w
    BY <1>9, WhoIsInNext DEF Rosters
  <2>2. p \in Who(x) /\ InRoom(w, x)
    BY <1>1, <1>6, <2>1, WhoIsIn DEF Rosters
  <2>3. x # r
    <3>1. SUFFICES ASSUME x = r PROVE FALSE
      OBVIOUS
    <3>2. p = m
      BY <1>1, <1>2, <2>1, <2>2, <3>1, WhoIsIn DEF Rosters
    <3>3. QED
      BY <1>2, <2>1, <3>1, <3>2 DEF Becomes
  <2>4. QED
    BY <2>2, <2>3
<1>10. StayAbandoned(w)
  BY <1>9 DEF LeaveRoom, StayAbandoned
<1>11. QED
  BY <1>3, <1>4, <1>6, <1>7, <1>8, <1>9, <1>10

\* A client that is in no room as far as it can tell.
LEMMA NowRoomless ==
    ASSUME IInv, IInv', NEW u \in Users, UserSound(u), Will(u)'.room = 0, InOrder(todo'[u]),
           session'[u].initialized = session[u].initialized,
           session'[u].registered = session[u].registered, session'[u].ctxId = session[u].ctxId,
           \A x : InRoom(u, x)' => InRoom(u, x) /\ x # Will(u).room,
           overtaken' = overtaken, StayAbandoned(u)
    PROVE  UserSound(u)'
<1>1. SessionSound(u)'
  BY DEF SessionSound, UserSound
<1>2. RoomKnown(u)'
  BY DEF RoomKnown, UserSound, InRoom, Belongs, StayAbandoned
<1>3. \A r \in DOMAIN rooms' : r # 0
  BY WhoIsInNext DEF Rosters
<1>4. RoomSeen(u)'
  BY <1>3 DEF RoomSeen
<1>5. QED
  BY <1>1, <1>2, <1>4 DEF UserSound

\* Leaving keeps the invariant.
LEMMA LeavesKeep ==
    ASSUME ClientInv, IInv', NEW w \in Users, Leaves(w)
    PROVE  ClientInv'
<1>1. PICK r \in DOMAIN rooms : r = cache[w].room /\ CmdLeaveRoom(w, r)
  BY DEF Leaves
<1>2. /\ IInv /\ ClientTypes /\ session \in [Users -> Session] /\ UserSound(w)
  BY DEF ClientInv, IInv, TypeOK
<1>3. /\ todo[w] = <<>> /\ InRoom(w, r) /\ LeaveRoom(w, r, <<>>)
      /\ UNCHANGED <<inbox, overtaken>>
      /\ reply' = [reply EXCEPT ![w] = NoRoom]
      /\ cache' = IF todo'[w] = <<>> THEN [cache EXCEPT ![w] = NoRoom] ELSE cache
  BY <1>1 DEF Leaves, CmdLeaveRoom, Idle
<1>4. NoRoom \in Caches /\ NoRoom.room = 0
  BY DEF Caches, NoRoom
<1>5. ClientTypes'
  BY <1>2, <1>3, <1>4 DEF ClientTypes
<1>6. \A u \in Users \ {w} : cache'[u] = cache[u] /\ reply'[u] = reply[u] /\ inbox'[u] = inbox[u]
  BY <1>2, <1>3 DEF ClientTypes
<1>7. /\ EventsSound' /\ \A u \in Users \ {w} : UserSound(u)'
      /\ InOrder(todo'[w])
      /\ \A x : InRoom(w, x)' => InRoom(w, x) /\ x # r
      /\ StayAbandoned(w)
  <2>1. Items(inbox'[w]) \subseteq Items(inbox[w]) /\ overtaken' = overtaken
    BY <1>3
  <2>2. QED
    BY <1>3, <1>6, <2>1, LeavingKeeps
<1>8. Will(w).room = r /\ Will(w)'.room = 0
  BY <1>1, <1>2, <1>3, <1>4 DEF Will, ClientTypes
<1>9. /\ session'[w].initialized = session[w].initialized
      /\ session'[w].registered = session[w].registered /\ session'[w].ctxId = session[w].ctxId
  BY <1>2, <1>3 DEF LeaveRoom, ResetRoomState, Session
<1>10. UserSound(w)'
  BY <1>2, <1>3, <1>7, <1>8, <1>9, NowRoomless
<1>11. QED
  BY <1>5, <1>7, <1>10 DEF ClientInv

\* A lost connection keeps the invariant: nothing has to reach it any more.
LEMMA DropsKeep ==
    ASSUME ClientInv, IInv', NEW w \in Users, Drops(w)
    PROVE  ClientInv'
<1>1. PICK r : r = session[w].roomId
  OBVIOUS
<1>2. /\ IInv /\ ClientTypes /\ session \in [Users -> Session] /\ EventsSound
      /\ \A u \in Users : UserSound(u)
  BY DEF ClientInv, IInv, TypeOK
<1>3. /\ todo[w] = <<>> /\ UNCHANGED overtaken
      /\ inbox' = [inbox EXCEPT ![w] = <<>>]
      /\ reply' = [reply EXCEPT ![w] = NoRoom] /\ cache' = [cache EXCEPT ![w] = NoRoom]
  BY DEF Drops, Disconnect, Idle
<1>4. NoRoom \in Caches /\ NoRoom.room = 0
  BY DEF Caches, NoRoom
<1>5. ClientTypes'
  BY <1>2, <1>3, <1>4 DEF ClientTypes
<1>6. /\ \A u \in Users \ {w} :
            cache'[u] = cache[u] /\ reply'[u] = reply[u] /\ inbox'[u] = inbox[u]
      /\ Items(inbox'[w]) \subseteq Items(inbox[w])
  <2>1. inbox'[w] = <<>>
    BY <1>2, <1>3 DEF ClientTypes
  <2>2. QED
    BY <1>2, <1>3, <2>1 DEF ClientTypes, Items
<1>7. Will(w).room = cache[w].room /\ Will(w)'.room = 0
  BY <1>2, <1>3, <1>4 DEF Will, ClientTypes
<1>8. CASE session[w].initialized /\ r # 0 /\ InRoom(w, r)
  <2>1. LeaveRoom(w, r, <<UnregisterTask>>) /\ r \in DOMAIN rooms
    BY <1>1, <1>8 DEF Drops, Disconnect, InRoom
  <2>2. /\ EventsSound' /\ \A u \in Users \ {w} : UserSound(u)'
        /\ InOrder(todo'[w])
        /\ \A x : InRoom(w, x)' => InRoom(w, x) /\ x # r
        /\ StayAbandoned(w)
    BY <1>3, <1>6, <1>8, <2>1, LeavingKeeps
  <2>3. \A x : InRoom(w, x)' => InRoom(w, x) /\ x # Will(w).room
    BY <1>1, <1>2, <2>2, WhoIsIn DEF UserSound, SessionSound, InRoom, Rosters
  <2>4. /\ session'[w].initialized = session[w].initialized
        /\ session'[w].registered = session[w].registered /\ session'[w].ctxId = session[w].ctxId
    BY <1>2, <2>1 DEF LeaveRoom, ResetRoomState, Session
  <2>5. UserSound(w)'
    BY <1>2, <1>3, <1>7, <2>2, <2>3, <2>4, NowRoomless
  <2>6. QED
    BY <1>5, <2>2, <2>5 DEF ClientInv
<1>9. CASE ~(session[w].initialized /\ r # 0 /\ InRoom(w, r))
  <2>1. Continue(w, <<UnregisterTask>>) /\ UNCHANGED <<session, rooms, nextRoomId, abandoned>>
    BY <1>1, <1>9 DEF Drops, Disconnect
  <2>2. /\ todo'[w] = <<UnregisterTask>> /\ \A v \in Users \ {w} : todo'[v] = todo[v]
        /\ \A v \in Users : \A k \in Pending(v)' :
                k \in Pending(v) \/ k \in Items(<<UnregisterTask>>)
        /\ \A u, ev : Brought(u, ev) => Brought(u, ev)'
    BY <1>2, <1>3, <2>1, NewTasks
  <2>3. Evolves /\ \A x : Who(x)' = Who(x)
    <3>1. Evolves /\ Becomes(0, Who(0))
      BY <1>2, <2>1, SameRooms
    <3>2. QED
      BY <3>1 DEF Becomes
  <2>4. EventsSound'
    <3>1. Items(<<UnregisterTask>>) = {UnregisterTask} /\ TaskSound(UnregisterTask)'
      BY DEF UnregisterTask, TaskSound, Items
    <3>2. \A v \in Users : Items(inbox'[v]) \subseteq Items(inbox[v])
      BY <1>6
    <3>3. QED
      BY <1>2, <2>2, <2>3, <3>1, <3>2, EventsStaySound
  <2>5. \A u, x : InRoom(u, x)' <=> InRoom(u, x)
    BY <2>1 DEF InRoom
  <2>6. ASSUME NEW u \in Users \ {w} PROVE UserSound(u)'
    <3>1. RoomKnown(u) /\ RoomSeen(u) /\ Will(u)' = Will(u) /\ SessionSound(u)
      BY <1>2, <1>6, <2>2 DEF UserSound, Will
    <3>2. RoomKnown(u)' /\ RoomSeen(u)'
      BY <1>2, <1>3, <1>6, <2>1, <2>2, <2>3, <3>1, BystanderKept DEF StayAbandoned
    <3>3. SessionSound(u)'
      BY <1>2, <2>1, <2>2, <2>5, <3>1, SessionKept
    <3>4. QED
      BY <3>2, <3>3 DEF UserSound
  <2>7. UserSound(w)'
    <3>1. \A x : InRoom(w, x) => x # Will(w).room
      <4>1. SUFFICES ASSUME NEW x, InRoom(w, x), x = Will(w).room PROVE FALSE
        OBVIOUS
      <4>2. x # 0
        BY <1>2, <4>1, WhoIsIn DEF Rosters, InRoom
      <4>3. session[w].initialized /\ r = x
        BY <1>1, <1>2, <4>1, <4>2 DEF UserSound, SessionSound
      <4>4. QED
        BY <1>9, <4>1, <4>2, <4>3
    <3>2. InOrder(todo'[w])
      BY <2>2, PairsInOrder
    <3>3. QED
      BY <1>2, <1>3, <1>7, <2>1, <2>5, <3>1, <3>2, NowRoomless DEF StayAbandoned
  <2>8. QED
    BY <1>5, <2>4, <2>6, <2>7 DEF ClientInv
<1>10. QED
  BY <1>8, <1>9

\* A kick keeps the invariant: the member that goes is told, and so are the
\* others, the owner included.
LEMMA KicksKeep ==
    ASSUME ClientInv, IInv', NEW w \in Users, Kicks(w)
    PROVE  ClientInv'
<1>1. PICK r \in DOMAIN rooms : r = cache[w].room /\
        \E target \in DOMAIN rooms[r].members, block \in BOOLEAN :
            CmdKickoutRoomMember(w, r, target, block)
  BY DEF Kicks
<1>2. /\ IInv /\ ClientTypes /\ EventsSound /\ \A u \in Users : UserSound(u)
  BY DEF ClientInv
<1>3. PICK m \in Who(r) :
        /\ m[2] \in Users \ {w} /\ Becomes(r, Who(r) \ {m}) /\ Evolves
        /\ Continue(w, <<DirectTask(Expulsion(r), m[2]), NotifyTask(Departure(r, m), m[2])>>)
        /\ NoLongerLeft(r, m[2])
  <2>1. PICK target \in DOMAIN rooms[r].members, block \in BOOLEAN :
            CmdKickoutRoomMember(w, r, target, block)
    BY <1>1
  <2>2. IInv
    BY <1>2
  <2>3. QED
    BY <2>1, <2>2, KickWho, ZenonT(90)
<1> DEFINE told  == DirectTask(Expulsion(r), m[2])
           left  == NotifyTask(Departure(r, m), m[2])
           tasks == <<told, left>>
<1>4. /\ UNCHANGED <<session, inbox, cache, overtaken>> /\ todo[w] = <<>>
      /\ reply' = [reply EXCEPT ![w] = cache[w]]
  BY <1>1 DEF Kicks, CmdKickoutRoomMember, Idle
<1>5. ClientTypes'
  BY <1>2, <1>4 DEF ClientTypes
<1>6. Items(tasks) = {told, left} /\ told.do = "direct" /\ left.do = "notify"
  <2>1. told.do = "direct" /\ left.do = "notify"
    BY DEF DirectTask, NotifyTask
  <2> HIDE DEF told, left
  <2>2. QED
    BY <2>1 DEF Items
<1>7. /\ EventsSound'
      /\ \A x : Who(x)' \subseteq Who(x)
      /\ \A x : \A p \in Who(x) \ Who(x)' : x = r /\ p = m
      /\ \A u \in Users : u # m[2] /\ InRoom(u, r)' => Brought(u, Departure(r, m))'
  <2>1. /\ Items(tasks) \subseteq {left, told, UnregisterTask} /\ left \in Items(tasks)
        /\ \A v \in Users : Items(inbox'[v]) \subseteq Items(inbox[v])
    BY <1>4, <1>6
  <2>2. QED
    BY <1>2, <1>3, <1>4, <2>1, OneGone
<1>8. /\ todo'[w] = tasks /\ \A v \in Users \ {w} : todo'[v] = todo[v]
      /\ \A u, ev : Brought(u, ev) => Brought(u, ev)'
      /\ \A k \in Items(tasks) : \A u, ev : Brings(w, k, u, ev) => Brought(u, ev)'
  BY <1>2, <1>3, <1>4, NewTasks
<1>9. Brought(m[2], Expulsion(r))'
  <2>1. Brings(w, told, m[2], Expulsion(r))
    BY DEF Brings, DirectTask
  <2>2. QED
    BY <1>6, <1>8, <2>1
<1>10. \A u \in Users : Will(u)' = Will(u)
  <2>1. todo'[w] # <<>>
    BY <1>8
  <2>2. QED
    BY <1>2, <1>4, <1>8, <2>1 DEF Will, ClientTypes
<1>11. ASSUME NEW u \in Users
       PROVE  RoomKnown(u)' /\ RoomSeen(u)' /\ \A x : InRoom(u, x)' => InRoom(u, x)
  <2>1. RoomKnown(u) /\ RoomSeen(u) /\ inbox'[u] = inbox[u] /\ Will(u)' = Will(u)
    BY <1>2, <1>4, <1>10 DEF UserSound
  <2>2. \A x : Who(x)' \ Who(x) = {}
    BY <1>7
  <2>3. \A x : \A p \in Who(x) \ Who(x)' :
            IF p[2] = u THEN Brought(u, Expulsion(x))'
            ELSE InRoom(u, x)' => Brought(u, Departure(x, p))'
    BY <1>7, <1>9
  <2>4. StayAbandoned(u)
    <3>1. SUFFICES ASSUME u = m[2], InRoom(u, r)' PROVE FALSE
      BY <1>3 DEF StayAbandoned, NoLongerLeft
    <3>2. PICK p \in Who(r)' : p[2] = u
      BY <3>1, WhoIsInNext DEF Rosters
    <3>3. p \in Who(r) /\ p # m
      BY <1>3, <3>2 DEF Becomes
    <3>4. QED
      BY <1>2, <3>1, <3>2, <3>3, WhoIsIn DEF Rosters
  <2>5. QED
    BY <1>2, <1>4, <1>8, <2>1, <2>2, <2>3, <2>4, BystanderKept
<1>12. ASSUME NEW u \in Users \ {w} PROVE SessionSound(u)'
  BY <1>2, <1>4, <1>8, <1>10, <1>11, SessionKept DEF UserSound
<1>13. SessionSound(w)'
  <2>1. InOrder(todo'[w])
    BY <1>6, <1>8, PairsInOrder
  <2>2. Connected(w) => Connected(w)'
    <3>1. Len(tasks) = 2 /\ tasks[1] = told /\ tasks[2] = left
      OBVIOUS
    <3>2. told # UnregisterTask /\ left # UnregisterTask
      BY <1>6 DEF UnregisterTask
    <3> HIDE DEF tasks, told, left
    <3>3. QED
      BY <1>4, <1>8, <3>1, <3>2 DEF Connected
  <2>3. SessionSound(w)
    BY <1>2 DEF UserSound
  <2>4. QED
    BY <1>4, <1>10, <1>11, <2>1, <2>2, <2>3 DEF SessionSound
<1>14. QED
  BY <1>5, <1>7, <1>11, <1>12, <1>13 DEF ClientInv, UserSound

\* An update of the room data keeps the invariant.
LEMMA SetsDataKeep ==
    ASSUME ClientInv, IInv', NEW w \in Users, SetsData(w)
    PROVE  ClientInv'
<1>1. PICK r \in DOMAIN rooms, q \in DataRequests :
        /\ r = cache[w].room /\ CmdSetRoomDataInternal(w, r, q)
        /\ reply' = [reply EXCEPT ![w] = Cached(cache[w], DataEvent(r, q.attr))]
  BY DEF SetsData
<1>2. /\ IInv /\ ClientTypes /\ EventsSound /\ \A u \in Users : UserSound(u)
  BY DEF ClientInv
<1> DEFINE ev    == DataEvent(r, q.attr)
           k     == NotifyTask(ev, w)
           tasks == <<k>>
<1>3. /\ UNCHANGED <<session, inbox, cache, overtaken, nextRoomId, abandoned>> /\ todo[w] = <<>>
      /\ Continue(w, tasks)
  BY <1>1 DEF SetsData, CmdSetRoomDataInternal, Idle
<1>4. Evolves /\ \A x : Who(x)' = Who(x)
  <2>1. Evolves /\ Becomes(r, Who(r))
    BY <1>1, <1>2, SetDataWho
  <2>2. QED
    BY <2>1 DEF Becomes
<1>5. /\ Cached(cache[w], ev) \in Caches
      /\ Cached(cache[w], ev).room = cache[w].room
      /\ Cached(cache[w], ev).members = cache[w].members
  <2>1. cache[w] \in Caches /\ q.attr \in AttrValues \cup {NoAttr}
    BY <1>2, RequestsAssumption DEF ClientTypes, DataRequest
  <2>2. ev.event = "DATA" /\ ev.attr = q.attr /\ ev.room = r
    BY DEF DataEvent
  <2>3. Cached(cache[w], ev) =
            [cache[w] EXCEPT !.attr = IF ev.attr = NoAttr THEN @ ELSE ev.attr]
    BY <1>1, <2>2 DEF Cached
  <2>4. QED
    BY <2>1, <2>2, <2>3 DEF Caches
<1>6. ClientTypes'
  BY <1>1, <1>2, <1>3, <1>5 DEF ClientTypes
<1>7. Items(tasks) = {k} /\ k.do = "notify" /\ k.ev = ev /\ ev.event = "DATA"
  <2>1. k.do = "notify" /\ k.ev = ev /\ ev.event = "DATA"
    BY DEF NotifyTask, DataEvent
  <2> HIDE DEF k
  <2>2. QED
    BY <2>1 DEF Items
<1>8. /\ todo'[w] = tasks /\ \A v \in Users \ {w} : todo'[v] = todo[v]
      /\ \A v \in Users : \A t \in Pending(v)' : t \in Pending(v) \/ t \in Items(tasks)
      /\ \A u, e : Brought(u, e) => Brought(u, e)'
  BY <1>2, <1>3, NewTasks
<1> HIDE DEF k
<1>9. EventsSound'
  <2>1. EventSound(ev)'
    BY <1>2, <1>3, WhoIsIn, NewEventsSoundNext DEF NewEvents, Rosters
  <2>2. TaskSound(k)'
    BY <1>7, <2>1 DEF TaskSound
  <2>3. QED
    BY <1>2, <1>3, <1>4, <1>7, <1>8, <2>2, EventsStaySound
<1>10. \A u \in Users : Will(u)'.room = Will(u).room /\ Will(u)'.members = Will(u).members
  <2>1. todo'[w] # <<>>
    BY <1>8
  <2>2. QED
    BY <1>1, <1>2, <1>3, <1>5, <1>8, <2>1 DEF Will, ClientTypes
<1>11. ASSUME NEW u \in Users
       PROVE  RoomKnown(u)' /\ RoomSeen(u)' /\ \A x : InRoom(u, x)' => InRoom(u, x)
  <2>1. RoomKnown(u) /\ RoomSeen(u) /\ inbox'[u] = inbox[u]
    BY <1>2, <1>3 DEF UserSound
  <2>2. QED
    BY <1>2, <1>3, <1>4, <1>8, <1>10, <2>1, BystanderKept DEF StayAbandoned
<1>12. ASSUME NEW u \in Users \ {w} PROVE SessionSound(u)'
  BY <1>2, <1>3, <1>8, <1>10, <1>11, SessionKept DEF UserSound
<1>13. SessionSound(w)'
  <2>1. InOrder(todo'[w])
    BY <1>8, PairsInOrder
  <2>2. Connected(w) => Connected(w)'
    <3>1. Len(tasks) = 1 /\ tasks[1] = k /\ k # UnregisterTask
      BY <1>7 DEF UnregisterTask
    <3>2. QED
      BY <1>3, <1>8, <3>1 DEF Connected
  <2>3. SessionSound(w)
    BY <1>2 DEF UserSound
  <2>4. QED
    BY <1>3, <1>10, <1>11, <2>1, <2>2, <2>3 DEF SessionSound
<1>14. QED
  BY <1>6, <1>9, <1>11, <1>12, <1>13 DEF ClientInv, UserSound

---------------------------------------------------------------------------
(* The rest of the handlers                                                *)

\* Who can be reached by an event, and which events it must not miss: those
\* about its room, and that it was kicked out.
Reachable(u) == session[u].registered /\ session[u].ctxId # 0 /\ Connected(u)
Due(u, ev) ==
    /\ ev.event = "KICKEDOUT" \/ InRoom(u, ev.room)
    /\ ev.event = "JOINED" =>
        ev = Arrival(ev.room, <<ev.id, ev.user>>) /\ <<ev.id, ev.user>> \in Who(ev.room)

\* What a step of w's handler, whose next task was `task', hands on.
Handed(w, task) ==
    /\ \A v \in Users : \A k \in Pending(v)' : k \in Pending(v) \/ TaskSound(k)'
    /\ \A u \in Users : \A ev :
        Reachable(u) /\ Due(u, ev) /\ Brought(u, ev) =>
            Brought(u, ev)' \/ (task.do = "send" /\ task.ev = ev /\ u \in task.to)
    /\ \A u \in Users :
        /\ InOrder(todo'[u])
        /\ u # w => (todo'[u] = <<>> <=> todo[u] = <<>>)
        /\ (u # w \/ task.do # "unregister") =>
            session'[u] = session[u] /\ (Connected(u) => Connected(u)')

\* Where the members stay, what is true of events and tasks does.
LEMMA SoundUnchanged ==
    ASSUME UNCHANGED <<rooms, nextRoomId>>
    PROVE  /\ \A ev : EventSound(ev)' = EventSound(ev)
           /\ \A k : TaskSound(k)' = TaskSound(k)
           /\ \A r : Who(r)' = Who(r) /\ \A u : InRoom(u, r)' = InRoom(u, r)
<1>1. \A r : Who(r)' = Who(r) /\ Entries(r)' = Entries(r)
  BY DEF Who, WhoOf, Entries
<1>2. \A ev : EventSound(ev)' = EventSound(ev)
  BY <1>1 DEF EventSound
<1>3. \A k : TaskSound(k)' = TaskSound(k)
  BY <1>1, <1>2 DEF TaskSound
<1>4. \A r, u : InRoom(u, r)' = InRoom(u, r)
  BY DEF InRoom
<1>5. QED
  BY <1>1, <1>2, <1>3, <1>4

\* The first task of a list of tasks and the others.
LEMMA FirstTask ==
    ASSUME IInv, ClientTypes, NEW w \in Users, todo[w] # <<>>, InOrder(todo[w])
    PROVE  /\ Head(todo[w]) \in Task /\ Head(todo[w]) \in Pending(w)
           /\ Pending(w) = {Head(todo[w])} \cup Items(Tail(todo[w]))
           /\ Tail(todo[w]) \in Seq(Task) /\ Len(todo[w]) \in Nat
           /\ Len(Tail(todo[w])) = Len(todo[w]) - 1
           /\ \A i \in 1..(Len(todo[w]) - 1) : Tail(todo[w])[i] = todo[w][i + 1]
           /\ Head(todo[w]).do \in {"lookup", "unregister"} => Tail(todo[w]) = <<>>
           /\ InOrder(Tail(todo[w]))
<1> DEFINE s == todo[w]
<1>1. s \in Seq(Task) /\ Pending(w) = Items(s)
  BY QueuedTypes DEF Pending
<1>2. /\ Len(s) \in Nat /\ Len(s) > 0 /\ Head(s) = s[1]
      /\ Tail(s) \in Seq(Task) /\ Len(Tail(s)) = Len(s) - 1
      /\ \A i \in 1..(Len(s) - 1) : Tail(s)[i] = s[i + 1]
  BY <1>1, LenProperties, EmptySeq, HeadTailProperties
<1>3. Head(s) \in Items(s) /\ Items(s) = {Head(s)} \cup Items(Tail(s)) /\ Items(s) \subseteq Task
  BY <1>1, ItemsOfLists
<1>4. ASSUME Head(s).do \in {"lookup", "unregister"} PROVE Tail(s) = <<>>
  <2>1. Len(s) = 1
    <3>1. 1 \in 1..Len(s) /\ s[1].do \in {"lookup", "unregister"} /\ InOrder(s)
      BY <1>2, <1>4
    <3> HIDE DEF s
    <3>2. QED
      BY <3>1 DEF InOrder
  <2>2. Len(Tail(s)) = 0
    BY <1>2, <2>1
  <2>3. QED
    BY <1>2, <2>2, EmptySeq
<1>5. InOrder(Tail(s))
  <2>1. SUFFICES ASSUME NEW i \in 1..Len(Tail(s)), Tail(s)[i].do \in {"lookup", "unregister"}
                 PROVE  i = Len(Tail(s))
    BY DEF InOrder
  <2>2. i + 1 \in 1..Len(s) /\ s[i + 1].do \in {"lookup", "unregister"}
    BY <1>2, <2>1
  <2>3. i + 1 = Len(s)
    BY <2>2 DEF InOrder
  <2>4. QED
    BY <1>2, <2>3
<1>6. QED
  BY <1>1, <1>2, <1>3, <1>4, <1>5

\* The other handlers are where they were.
LEMMA Continued ==
    ASSUME IInv, NEW w \in Users, NEW tasks, Continue(w, tasks)
    PROVE  /\ todo'[w] = tasks /\ Pending(w)' = Items(tasks)
           /\ \A v \in Users \ {w} : todo'[v] = todo[v] /\ Pending(v)' = Pending(v)
<1>1. /\ todo'[w] = tasks /\ \A v \in Users \ {w} : todo'[v] = todo[v]
  BY DEF Continue, IInv, TypeOK
<1>2. QED
  BY <1>1 DEF Pending, Items

\* A step that replaces the first task of w by another, or takes it away.
LEMMA StepHands ==
    ASSUME IInv, ClientTypes, EventsSound, \A u \in Users : InOrder(todo[u]),
           UNCHANGED <<session, rooms, nextRoomId>>,
           NEW w \in Users, NEW task \in Pending(w), NEW tasks, Continue(w, tasks),
           InOrder(tasks), \A k \in Items(tasks) : k \in Pending(w) \/ TaskSound(k),
           UnregisterTask \in Items(tasks) => UnregisterTask \in Pending(w),
           \A k \in Pending(w) : k = task \/ k \in Items(tasks),
           \A u \in Users : \A ev :
                Reachable(u) /\ Due(u, ev) /\ Brings(w, task, u, ev) =>
                    \/ \E k \in Items(tasks) : Brings(w, k, u, ev)
                    \/ task.do = "send" /\ task.ev = ev /\ u \in task.to
    PROVE  Handed(w, task)
<1>1. /\ todo'[w] = tasks /\ Pending(w)' = Items(tasks)
      /\ \A v \in Users \ {w} : todo'[v] = todo[v] /\ Pending(v)' = Pending(v)
  BY Continued
<1>2. \A k : TaskSound(k)' = TaskSound(k)
  BY SoundUnchanged
<1>3. \A v \in Users : \A k \in Pending(v)' : k \in Pending(v) \/ TaskSound(k)'
  BY <1>1, <1>2
<1>4. ASSUME NEW u \in Users, NEW ev, Reachable(u), Due(u, ev), Brought(u, ev)
      PROVE  Brought(u, ev)' \/ (task.do = "send" /\ task.ev = ev /\ u \in task.to)
  <2>1. PICK v \in Users : \E k \in Pending(v) : Brings(v, k, u, ev)
    BY <1>4 DEF Brought
  <2>2. PICK k \in Pending(v) : Brings(v, k, u, ev)
    BY <2>1
  <2>3. CASE v # w
    BY <1>1, <2>2, <2>3 DEF Brought, Brings
  <2>4. CASE v = w /\ k # task
    BY <1>1, <2>2, <2>4 DEF Brought, Brings
  <2>5. CASE v = w /\ k = task
    <3>1. CASE \E t \in Items(tasks) : Brings(w, t, u, ev)
      BY <1>1, <3>1 DEF Brought, Brings
    <3>2. QED
      BY <1>4, <2>2, <2>5, <3>1
  <2>6. QED
    BY <2>3, <2>4, <2>5
<1>5. ASSUME NEW u \in Users
      PROVE  /\ InOrder(todo'[u])
             /\ u # w => (todo'[u] = <<>> <=> todo[u] = <<>>)
             /\ session'[u] = session[u] /\ (Connected(u) => Connected(u)')
  <2>1. UnregisterTask \in Pending(u)' => UnregisterTask \in Pending(u)
    BY <1>1
  <2>2. Connected(u) => Connected(u)'
    BY <2>1 DEF Connected, Pending, Items
  <2>3. QED
    BY <1>1, <2>2
<1>6. QED
  BY <1>3, <1>4, <1>5 DEF Handed

\* The member that joined is looked up: who is still there is announced.
LEMMA LookupHands ==
    ASSUME ClientInv, NEW w \in Users, todo[w] # <<>>, NEW task, task = Head(todo[w]),
           task.do = "lookup", Lookup(w, task), UNCHANGED <<rooms, nextRoomId>>
    PROVE  Handed(w, task)
<1>1. /\ IInv /\ ClientTypes /\ EventsSound
      /\ \A u \in Users : InOrder(todo[u])
  BY DEF ClientInv, UserSound, SessionSound
<1>2. /\ task \in Task /\ task \in Pending(w) /\ TaskSound(task)
      /\ \A k \in Pending(w) : k = task
  <2>1. Items(Tail(todo[w])) = {}
    <3>1. Tail(todo[w]) = <<>>
      BY <1>1, FirstTask
    <3>2. Items(<<>>) = {}
      BY DEF Items
    <3>3. QED
      BY <3>1, <3>2
  <2>2. QED
    BY <1>1, <2>1, FirstTask DEF EventsSound
<1>3. task.room \in Nat /\ task.id \in MemberIds
  BY <1>2, TaskFields
<1> DEFINE r     == task.room
           there == r \in DOMAIN rooms /\ task.id \in DOMAIN rooms[r].members
           m     == IF there THEN <<task.id, rooms[r].members[task.id].user>> ELSE <<NoId, NoUser>>
           ev    == Arrival(r, m)
           n     == NotifyTask(ev, w)
<1>4. Continue(w, <<n>>) /\ UNCHANGED session
  <2>1. CASE there
    BY <2>1 DEF Lookup, Arrival
  <2>2. CASE ~there
    BY <2>2 DEF Lookup, Arrival
  <2>3. QED
    BY <2>1, <2>2
<1>5. there => m \in Who(r) /\ m[1] = task.id
  BY DEF Who, WhoOf
<1>6. ~there => m = <<NoId, NoUser>> /\ \A p \in Who(r) : p[1] # task.id
  BY DEF Who, WhoOf
<1>7. m = <<m[1], m[2]>>
  <2>1. CASE there
    BY <2>1
  <2>2. CASE ~there
    BY <2>2
  <2>3. QED
    BY <2>1, <2>2
<1> HIDE DEF there, m
<1>8. TaskSound(n)
  <2>1. r < nextRoomId /\ (r \in DOMAIN rooms => task.id[2] <= Entries(r))
    BY <1>2 DEF TaskSound
  <2>2. r \in DOMAIN rooms =>
            m[1][2] <= Entries(r) /\ \A p \in Who(r) : p[1] = m[1] => p[2] = m[2]
    <3>1. CASE there
      BY <1>1, <1>5, <2>1, <3>1, WhoIsIn DEF Rosters
    <3>2. CASE ~there
      <4>1. m[1] = NoId /\ Entries(r) \in Nat /\ \A p \in Who(r) : p[1] \in MemberIds
        BY <1>1, <1>6, <3>2, WhoIsIn DEF Rosters
      <4>2. QED
        BY <4>1, IdCounters
    <3>3. QED
      BY <3>1, <3>2
  <2>3. EventSound(ev)
    <3>1. /\ ev.event = "JOINED" /\ ev.room = r /\ ev.id = m[1] /\ ev.user = m[2]
          /\ ev = Arrival(r, <<m[1], m[2]>>)
      BY <1>7, EventsDiffer
    <3> HIDE DEF ev
    <3>2. QED
      BY <2>1, <2>2, <3>1 DEF EventSound
  <2>4. ev.event = "JOINED"
    BY EventsDiffer
  <2> HIDE DEF ev
  <2>5. QED
    BY <2>3, <2>4 DEF TaskSound, NotifyTask
<1>9. Items(<<n>>) = {n} /\ n # UnregisterTask
  <2>1. n.do = "notify"
    BY DEF NotifyTask
  <2> HIDE DEF n
  <2>2. QED
    BY <2>1 DEF Items, UnregisterTask
<1>10. ASSUME NEW u \in Users, NEW e, Due(u, e), Brings(w, task, u, e)
       PROVE  Brings(w, n, u, e)
  <2>1. /\ w # u /\ e.event = "JOINED" /\ e.room = r /\ e.id = task.id
        /\ e = Arrival(r, <<task.id, e.user>>) /\ <<task.id, e.user>> \in Who(r)
    BY <1>2, <1>10, TaskFields DEF Brings, Due
  <2>2. m = <<task.id, e.user>>
    <3>1. <<task.id, e.user>>[1] = task.id
      OBVIOUS
    <3>2. there
      BY <1>6, <2>1, <3>1
    <3>3. QED
      BY <1>1, <1>5, <2>1, <3>1, <3>2, WhoIsIn DEF Rosters
  <2>3. e = ev
    BY <2>1, <2>2
  <2>4. n.do = "notify" /\ n.ev = ev /\ n.except = w
    BY DEF NotifyTask
  <2>5. QED
    BY <2>1, <2>3, <2>4 DEF Brings
<1> HIDE DEF n
<1>11. InOrder(<<n>>)
  BY PairsInOrder
<1>12. QED
  BY <1>1, <1>2, <1>4, <1>8, <1>9, <1>10, <1>11, StepHands

\* The receivers of an event are collected: nobody it is due to is left out.
LEMMA CollectHands ==
    ASSUME ClientInv, NEW w \in Users, todo[w] # <<>>, NEW task, task = Head(todo[w]),
           task.do \in {"notify", "direct"}, Collect(w, task), UNCHANGED <<rooms, nextRoomId>>
    PROVE  Handed(w, task)
<1>1. /\ IInv /\ ClientTypes /\ EventsSound
      /\ \A u \in Users : InOrder(todo[u])
  BY DEF ClientInv, UserSound, SessionSound
<1> DEFINE tail == Tail(todo[w])
           n    == SendTask(task.ev, Recipients(task))
<1>2. /\ task \in Task /\ task \in Pending(w) /\ TaskSound(task)
      /\ Pending(w) = {task} \cup Items(tail) /\ tail \in Seq(Task) /\ InOrder(tail)
  BY <1>1, FirstTask DEF EventsSound
<1>3. Continue(w, <<n>> \o tail) /\ UNCHANGED session
  BY DEF Collect
<1>4. n.do = "send" /\ n.ev = task.ev /\ n.to = Recipients(task)
  BY DEF SendTask
<1>5. n \in Task
  <2>1. task.ev \in Event /\ Recipients(task) \subseteq Users
    <3>1. task.do = "direct" => task.to \in Users
      BY <1>2, TaskFields
    <3>2. \A r \in DOMAIN rooms : UsersOf(rooms[r]) \subseteq Users
      BY <1>1 DEF IInv, TypeOK, RoomOK, Member, UsersOf
    <3>3. QED
      BY <1>2, <3>1, <3>2, TaskFields DEF Recipients
  <2>2. QED
    BY <2>1, TaskTypes
<1> HIDE DEF n, tail
<1>6. /\ Items(<<n>> \o tail) = {n} \cup Items(tail) /\ Len(<<n>> \o tail) = Len(tail) + 1
      /\ (<<n>> \o tail)[1] = n /\ Len(tail) \in Nat
      /\ \A i \in 1..Len(tail) : (<<n>> \o tail)[i + 1] = tail[i]
  <2>1. /\ Items(<<n>> \o tail) = {n} \cup Items(tail) /\ Len(<<n>> \o tail) = Len(tail) + 1
    BY <1>2, <1>5, ItemsJoined
  <2>2. <<n>> \in Seq(Task) /\ Len(<<n>>) = 1 /\ <<n>>[1] = n /\ Len(tail) \in Nat
    BY <1>2, <1>5
  <2>3. /\ (<<n>> \o tail)[1] = n
        /\ \A i \in 1..Len(tail) : (<<n>> \o tail)[i + 1] = tail[i]
    BY <1>2, <2>2, ConcatProperties
  <2>4. QED
    BY <2>1, <2>2, <2>3
<1>7. InOrder(<<n>> \o tail)
  <2> DEFINE all == <<n>> \o tail
  <2>1. SUFFICES ASSUME NEW i \in 1..Len(all), all[i].do \in {"lookup", "unregister"}
                 PROVE  i = Len(all)
    BY DEF InOrder
  <2>2. i # 1
    BY <1>4, <1>6, <2>1
  <2>3. i - 1 \in 1..Len(tail) /\ all[(i - 1) + 1] = tail[i - 1] /\ (i - 1) + 1 = i
    BY <1>6, <2>2
  <2>4. tail[i - 1].do \in {"lookup", "unregister"}
    BY <2>1, <2>3
  <2>5. i - 1 = Len(tail)
    BY <1>2, <2>3, <2>4 DEF InOrder
  <2>6. QED
    BY <1>6, <2>3, <2>5
<1>8. TaskSound(n) /\ n # UnregisterTask
  BY <1>2, <1>4 DEF TaskSound, UnregisterTask
<1>9. ASSUME NEW u \in Users, NEW ev, Reachable(u), Due(u, ev), Brings(w, task, u, ev)
      PROVE  Brings(w, n, u, ev)
  <2>1. ev = task.ev
    BY <1>9 DEF Brings
  <2>2. u \in Recipients(task)
    <3>1. CASE task.do = "direct"
      <4>1. u = task.to /\ session[u].registered /\ session[u].ctxId # 0
        BY <1>9, <3>1 DEF Brings, Reachable
      <4>2. QED
        BY <3>1, <4>1 DEF Recipients
    <3>2. CASE task.do = "notify"
      <4>1. task.except # u /\ session[u].registered /\ session[u].ctxId # 0
        BY <1>9, <3>2 DEF Brings, Reachable
      <4>2. InRoom(u, task.ev.room)
        BY <1>2, <1>9, <2>1, <3>2 DEF TaskSound, Due
      <4>3. QED
        BY <3>2, <4>1, <4>2 DEF Recipients, InRoom
    <3>3. QED
      BY <3>1, <3>2
  <2>3. QED
    BY <1>4, <2>1, <2>2 DEF Brings
<1>10. /\ \A k \in Items(<<n>> \o tail) : k \in Pending(w) \/ TaskSound(k)
       /\ UnregisterTask \in Items(<<n>> \o tail) => UnregisterTask \in Pending(w)
       /\ \A k \in Pending(w) : k = task \/ k \in Items(<<n>> \o tail)
       /\ n \in Items(<<n>> \o tail)
  BY <1>2, <1>6, <1>8
<1>11. \A u \in Users : \A ev :
         Reachable(u) /\ Due(u, ev) /\ Brings(w, task, u, ev) =>
            \/ \E k \in Items(<<n>> \o tail) : Brings(w, k, u, ev)
            \/ task.do = "send" /\ task.ev = ev /\ u \in task.to
  BY <1>9, <1>10
<1>12. task \in Pending(w) /\ UNCHANGED <<session, rooms, nextRoomId>>
  BY <1>2, <1>3
<1>13. QED
  BY <1>1, <1>3, <1>7, <1>10, <1>11, <1>12, StepHands

\* The event is queued.
LEMMA SendHands ==
    ASSUME ClientInv, NEW w \in Users, todo[w] # <<>>, NEW task, task = Head(todo[w]),
           task.do = "send", Send(w), UNCHANGED <<rooms, nextRoomId>>
    PROVE  Handed(w, task)
<1>1. /\ IInv /\ ClientTypes /\ EventsSound
      /\ \A u \in Users : InOrder(todo[u])
  BY DEF ClientInv, UserSound, SessionSound
<1> DEFINE tail == Tail(todo[w])
<1>2. /\ task \in Pending(w) /\ Pending(w) = {task} \cup Items(tail) /\ InOrder(tail)
  BY <1>1, FirstTask
<1>3. Continue(w, tail) /\ UNCHANGED <<session, rooms, nextRoomId>>
  BY DEF Send
<1> HIDE DEF tail
<1>4. /\ \A k \in Items(tail) : k \in Pending(w) \/ TaskSound(k)
      /\ UnregisterTask \in Items(tail) => UnregisterTask \in Pending(w)
      /\ \A k \in Pending(w) : k = task \/ k \in Items(tail)
  BY <1>2
<1>5. \A u \in Users : \A ev :
        Reachable(u) /\ Due(u, ev) /\ Brings(w, task, u, ev) =>
            \/ \E k \in Items(tail) : Brings(w, k, u, ev)
            \/ task.do = "send" /\ task.ev = ev /\ u \in task.to
  BY DEF Brings
<1>6. QED
  BY <1>1, <1>2, <1>3, <1>4, <1>5, StepHands

\* What a handler has to do when the session of w is forgotten.
LEMMA ForgetsList ==
    ASSUME NEW s \in Seq(Task), NEW w, Forgets(s, w) \in Seq(Task)
    PROVE  LET t == Forgets(s, w)
           IN  /\ Len(t) = Len(s) /\ (t = <<>> <=> s = <<>>)
               /\ \A i \in 1..Len(s) :
                    /\ t[i].do = s[i].do
                    /\ t[i].do # "send" => t[i] = s[i]
                    /\ t[i].do = "send" => t[i].ev = s[i].ev /\ t[i].to = s[i].to \ {w}
<1> DEFINE t == Forgets(s, w)
<1>1. /\ Len(s) \in Nat /\ DOMAIN s = 1..Len(s) /\ \A i \in 1..Len(s) : s[i] \in Task
      /\ (s = <<>> <=> Len(s) = 0)
  BY LenProperties, EmptySeq
<1>2. /\ DOMAIN t = 1..Len(s)
      /\ \A i \in 1..Len(s) :
            t[i] = IF s[i].do = "send" THEN [s[i] EXCEPT !.to = @ \ {w}] ELSE s[i]
  BY <1>1 DEF Forgets
<1>3. \A k \in Task : k.do = "send" =>
        LET f == [k EXCEPT !.to = @ \ {w}]
        IN  f.do = "send" /\ f.ev = k.ev /\ f.to = k.to \ {w}
  BY DEF Task
<1> HIDE DEF t
<1>4. t \in Seq(Task)
  BY DEF t
<1>5. Len(t) = Len(s) /\ (t = <<>> <=> Len(t) = 0)
  BY <1>1, <1>2, <1>4, LenProperties, EmptySeq
<1>6. ASSUME NEW i \in 1..Len(s)
      PROVE  /\ t[i].do = s[i].do
             /\ t[i].do # "send" => t[i] = s[i]
             /\ t[i].do = "send" => t[i].ev = s[i].ev /\ t[i].to = s[i].to \ {w}
  <2>1. CASE s[i].do = "send"
    BY <1>1, <1>2, <1>3, <2>1
  <2>2. CASE s[i].do # "send"
    BY <1>2, <2>2
  <2>3. QED
    BY <2>1, <2>2
<1>7. QED
  BY <1>1, <1>5, <1>6 DEF t

\* The registry entry goes: nothing is due to its user any more, and the others
\* miss nothing.
LEMMA UnregisterForgets ==
    ASSUME ClientInv, IInv', NEW w \in Users, \A k \in Pending(w) : k = UnregisterTask,
           Unregister(w), UNCHANGED <<rooms, nextRoomId>>
    PROVE  /\ \A v \in Users : \A k \in Pending(v)' : k \in Pending(v) \/ TaskSound(k)'
           /\ \A u \in Users \ {w} : \A ev : Brought(u, ev) => Brought(u, ev)'
           /\ todo'[w] = <<>> /\ \A u \in Users : InOrder(todo'[u])
           /\ \A u \in Users \ {w} :
                /\ todo'[u] = <<>> <=> todo[u] = <<>>
                /\ session'[u] = session[u] /\ (Connected(u) => Connected(u)')
<1>1. /\ IInv /\ ClientTypes /\ EventsSound /\ session \in [Users -> Session]
      /\ \A u \in Users : InOrder(todo[u]) /\ todo[u] \in Seq(Task)
      /\ \A u \in Users : todo'[u] \in Seq(Task)
  BY DEF ClientInv, UserSound, SessionSound, IInv, TypeOK
<1>3. todo'[w] = <<>> /\ \A v \in Users \ {w} : todo'[v] = Forgets(todo[v], w)
  BY DEF Unregister
<1>4. \A u \in Users \ {w} : session'[u] = session[u]
  BY <1>1 DEF Unregister
<1>5. ASSUME NEW v \in Users \ {w}
      PROVE  /\ Len(todo'[v]) = Len(todo[v]) /\ (todo'[v] = <<>> <=> todo[v] = <<>>)
             /\ \A i \in 1..Len(todo[v]) :
                    /\ todo'[v][i].do = todo[v][i].do
                    /\ todo'[v][i].do # "send" => todo'[v][i] = todo[v][i]
                    /\ todo'[v][i].do = "send" =>
                        todo'[v][i].ev = todo[v][i].ev /\ todo'[v][i].to = todo[v][i].to \ {w}
  <2>1. Forgets(todo[v], w) \in Seq(Task)
    BY <1>1, <1>3
  <2>2. QED
    BY <1>1, <1>3, <2>1, ForgetsList
<1>6. Pending(w)' = {}
  BY <1>3 DEF Pending, Items
<1>7. ASSUME NEW v \in Users, NEW k \in Pending(v)' PROVE k \in Pending(v) \/ TaskSound(k)'
  <2>1. v # w
    BY <1>6, <1>7
  <2>2. PICK i \in 1..Len(todo[v]) : k = todo'[v][i]
    BY <1>5, <1>7, <2>1 DEF Pending, Items
  <2>3. todo[v][i] \in Pending(v)
    BY DEF Pending, Items
  <2>4. CASE k.do = "send"
    <3>1. EventSound(k.ev)
      <4>1. TaskSound(todo[v][i])
        BY <1>1, <2>3 DEF EventsSound
      <4>2. todo[v][i].do = "send" /\ todo[v][i].ev = k.ev
        BY <1>5, <2>1, <2>2, <2>4
      <4>3. QED
        BY <4>1, <4>2 DEF TaskSound
    <3>2. TaskSound(k)
      BY <2>4, <3>1 DEF TaskSound
    <3>3. QED
      BY <3>2, SoundUnchanged
  <2>5. CASE k.do # "send"
    BY <1>5, <2>1, <2>2, <2>3, <2>5
  <2>6. QED
    BY <2>4, <2>5
<1>8. ASSUME NEW u \in Users \ {w}, NEW ev, Brought(u, ev)
      PROVE  Brought(u, ev)'
  <2>1. PICK v \in Users : \E k \in Pending(v) : Brings(v, k, u, ev)
    BY <1>8 DEF Brought
  <2>2. PICK k \in Pending(v) : Brings(v, k, u, ev)
    BY <2>1
  <2>3. v # w
    BY <2>2 DEF Brings, UnregisterTask
  <2>4. PICK i \in 1..Len(todo[v]) : k = todo[v][i]
    BY DEF Pending, Items
  <2>5. todo'[v][i] \in Pending(v)'
    BY <1>5, <2>3 DEF Pending, Items
  <2>6. Brings(v, todo'[v][i], u, ev)
    BY <1>5, <2>2, <2>3, <2>4 DEF Brings
  <2>7. QED
    BY <2>5, <2>6 DEF Brought, Brings
<1>9. ASSUME NEW u \in Users
      PROVE  /\ InOrder(todo'[u])
             /\ u # w => /\ todo'[u] = <<>> <=> todo[u] = <<>>
                         /\ session'[u] = session[u] /\ (Connected(u) => Connected(u)')
  <2>1. CASE u = w
    BY <1>3, <2>1, PairsInOrder
  <2>2. CASE u # w
    <3>1. InOrder(todo'[u])
      BY <1>1, <1>5, <2>2 DEF InOrder
    <3>2. Connected(u) => Connected(u)'
      <4>1. SUFFICES ASSUME Connected(u), NEW i \in 1..Len(todo'[u]),
                            UnregisterTask = todo'[u][i]
                     PROVE  FALSE
        BY <1>4, <2>2 DEF Connected
      <4>2. UnregisterTask.do # "send"
        BY DEF UnregisterTask
      <4>3. i \in 1..Len(todo[u]) /\ UnregisterTask = todo[u][i]
        BY <1>5, <2>2, <4>1, <4>2
      <4>4. QED
        BY <4>1, <4>3 DEF Connected
    <3>3. QED
      BY <1>4, <1>5, <2>2, <3>1, <3>2
  <2>3. QED
    BY <2>1, <2>2
<1>10. QED
  BY <1>3, <1>7, <1>8, <1>9

LEMMA UnregisterHands ==
    ASSUME ClientInv, IInv', NEW w \in Users, todo[w] # <<>>, NEW task, task = Head(todo[w]),
           task.do = "unregister", Unregister(w), UNCHANGED <<rooms, nextRoomId>>
    PROVE  Handed(w, task)
<1>1. IInv /\ ClientTypes /\ InOrder(todo[w])
  BY DEF ClientInv, UserSound, SessionSound
<1>2. task = UnregisterTask /\ task \in Pending(w) /\ \A k \in Pending(w) : k = task
  <2>1. Tail(todo[w]) = <<>> /\ Pending(w) = {task} \cup Items(Tail(todo[w])) /\ task \in Task
    BY <1>1, FirstTask
  <2>2. Items(Tail(todo[w])) = {}
    <3>1. Tail(todo[w]) = <<>>
      BY <2>1
    <3>2. Items(<<>>) = {}
      BY DEF Items
    <3>3. QED
      BY <3>1, <3>2
  <2>3. QED
    BY <2>1, <2>2, TaskFields
<1>3. ~Connected(w)
  BY <1>2 DEF Connected, Pending, Items
<1>4. /\ \A v \in Users : \A k \in Pending(v)' : k \in Pending(v) \/ TaskSound(k)'
      /\ \A u \in Users \ {w} : \A ev : Brought(u, ev) => Brought(u, ev)'
      /\ todo'[w] = <<>> /\ \A u \in Users : InOrder(todo'[u])
      /\ \A u \in Users \ {w} :
           /\ todo'[u] = <<>> <=> todo[u] = <<>>
           /\ session'[u] = session[u] /\ (Connected(u) => Connected(u)')
  BY <1>2, UnregisterForgets
<1>5. ASSUME NEW u \in Users, NEW ev, Reachable(u), Brought(u, ev)
      PROVE  Brought(u, ev)'
  BY <1>3, <1>4, <1>5 DEF Reachable
<1>6. QED
  BY <1>4, <1>5 DEF Handed

\* Deleting the account keeps the invariant: the membership that stays in the
\* rooms is nobody's any more.
LEMMA DeletesKeep ==
    ASSUME ClientInv, IInv', NEW w \in Users, Deletes(w)
    PROVE  ClientInv'
<1>1. /\ IInv /\ ClientTypes /\ session \in [Users -> Session] /\ EventsSound
      /\ \A u \in Users : UserSound(u)
  BY DEF ClientInv, IInv, TypeOK
<1>2. /\ todo[w] = <<>> /\ Unregister(w) /\ UNCHANGED <<rooms, nextRoomId, overtaken>>
      /\ abandoned' = abandoned \cup {<<r, w>> : r \in {x \in DOMAIN rooms : InRoom(w, x)}}
      /\ inbox' = [inbox EXCEPT ![w] = <<>>]
      /\ reply' = [reply EXCEPT ![w] = NoRoom] /\ cache' = [cache EXCEPT ![w] = NoRoom]
  BY DEF Deletes, CmdDelete, Idle
<1>3. NoRoom \in Caches /\ NoRoom.room = 0
  BY DEF Caches, NoRoom
<1>4. ClientTypes'
  BY <1>1, <1>2, <1>3 DEF ClientTypes
<1>5. /\ \A v \in Users : \A k \in Pending(v)' : k \in Pending(v) \/ TaskSound(k)'
      /\ \A u \in Users \ {w} : \A ev : Brought(u, ev) => Brought(u, ev)'
      /\ todo'[w] = <<>> /\ \A u \in Users : InOrder(todo'[u])
      /\ \A u \in Users \ {w} :
           /\ todo'[u] = <<>> <=> todo[u] = <<>>
           /\ session'[u] = session[u] /\ (Connected(u) => Connected(u)')
  <2>1. Pending(w) = {}
    BY <1>2 DEF Pending, Items
  <2>2. QED
    BY <1>2, <2>1, UnregisterForgets
<1>6. /\ inbox'[w] = <<>> /\ cache'[w] = NoRoom
      /\ \A u \in Users \ {w} :
            inbox'[u] = inbox[u] /\ cache'[u] = cache[u] /\ reply'[u] = reply[u]
  BY <1>1, <1>2 DEF ClientTypes
<1>7. \A u \in Users : Items(inbox'[u]) \subseteq Items(inbox[u])
  BY <1>6 DEF Items
<1>8. Evolves /\ \A x : Who(x)' = Who(x) /\ \A u : InRoom(u, x)' = InRoom(u, x)
  BY <1>1, <1>2, SameRooms, SoundUnchanged
<1>9. EventsSound'
  BY <1>1, <1>5, <1>7, <1>8, EventsStaySound
<1>10. ASSUME NEW u \in Users \ {w} PROVE UserSound(u)'
  <2>1. RoomKnown(u) /\ RoomSeen(u) /\ SessionSound(u) /\ Will(u)' = Will(u)
    BY <1>1, <1>5, <1>6 DEF UserSound, Will
  <2>2. StayAbandoned(u) /\ \A x : Who(x)' \ Who(x) = {} /\ Who(x) \ Who(x)' = {}
    BY <1>2, <1>8 DEF StayAbandoned
  <2>3. RoomKnown(u)' /\ RoomSeen(u)'
    BY <1>1, <1>2, <1>5, <1>6, <2>1, <2>2, BystanderKept
  <2>4. SessionSound(u)'
    BY <1>5, <1>8, <2>1 DEF SessionSound
  <2>5. QED
    BY <2>3, <2>4 DEF UserSound
<1>11. UserSound(w)'
  <2>1. Will(w)'.room = 0 /\ session'[w] = FreshSession
    BY <1>1, <1>2, <1>3, <1>5, <1>6 DEF Will, Unregister
  <2>2. SessionSound(w)'
    BY <1>5, <2>1 DEF SessionSound, FreshSession
  <2>3. \A x : ~Belongs(w, x)'
    BY <1>2, <1>8 DEF Belongs, InRoom
  <2>4. \A x \in DOMAIN rooms' : x # 0
    BY WhoIsInNext DEF Rosters
  <2>5. RoomKnown(w)' /\ RoomSeen(w)'
    BY <2>1, <2>3, <2>4 DEF RoomKnown, RoomSeen
  <2>6. QED
    BY <2>2, <2>5 DEF UserSound
<1>12. QED
  BY <1>4, <1>9, <1>10, <1>11 DEF ClientInv

\* A step of a handler keeps the invariant.
LEMMA ResumesKeep ==
    ASSUME ClientInv, IInv', NEW w \in Users, Resumes(w)
    PROVE  ClientInv'
<1>1. PICK task : task = Head(todo[w])
  OBVIOUS
<1> DEFINE Pushed(v) == task.do = "send" /\ v \in task.to /\ Connected(v)
<1>2. /\ IInv /\ ClientTypes /\ EventsSound /\ session \in [Users -> Session]
      /\ \A u \in Users : UserSound(u) /\ InOrder(todo[u]) /\ todo[u] \in Seq(Task)
  BY DEF ClientInv, UserSound, SessionSound, IInv, TypeOK
<1>3. /\ todo[w] # <<>> /\ UNCHANGED <<rooms, nextRoomId, abandoned>>
      /\ \/ task.do = "lookup" /\ Lookup(w, task)
         \/ task.do \in {"notify", "direct"} /\ Collect(w, task)
         \/ task.do = "send" /\ Send(w)
         \/ task.do = "unregister" /\ Unregister(w)
  BY <1>1 DEF Resumes, Resume
<1>4. Handed(w, task)
  BY <1>1, <1>3, LookupHands, CollectHands, SendHands, UnregisterHands
<1>5. task \in Task /\ task \in Pending(w) /\ TaskSound(task)
  BY <1>1, <1>2, <1>3, FirstTask DEF EventsSound
<1>6. /\ inbox' = [v \in Users |-> IF Pushed(v) THEN Append(inbox[v], task.ev) ELSE inbox[v]]
      /\ cache' = IF Len(todo'[w]) = 0 THEN [cache EXCEPT ![w] = reply[w]] ELSE cache
      /\ reply' = IF Len(todo'[w]) = 0 THEN [reply EXCEPT ![w] = NoRoom] ELSE reply
      /\ overtaken' = IF task.do = "send" /\ AnnouncesTheGone(task.ev)
                      THEN overtaken \cup (task.to \X {task.ev}) ELSE overtaken
  BY <1>1 DEF Resumes
<1>7. Len(todo'[w]) = 0 <=> todo'[w] = <<>>
  BY EmptySeq DEF IInv, TypeOK
<1>8. task.do = "send" => task.ev \in Event /\ EventSound(task.ev)
  BY <1>5, TaskFields DEF TaskSound
<1>9. ClientTypes'
  <2>1. NoRoom \in Caches
    BY DEF Caches, NoRoom
  <2>2. \A v \in Users : Pushed(v) => Append(inbox[v], task.ev) \in Seq(Event)
    BY <1>2, <1>8 DEF ClientTypes
  <2>3. inbox' \in [Users -> Seq(Event)]
    BY <1>2, <1>6, <2>2 DEF ClientTypes
  <2>4. QED
    BY <1>2, <1>6, <2>1, <2>3 DEF ClientTypes
<1>10. ASSUME NEW u \in Users PROVE Will(u)' = Will(u)
  <2>1. CASE u = w
    BY <1>2, <1>3, <1>6, <1>7, <2>1 DEF Will, ClientTypes
  <2>2. CASE u # w
    <3>1. cache'[u] = cache[u] /\ reply'[u] = reply[u]
      BY <1>2, <1>6, <2>2 DEF ClientTypes
    <3>2. todo'[u] = <<>> <=> todo[u] = <<>>
      BY <1>4, <2>2 DEF Handed
    <3>3. QED
      BY <3>1, <3>2 DEF Will
  <2>3. QED
    BY <2>1, <2>2
<1>11. ASSUME NEW u \in Users
       PROVE  /\ ~Pushed(u) => inbox'[u] = inbox[u]
              /\ Pushed(u) =>
                    /\ Len(inbox'[u]) = Len(inbox[u]) + 1
                    /\ inbox'[u][Len(inbox[u]) + 1] = task.ev
              /\ \A i \in 1..Len(inbox[u]) : inbox'[u][i] = inbox[u][i]
              /\ Items(inbox'[u]) = Items(inbox[u]) \cup IF Pushed(u) THEN {task.ev} ELSE {}
              /\ Len(inbox[u]) \in Nat
  <2>1. inbox[u] \in Seq(Event) /\ Len(inbox[u]) \in Nat
    BY <1>2, QueuedTypes
  <2>2. CASE Pushed(u)
    <3>1. inbox'[u] = Append(inbox[u], task.ev) /\ task.ev \in Event
      BY <1>6, <1>8, <2>2
    <3>2. /\ Items(Append(inbox[u], task.ev)) = Items(inbox[u]) \cup {task.ev}
          /\ Len(Append(inbox[u], task.ev)) = Len(inbox[u]) + 1
          /\ Append(inbox[u], task.ev)[Len(inbox[u]) + 1] = task.ev
          /\ \A i \in 1..Len(inbox[u]) : Append(inbox[u], task.ev)[i] = inbox[u][i]
      BY <2>1, <3>1, ItemsAppended
    <3>3. QED
      BY <2>1, <2>2, <3>1, <3>2
  <2>3. CASE ~Pushed(u)
    BY <1>6, <2>1, <2>3
  <2>4. QED
    BY <2>1, <2>2, <2>3
<1> HIDE DEF Pushed
<1>12. EventsSound'
  <2>1. Evolves
    BY <1>2, <1>3, SameRooms
  <2>2. ASSUME NEW v \in Users, NEW ev \in Items(inbox'[v])
        PROVE  ev \in Items(inbox[v]) \/ EventSound(ev)'
    BY <1>3, <1>8, <1>11, <2>2, SoundUnchanged DEF Pushed
  <2>3. QED
    BY <1>2, <1>4, <2>1, <2>2, EventsStaySound DEF Handed
<1>13. \A r : Who(r)' = Who(r) /\ \A u : InRoom(u, r)' = InRoom(u, r)
  BY <1>3, SoundUnchanged
<1>14. ASSUME NEW u \in Users PROVE UserSound(u)'
  <2>1. /\ SessionSound(u) /\ RoomKnown(u) /\ RoomSeen(u) /\ Will(u)' = Will(u)
        /\ overtaken \subseteq overtaken'
    BY <1>2, <1>6, <1>10 DEF UserSound
  <2>2. Will(u).room # 0 => Reachable(u)
    BY <2>1 DEF SessionSound, Reachable
  <2>3. ASSUME NEW ev, Reachable(u), Due(u, ev)
        PROVE  /\ Brought(u, ev) => Brought(u, ev)' \/ (Pushed(u) /\ ev = task.ev)
               /\ OnItsWay(u, ev) => OnItsWay(u, ev)'
    <3>1. Brought(u, ev) => Brought(u, ev)' \/ (Pushed(u) /\ ev = task.ev)
      BY <1>4, <2>3 DEF Handed, Pushed, Reachable
    <3>2. Pushed(u) => task.ev \in Items(inbox'[u])
      BY <1>11
    <3>3. ev \in Items(inbox[u]) => ev \in Items(inbox'[u])
      BY <1>11
    <3>4. OnItsWay(u, ev) => OnItsWay(u, ev)'
      BY <3>1, <3>2, <3>3 DEF OnItsWay
    <3>5. QED
      BY <3>1, <3>4
  <2>4. SessionSound(u)'
    <3>1. InOrder(todo'[u])
      BY <1>4 DEF Handed
    <3>2. CASE u # w \/ task.do # "unregister"
      <4>1. session'[u] = session[u] /\ (Connected(u) => Connected(u)')
        BY <1>4, <3>2 DEF Handed
      <4>2. QED
        BY <1>13, <2>1, <3>1, <4>1 DEF SessionSound
    <3>3. CASE u = w /\ task.do = "unregister"
      <4>1. session'[u] = FreshSession
        BY <1>2, <1>3, <3>3 DEF Unregister
      <4>2. ~Connected(u)
        <5>1. UnregisterTask \in Pending(u)
          BY <1>5, <3>3, TaskFields
        <5>2. QED
          BY <5>1 DEF Connected, Pending, Items
      <4>3. Will(u).room = 0
        BY <2>1, <4>2 DEF SessionSound
      <4>4. QED
        BY <2>1, <3>1, <4>1, <4>3 DEF SessionSound, FreshSession
    <3>4. QED
      BY <3>2, <3>3
  <2>5. RoomKnown(u)'
    <3>1. ASSUME Will(u).room # 0
          PROVE  InRoom(u, Will(u).room)' \/ OnItsWay(u, Expulsion(Will(u).room))'
      <4>1. Reachable(u) /\ Due(u, Expulsion(Will(u).room))
        BY <2>2, <3>1, EventsDiffer DEF Due
      <4>2. QED
        BY <1>13, <2>1, <2>3, <3>1, <4>1 DEF RoomKnown
    <3>2. \A r \in DOMAIN rooms' :
            Belongs(u, r)' => Will(u).room = r \/ <<u, Expulsion(r)>> \in overtaken'
      BY <1>3, <1>13, <2>1 DEF RoomKnown, Belongs
    <3>3. QED
      BY <2>1, <3>1, <3>2 DEF RoomKnown
  <2>6. ASSUME NEW r \in DOMAIN rooms', InRoom(u, r)', Will(u)'.room = r
        PROVE  Complete(u, r)' /\ Explained(u, r)' /\ Ordered(u, r)'
    <3>1. /\ r \in DOMAIN rooms /\ InRoom(u, r) /\ r # 0
          /\ Complete(u, r) /\ Explained(u, r) /\ Ordered(u, r)
      BY <1>2, <1>3, <1>13, <2>1, <2>6, WhoIsIn DEF RoomSeen, Rosters
    <3>2. /\ Reachable(u)
          /\ \A m \in Who(r) : Due(u, Arrival(r, m))
          /\ \A m : Due(u, Departure(r, m))
      <4>1. Reachable(u)
        BY <2>1, <2>2, <2>6, <3>1
      <4>2. ASSUME NEW m \in Who(r) PROVE Due(u, Arrival(r, m))
        <5>1. m = <<m[1], m[2]>>
          BY <1>2, WhoIsIn DEF Rosters
        <5>2. QED
          BY <3>1, <5>1, EventsDiffer DEF Due
      <4>3. \A m : Due(u, Departure(r, m))
        BY <3>1, EventsDiffer DEF Due
      <4>4. QED
        BY <4>1, <4>2, <4>3
    <3>3. Complete(u, r)'
      BY <1>13, <2>1, <2>3, <3>1, <3>2 DEF Complete
    <3>4. Explained(u, r)'
      BY <1>13, <2>1, <2>3, <3>1, <3>2 DEF Explained
    <3>5. ASSUME NEW i \in 1..Len(inbox'[u]), NEW m \in MemberRef, inbox'[u][i] = Arrival(r, m)
          PROVE  \/ m \in Who(r)' \/ Brought(u, Departure(r, m))' \/ DepartsAfter(u, i, r, m)'
                 \/ <<u, Arrival(r, m)>> \in overtaken'
      <4>1. CASE i \in 1..Len(inbox[u])
        <5>1. \/ m \in Who(r) \/ Brought(u, Departure(r, m)) \/ DepartsAfter(u, i, r, m)
              \/ <<u, Arrival(r, m)>> \in overtaken
          BY <1>11, <3>1, <3>5, <4>1 DEF Ordered
        <5>2. Len(inbox[u]) \in Nat /\ (Len(inbox'[u]) = Len(inbox[u]) \/ Pushed(u))
          BY <1>11
        <5>3. DepartsAfter(u, i, r, m) => DepartsAfter(u, i, r, m)'
          <6>1. Len(inbox[u]) <= Len(inbox'[u])
            BY <1>11
          <6>2. QED
            BY <1>11, <4>1, <6>1 DEF DepartsAfter
        <5>4. Pushed(u) /\ task.ev = Departure(r, m) => DepartsAfter(u, i, r, m)'
          <6>1. SUFFICES ASSUME Pushed(u), task.ev = Departure(r, m) PROVE DepartsAfter(u, i, r, m)'
            OBVIOUS
          <6>2. /\ Len(inbox[u]) + 1 \in (i + 1)..Len(inbox'[u])
                /\ inbox'[u][Len(inbox[u]) + 1] = Departure(r, m)
            BY <1>11, <4>1, <6>1
          <6>3. QED
            BY <6>2 DEF DepartsAfter
        <5>5. Brought(u, Departure(r, m)) =>
                Brought(u, Departure(r, m))' \/ (Pushed(u) /\ task.ev = Departure(r, m))
          BY <2>3, <3>2
        <5>6. QED
          BY <1>13, <2>1, <5>1, <5>3, <5>4, <5>5
      <4>2. CASE i \notin 1..Len(inbox[u])
        <5>1. Pushed(u) /\ task.ev = Arrival(r, m)
          BY <1>11, <3>5, <4>2
        <5>2. m \in Who(r) \/ AnnouncesTheGone(task.ev)
          BY <1>2, <1>8, <5>1, GoneAnnounced DEF Pushed
        <5>3. AnnouncesTheGone(task.ev) => <<u, Arrival(r, m)>> \in overtaken'
          BY <1>6, <5>1 DEF Pushed
        <5>4. QED
          BY <1>13, <5>2, <5>3
      <4>3. QED
        BY <4>1, <4>2
    <3>6. Ordered(u, r)'
      BY <3>5 DEF Ordered
    <3>7. QED
      BY <3>3, <3>4, <3>6
  <2>7. RoomSeen(u)'
    BY <2>6 DEF RoomSeen
  <2>8. QED
    BY <2>4, <2>5, <2>7 DEF UserSound
<1>15. QED
  BY <1>9, <1>12, <1>14 DEF ClientInv

---------------------------------------------------------------------------
(* Events reach the clients                                                *)

\* What an event leaves of a cache.
LEMMA CachedFacts ==
    ASSUME NEW old \in Caches, NEW ev \in Event
    PROVE  LET new == Cached(old, ev)
               here == ev.room = old.room
           IN  /\ new \in Caches
               /\ IF here /\ ev.event = "KICKEDOUT" THEN new.room = 0 ELSE new.room = old.room
               /\ ~here => new.members = old.members
               /\ here /\ ev.event = "JOINED" =>
                    new.members = old.members \cup {<<ev.id, ev.user>>}
               /\ here /\ ev.event = "LEFT" =>
                    new.members = {m \in old.members : m[1] # ev.id}
               /\ here /\ ev.event = "DATA" => new.members = old.members
<1>1. /\ ev.event \in {"JOINED", "LEFT", "KICKEDOUT", "DATA"}
      /\ <<ev.id, ev.user>> \in MemberRef /\ ev.attr \in AttrValues \cup {NoAttr}
  BY DEF Event, MemberRef
<1>2. /\ old.room \in Nat /\ old.members \in SUBSET MemberRef
      /\ old.attr \in AttrValues \cup {NoAttr}
      /\ old = [room |-> old.room, members |-> old.members, attr |-> old.attr]
  BY DEF Caches
<1>3. CASE ev.room # old.room
  BY <1>3 DEF Cached
<1>4. CASE ev.room = old.room /\ ev.event = "JOINED"
  <2>1. Cached(old, ev) = [room |-> old.room, attr |-> old.attr,
                           members |-> old.members \cup {<<ev.id, ev.user>>}]
    BY <1>2, <1>4 DEF Cached
  <2>2. QED
    BY <1>1, <1>2, <1>4, <2>1 DEF Caches
<1>5. CASE ev.room = old.room /\ ev.event = "LEFT"
  <2>1. Cached(old, ev) = [room |-> old.room, attr |-> old.attr,
                           members |-> {m \in old.members : m[1] # ev.id}]
    BY <1>2, <1>5 DEF Cached
  <2>2. QED
    BY <1>2, <1>5, <2>1 DEF Caches
<1>6. CASE ev.room = old.room /\ ev.event = "KICKEDOUT"
  BY <1>6 DEF Cached, NoRoom, Caches
<1>7. CASE ev.room = old.room /\ ev.event = "DATA"
  <2>1. Cached(old, ev) = [room |-> old.room, members |-> old.members,
                           attr |-> IF ev.attr = NoAttr THEN old.attr ELSE ev.attr]
    BY <1>2, <1>7 DEF Cached
  <2>2. QED
    BY <1>1, <1>2, <1>7, <2>1 DEF Caches
<1>8. QED
  BY <1>1, <1>3, <1>4, <1>5, <1>6, <1>7

\* Events are written in the order they were queued, each to a client that
\* believes what the events before it have told.
LEMMA DeliversKeep ==
    ASSUME ClientInv, IInv', NEW w \in Users, Deliver(w)
    PROVE  ClientInv'
<1>1. PICK ev, new : ev = Head(inbox[w]) /\ new = Cached(cache[w], ev)
  OBVIOUS
<1>2. /\ IInv /\ ClientTypes /\ EventsSound
      /\ \A u \in Users : UserSound(u)
      /\ cache[w] \in Caches
  BY DEF ClientInv, ClientTypes
<1>3. /\ UNCHANGED <<session, rooms, nextRoomId, todo, reply, abandoned>>
      /\ Connected(w) /\ todo[w] = <<>> /\ inbox[w] # <<>>
      /\ cache' = [cache EXCEPT ![w] = Cached(cache[w], ev)]
      /\ inbox' = [inbox EXCEPT ![w] = Tail(inbox[w])]
      /\ overtaken \subseteq overtaken'
      /\ ev.event = "KICKEDOUT" /\ InRoom(w, ev.room) => <<w, ev>> \in overtaken'
  BY <1>1, <1>2 DEF Deliver, vars, ClientTypes
<1> DEFINE q == inbox[w]
<1>4. /\ Len(q) \in Nat /\ Len(q) > 0 /\ q[1] = ev /\ inbox'[w] = Tail(q)
      /\ Tail(q) \in Seq(Event) /\ Len(Tail(q)) = Len(q) - 1
      /\ \A i \in 1..(Len(q) - 1) : Tail(q)[i] = q[i + 1]
      /\ Items(q) = {ev} \cup Items(Tail(q)) /\ ev \in Items(q)
      /\ ev \in Event
  <2>1. q \in Seq(Event)
    BY <1>2, QueuedTypes
  <2>2. /\ Len(q) \in Nat /\ Len(q) > 0 /\ q[1] = Head(q)
        /\ Tail(q) \in Seq(Event) /\ Len(Tail(q)) = Len(q) - 1
        /\ \A i \in 1..(Len(q) - 1) : Tail(q)[i] = q[i + 1]
    BY <1>3, <2>1, LenProperties, EmptySeq, HeadTailProperties
  <2>3. /\ Items(q) = {Head(q)} \cup Items(Tail(q)) /\ Head(q) \in Items(q)
        /\ Items(q) \subseteq Event
    BY <1>3, <2>1, ItemsOfLists
  <2>4. inbox'[w] = Tail(q)
    BY <1>2, <1>3 DEF ClientTypes
  <2>5. QED
    BY <1>1, <2>2, <2>3, <2>4
<1>5. EventSound(ev)
  BY <1>2, <1>4 DEF EventsSound
<1>6. /\ \A u \in Users \ {w} : Will(u)' = Will(u) /\ inbox'[u] = inbox[u]
      /\ Will(w) = cache[w] /\ Will(w)' = new
  BY <1>1, <1>2, <1>3 DEF Will, ClientTypes
<1>7. /\ new \in Caches
      /\ IF ev.room = Will(w).room /\ ev.event = "KICKEDOUT"
         THEN new.room = 0 ELSE new.room = Will(w).room
      /\ ev.room # Will(w).room => new.members = Will(w).members
      /\ ev.room = Will(w).room /\ ev.event = "JOINED" =>
            new.members = Will(w).members \cup {<<ev.id, ev.user>>}
      /\ ev.room = Will(w).room /\ ev.event = "LEFT" =>
            new.members = {m \in Will(w).members : m[1] # ev.id}
      /\ ev.room = Will(w).room /\ ev.event = "DATA" => new.members = Will(w).members
      /\ ev.event \in {"JOINED", "LEFT", "KICKEDOUT", "DATA"}
  <2>1. ev.event \in {"JOINED", "LEFT", "KICKEDOUT", "DATA"}
    BY <1>4 DEF Event
  <2>2. LET old  == cache[w]
            here == ev.room = old.room
        IN  /\ new \in Caches
            /\ IF here /\ ev.event = "KICKEDOUT" THEN new.room = 0 ELSE new.room = old.room
            /\ ~here => new.members = old.members
            /\ here /\ ev.event = "JOINED" => new.members = old.members \cup {<<ev.id, ev.user>>}
            /\ here /\ ev.event = "LEFT" => new.members = {m \in old.members : m[1] # ev.id}
            /\ here /\ ev.event = "DATA" => new.members = old.members
    BY <1>1, <1>2, <1>4, CachedFacts
  <2>3. QED
    BY <1>6, <2>1, <2>2
<1> HIDE DEF q
<1>8. ClientTypes'
  BY <1>1, <1>2, <1>3, <1>4, <1>7 DEF ClientTypes
<1>9. /\ \A r : Who(r)' = Who(r) /\ \A u : InRoom(u, r)' = InRoom(u, r)
      /\ \A u, e : Brought(u, e)' = Brought(u, e)
      /\ \A v : Pending(v)' = Pending(v)
  <2>1. \A v : Pending(v)' = Pending(v)
    BY <1>3 DEF Pending
  <2>2. \A u, e : Brought(u, e)' = Brought(u, e)
    BY <2>1 DEF Brought, Brings
  <2>3. QED
    BY <1>3, <2>1, <2>2, SoundUnchanged
<1>10. EventsSound'
  <2>1. Evolves
    BY <1>2, <1>3, SameRooms
  <2>2. \A v \in Users : \A e \in Items(inbox'[v]) : e \in Items(inbox[v])
    BY <1>4, <1>6 DEF q
  <2>3. QED
    BY <1>2, <1>9, <2>1, <2>2, EventsStaySound
<1>11. ASSUME NEW u \in Users \ {w} PROVE UserSound(u)'
  <2>1. RoomKnown(u)' /\ RoomSeen(u)' /\ \A x : InRoom(u, x)' => InRoom(u, x)
    <3>1. RoomKnown(u) /\ RoomSeen(u) /\ Will(u)' = Will(u) /\ inbox'[u] = inbox[u]
      BY <1>2, <1>6 DEF UserSound
    <3>2. \A x : Who(x)' \ Who(x) = {} /\ Who(x) \ Who(x)' = {}
      BY <1>9
    <3>3. QED
      BY <1>2, <1>3, <1>9, <3>1, <3>2, BystanderKept DEF StayAbandoned
  <2>2. SessionSound(u)'
    BY <1>2, <1>3, <1>6, <2>1, SessionKept DEF UserSound
  <2>3. QED
    BY <2>1, <2>2 DEF UserSound
<1>12. /\ SessionSound(w) /\ RoomKnown(w) /\ RoomSeen(w)
       /\ \A e : OnItsWay(w, e) => OnItsWay(w, e)' \/ e = ev
  BY <1>2, <1>4, <1>9 DEF UserSound, OnItsWay, q
<1>13. SessionSound(w)'
  <2>1. Connected(w)' /\ InOrder(todo'[w]) /\ session'[w] = session[w]
    BY <1>3, <1>12 DEF Connected, SessionSound
  <2>2. QED
    BY <1>6, <1>7, <1>9, <1>12, <2>1 DEF SessionSound
<1>14. RoomKnown(w)'
  <2>1. ASSUME new.room # 0 PROVE InRoom(w, new.room)' \/ OnItsWay(w, Expulsion(new.room))'
    <3>1. new.room = Will(w).room /\ ev # Expulsion(new.room)
      BY <1>7, <2>1, EventsDiffer
    <3>2. QED
      BY <1>9, <1>12, <2>1, <3>1 DEF RoomKnown
  <2>2. ASSUME NEW r \in DOMAIN rooms', Belongs(w, r)'
        PROVE  new.room = r \/ <<w, Expulsion(r)>> \in overtaken'
    <3>1. Will(w).room = r \/ <<w, Expulsion(r)>> \in overtaken
      BY <1>3, <1>9, <1>12, <2>2 DEF RoomKnown, Belongs
    <3>2. CASE ev.room = r /\ ev.event = "KICKEDOUT"
      BY <1>3, <1>5, <1>9, <2>2, <3>2 DEF EventSound, Belongs
    <3>3. CASE ~(ev.room = r /\ ev.event = "KICKEDOUT")
      BY <1>3, <1>7, <3>1, <3>3
    <3>4. QED
      BY <3>2, <3>3
  <2>3. QED
    BY <1>6, <2>1, <2>2 DEF RoomKnown
<1>15. ASSUME NEW r \in DOMAIN rooms', InRoom(w, r)', Will(w)'.room = r
       PROVE  Complete(w, r)' /\ Explained(w, r)' /\ Ordered(w, r)'
  <2>1. /\ r \in DOMAIN rooms /\ Will(w).room = r /\ ~(ev.room = r /\ ev.event = "KICKEDOUT")
        /\ Complete(w, r) /\ Explained(w, r) /\ Ordered(w, r)
    <3>1. r \in DOMAIN rooms /\ r # 0 /\ InRoom(w, r) /\ new.room = r
      BY <1>2, <1>3, <1>6, <1>9, <1>15, WhoIsIn DEF Rosters
    <3>2. Will(w).room = r /\ ~(ev.room = r /\ ev.event = "KICKEDOUT")
      BY <1>7, <3>1
    <3>3. QED
      BY <1>12, <3>1, <3>2 DEF RoomSeen
  <2>2. Complete(w, r)'
    <3>1. SUFFICES ASSUME NEW m \in Who(r) PROVE m \in new.members \/ OnItsWay(w, Arrival(r, m))'
      BY <1>6, <1>9 DEF Complete
    <3>2. m = <<m[1], m[2]>>
      BY <1>2, WhoIsIn DEF Rosters
    <3>3. CASE m \in Will(w).members
      <4>1. ev.room = r /\ ev.event = "LEFT" => m[1] # ev.id
        BY <1>5, <2>1 DEF EventSound
      <4>2. QED
        BY <1>7, <2>1, <3>3, <4>1
    <3>4. CASE ev = Arrival(r, m)
      BY <1>7, <2>1, <3>2, <3>4, EventsDiffer
    <3>5. QED
      BY <1>12, <2>1, <3>3, <3>4 DEF Complete
  <2>3. ASSUME NEW m, DepartsAfter(w, 1, r, m) PROVE OnItsWay(w, Departure(r, m))'
    <3>1. PICK j \in (1 + 1)..Len(q) : q[j] = Departure(r, m)
      BY <2>3 DEF DepartsAfter, q
    <3>2. j - 1 \in 1..Len(Tail(q)) /\ Tail(q)[j - 1] = q[(j - 1) + 1] /\ (j - 1) + 1 = j
      BY <1>4
    <3>3. Departure(r, m) \in Items(Tail(q))
      BY <3>1, <3>2 DEF Items
    <3>4. QED
      BY <1>4, <3>3 DEF OnItsWay
  <2>4. Explained(w, r)'
    <3>1. SUFFICES ASSUME NEW m \in new.members
                   PROVE  \/ m \in Who(r) \/ OnItsWay(w, Departure(r, m))'
                          \/ <<w, Arrival(r, m)>> \in overtaken'
      BY <1>6, <1>9 DEF Explained
    <3>2. CASE m \in Will(w).members
      <4>1. ev # Departure(r, m)
        BY <1>7, <2>1, <3>1, EventsDiffer
      <4>2. QED
        BY <1>3, <1>12, <2>1, <3>2, <4>1 DEF Explained
    <3>3. CASE m \notin Will(w).members
      <4>1. ev.room = r /\ ev.event = "JOINED" /\ m = <<ev.id, ev.user>>
        BY <1>7, <2>1, <3>1, <3>3
      <4>2. q[1] = Arrival(r, m) /\ m \in MemberRef /\ 1 \in 1..Len(q)
        <5>1. q[1] = Arrival(r, m)
          BY <1>4, <1>5, <4>1 DEF EventSound
        <5>2. m \in MemberRef
          BY <1>7, <3>1 DEF Caches
        <5>3. QED
          BY <1>4, <5>1, <5>2
      <4>3. \/ m \in Who(r) \/ Brought(w, Departure(r, m)) \/ DepartsAfter(w, 1, r, m)
            \/ <<w, Arrival(r, m)>> \in overtaken
        BY <2>1, <4>2 DEF Ordered, q
      <4>4. QED
        BY <1>3, <1>9, <2>3, <4>3 DEF OnItsWay
    <3>4. QED
      BY <3>2, <3>3
  <2>5. Ordered(w, r)'
    <3>1. SUFFICES ASSUME NEW i \in 1..Len(Tail(q)), NEW m \in MemberRef, Tail(q)[i] = Arrival(r, m)
                   PROVE  \/ m \in Who(r) \/ Brought(w, Departure(r, m))
                          \/ DepartsAfter(w, i, r, m)' \/ <<w, Arrival(r, m)>> \in overtaken'
      BY <1>4, <1>9 DEF Ordered
    <3>2. i + 1 \in 1..Len(q) /\ q[i + 1] = Arrival(r, m)
      BY <1>4, <3>1
    <3>3. \/ m \in Who(r) \/ Brought(w, Departure(r, m)) \/ DepartsAfter(w, i + 1, r, m)
          \/ <<w, Arrival(r, m)>> \in overtaken
      BY <2>1, <3>2 DEF Ordered, q
    <3>4. ASSUME DepartsAfter(w, i + 1, r, m) PROVE DepartsAfter(w, i, r, m)'
      <4>1. PICK j \in ((i + 1) + 1)..Len(q) : q[j] = Departure(r, m)
        BY <3>4 DEF DepartsAfter, q
      <4>2. /\ j - 1 \in (i + 1)..Len(Tail(q)) /\ j - 1 \in 1..(Len(q) - 1)
            /\ (j - 1) + 1 = j
        BY <1>4
      <4>3. Tail(q)[j - 1] = Departure(r, m)
        BY <1>4, <4>1, <4>2
      <4>4. QED
        BY <1>4, <4>2, <4>3 DEF DepartsAfter
    <3>5. QED
      BY <1>3, <3>3, <3>4
  <2>6. QED
    BY <2>2, <2>4, <2>5
<1>16. UserSound(w)'
  BY <1>13, <1>14, <1>15 DEF UserSound, RoomSeen
<1>17. QED
  BY <1>8, <1>10, <1>11, <1>16 DEF ClientInv

---------------------------------------------------------------------------
(* The invariant holds                                                     *)

\* Every step of a client is one of the server, or none.
LEMMA ClientsStep ==
    ASSUME IInv, ClientNext \/ UNCHANGED allVars
    PROVE  IInv'
<1>1. [Next]_vars
  <2>1. CASE UNCHANGED allVars
    BY <2>1 DEF allVars
  <2>2. ASSUME NEW u \in Users,
               \/ Starts(u) \/ Creates(u) \/ Joins(u) \/ Leaves(u) \/ Kicks(u)
               \/ SetsData(u) \/ Drops(u) \/ Deletes(u) \/ Resumes(u) \/ Deliver(u)
        PROVE  [Next]_vars
    <3>1. CASE Starts(u)
      BY <3>1 DEF Starts, Next
    <3>2. CASE Creates(u)
      BY <3>2 DEF Creates, Next
    <3>3. CASE Joins(u)
      BY <3>3 DEF Joins, Next
    <3>4. CASE Leaves(u)
      BY <3>4 DEF Leaves, Next
    <3>5. CASE Kicks(u)
      BY <3>5 DEF Kicks, Next
    <3>6. CASE SetsData(u)
      BY <3>6 DEF SetsData, Next
    <3>7. CASE Drops(u)
      BY <3>7 DEF Drops, Next
    <3>8. CASE Resumes(u)
      BY <3>8 DEF Resumes, Next
    <3>9. CASE Deliver(u)
      BY <3>9 DEF Deliver
    <3>10. CASE Deletes(u)
      BY <3>10 DEF Deletes, Next
    <3>11. QED
      BY <2>2, <3>1, <3>2, <3>3, <3>4, <3>5, <3>6, <3>7, <3>8, <3>9, <3>10
  <2>3. QED
    BY <2>1, <2>2 DEF ClientNext
<1>2. QED
  BY <1>1, NextIInv

LEMMA ClientInitInv == ClientInit => ClientInv
<1> SUFFICES ASSUME ClientInit PROVE ClientInv
  OBVIOUS
<1>1. IInv /\ DOMAIN rooms = {}
  BY InitIInv DEF ClientInit, Init
<1>2. /\ session = [u \in Users |-> FreshSession] /\ todo = [u \in Users |-> <<>>]
      /\ inbox = [u \in Users |-> <<>>] /\ reply = [u \in Users |-> NoRoom]
      /\ cache = [u \in Users |-> NoRoom]
  BY DEF ClientInit, Init
<1>3. ClientTypes
  BY <1>2 DEF ClientTypes, Caches, NoRoom
<1>4. EventsSound
  BY <1>1, <1>2 DEF EventsSound, Pending, Items
<1>5. ASSUME NEW u \in Users PROVE UserSound(u)
  <2>1. Will(u).room = 0 /\ InOrder(todo[u]) /\ ~session[u].initialized
    BY <1>2, PairsInOrder DEF Will, NoRoom, FreshSession
  <2>2. QED
    BY <1>1, <2>1 DEF UserSound, SessionSound, RoomKnown, RoomSeen
<1>6. QED
  BY <1>1, <1>3, <1>4, <1>5 DEF ClientInv

LEMMA ClientNextInv ==
    ASSUME ContextsNamed, ClientInv, ClientNext \/ UNCHANGED allVars
    PROVE  ClientInv'
<1>1. IInv'
  BY ClientsStep DEF ClientInv
<1>2. CASE UNCHANGED allVars
  <2>1. /\ UNCHANGED <<session, rooms, nextRoomId, todo, abandoned>>
        /\ UNCHANGED <<inbox, reply, cache, overtaken>>
        /\ IInv /\ ClientTypes /\ EventsSound /\ \A u \in Users : UserSound(u)
    BY <1>2 DEF allVars, vars, clientVars, ClientInv
  <2>2. /\ Evolves /\ \A x : Who(x)' = Who(x)
        /\ \A v : Pending(v)' = Pending(v) /\ Will(v)' = Will(v)
        /\ \A x, u : InRoom(u, x)' = InRoom(u, x)
    BY <2>1, SameRooms, SoundUnchanged DEF Pending, Will
  <2>3. \A u, ev : Brought(u, ev)' = Brought(u, ev)
    BY <2>2 DEF Brought, Brings
  <2>4. EventsSound'
    BY <1>1, <2>1, <2>2, EventsStaySound
  <2>5. ASSUME NEW u \in Users PROVE UserSound(u)'
    <3>1. /\ SessionSound(u) /\ RoomKnown(u) /\ RoomSeen(u)
          /\ \A x : Who(x)' \ Who(x) = {} /\ Who(x) \ Who(x)' = {}
      BY <2>1, <2>2 DEF UserSound
    <3>2. RoomKnown(u)' /\ RoomSeen(u)'
      BY <1>1, <2>1, <2>2, <2>3, <3>1, BystanderKept DEF StayAbandoned
    <3>3. SessionSound(u)'
      BY <2>1, <2>2, <3>1, SessionKept
    <3>4. QED
      BY <3>2, <3>3 DEF UserSound
  <2>6. QED
    BY <1>1, <2>1, <2>4, <2>5 DEF ClientInv, ClientTypes
<1>3. ASSUME NEW u \in Users,
             \/ Starts(u) \/ Creates(u) \/ Joins(u) \/ Leaves(u) \/ Kicks(u)
             \/ SetsData(u) \/ Drops(u) \/ Deletes(u) \/ Resumes(u) \/ Deliver(u)
      PROVE  ClientInv'
  BY <1>1, <1>3, StartsKeep, CreatesKeep, JoinsKeep, LeavesKeep, KicksKeep, SetsDataKeep,
     DropsKeep, DeletesKeep, ResumesKeep, DeliversKeep
<1>4. QED
  BY <1>2, <1>3 DEF ClientNext

\* The invariant of clients and server holds in every state, for any constants:
\* what the clients will have been told agrees with the rooms.
THEOREM ClientsInvariance ==
    ASSUME ContextsNamed
    PROVE  ClientSpec => []ClientInv
<1>1. ClientInit => ClientInv
  BY ClientInitInv
<1>2. ClientInv /\ [ClientNext]_allVars => ClientInv'
  BY ClientNextInv
<1>3. QED
  BY <1>1, <1>2, PTL DEF ClientSpec

\* When things are quiet, the client believes what its replies and events told.
LEMMA QuietUsers ==
    ASSUME ClientInv, Quiet, NEW u \in Users
    PROVE  /\ Will(u) = cache[u] /\ \A ev : ~OnItsWay(u, ev)
           /\ \A r \in DOMAIN rooms : r # 0 /\ Snapshot(r, rooms[r]).members = Who(r)
<1>1. \A v \in Users : Items(inbox[v]) = {} /\ Pending(v) = {}
  BY DEF Quiet, Items, Pending
<1>2. \A ev : ~OnItsWay(u, ev)
  BY <1>1 DEF OnItsWay, Brought
<1>3. Will(u) = cache[u]
  BY DEF Quiet, Will
<1>4. ASSUME NEW r \in DOMAIN rooms
      PROVE  r # 0 /\ Snapshot(r, rooms[r]).members = Who(r)
  BY WhoIsIn, SnapshotOf DEF ClientInv, Rosters, Who
<1>5. QED
  BY <1>2, <1>3, <1>4

\* Once things are quiet, a client and the server agree on the room the client
\* is in, however the notices of CmdKickoutRoomMember and the replies of the
\* handlers met; only the notice of an earlier kick may still mislead it, and
\* the client of a new account does not know the rooms its name was left in.
THEOREM CachesAlwaysKnowRooms ==
    ASSUME ContextsNamed
    PROVE  ClientSpec => []CacheKnowsRoom
<1>1. ClientInv => CacheKnowsRoom
  <2> SUFFICES ASSUME ClientInv, Quiet, NEW u \in Users, NEW r \in DOMAIN rooms
               PROVE  /\ cache[u].room = r => InRoom(u, r)
                      /\ Belongs(u, r) => cache[u].room = r
                            \/ <<u, MemberEvent("KICKEDOUT", r, NoId, NoUser)>> \in overtaken
    BY DEF CacheKnowsRoom
  <2>1. RoomKnown(u)
    BY DEF ClientInv, UserSound
  <2>2. Expulsion(r) = MemberEvent("KICKEDOUT", r, NoId, NoUser)
    BY DEF Expulsion
  <2>3. QED
    BY <2>1, <2>2, QuietUsers DEF RoomKnown
<1>2. QED
  BY <1>1, ClientsInvariance, PTL

\* Once things are quiet, no client misses a member of its room, in whatever
\* order the threads announced the joins, leaves and kicks.
THEOREM CachesAlwaysComplete ==
    ASSUME ContextsNamed
    PROVE  ClientSpec => []CacheComplete
<1>1. ClientInv => CacheComplete
  <2> SUFFICES ASSUME ClientInv, Quiet, NEW u \in Users, NEW r \in DOMAIN rooms,
                      cache[u].room = r
               PROVE  Snapshot(r, rooms[r]).members \subseteq cache[u].members
    BY DEF CacheComplete
  <2>1. RoomKnown(u) /\ RoomSeen(u)
    BY DEF ClientInv, UserSound
  <2>2. InRoom(u, r)
    BY <2>1, QuietUsers DEF RoomKnown
  <2>3. QED
    BY <2>1, <2>2, QuietUsers DEF RoomSeen, Complete
<1>2. QED
  BY <1>1, ClientsInvariance, PTL

\* Once things are quiet, a client keeps a member that has gone only when its
\* arrival was announced after its departure, as CmdJoinRoom's two critical
\* sections allow, or had waited for the client since an earlier stay.
THEOREM StaleMembersAlwaysExplained ==
    ASSUME ContextsNamed
    PROVE  ClientSpec => []StaleMembersExplained
<1>1. ClientInv => StaleMembersExplained
  <2> SUFFICES ASSUME ClientInv, Quiet, NEW u \in Users, NEW r \in DOMAIN rooms,
                      cache[u].room = r,
                      NEW m \in cache[u].members \ Snapshot(r, rooms[r]).members
               PROVE  <<u, MemberEvent("JOINED", r, m[1], m[2])>> \in overtaken
    BY DEF StaleMembersExplained
  <2>1. RoomKnown(u) /\ RoomSeen(u)
    BY DEF ClientInv, UserSound
  <2>2. InRoom(u, r)
    BY <2>1, QuietUsers DEF RoomKnown
  <2>3. QED
    BY <2>1, <2>2, QuietUsers DEF RoomSeen, Explained, Arrival
<1>2. QED
  BY <1>1, ClientsInvariance, PTL

================================================================================
