-------------------------------- MODULE Matching --------------------------------
(***************************************************************************)
(* The matchmaking service of src/cmd_matching.cpp for the clients of one  *)
(* matching key: rooms, the world and lobby indices, the per-session       *)
(* matching state, and the room events the handlers push.                  *)
(*                                                                         *)
(* Every client session runs in a thread of its own and takes roomsLock    *)
(* and clientsLock separately, so a handler is a sequence of critical      *)
(* sections that other handlers may come between.  The first section of a  *)
(* handler is an action named after it; what it has still to do is queued  *)
(* in todo[u] and done by Resume.  A request a handler refuses changes     *)
(* nothing and is not a step.                                              *)
(***************************************************************************)
EXTENDS Rooms

CONSTANTS
    ContextIds,     \* ctx_id values of ContextStart; 0 is a possible value
    RoomRequests,   \* CreateRoom requests
    BlockLists,     \* users a JoinRoom request refuses to play with
    DataRequests,   \* SetRoomDataInternal requests
    U16Size,        \* 2^16, the range worldId, lobbyId and maxSlot are cut to
    MaxRooms,       \* bound: rooms ever created
    MaxBusy         \* bound: handlers between two critical sections at a time

VARIABLES
    session,        \* per user: connection, registry entry and m_matching
    rooms,          \* MatchingSharedState::rooms, by room id
    nextRoomId,     \* MatchingSharedState::nextRoomId
    worldRooms,     \* MatchingSharedState::worldRooms, as <<worldId, roomId>>
    lobbyRooms,     \* MatchingSharedState::lobbyRooms, as <<lobbyId, roomId>>
    todo,           \* per user: what the running handler has still to do
    abandoned       \* history: <<room, user>>, the memberships that the deletion
                    \* of an account has left behind

vars == <<session, rooms, nextRoomId, worldRooms, lobbyRooms, todo, abandoned>>

U16(n) == n % U16Size

---------------------------------------------------------------------------
(* Types                                                                   *)

RoomRequest ==
    [maxSlots : Nat, world : Nat, lobby : Nat, flags : SUBSET Flags,
     allowed : SUBSET Users, blocked : SUBSET Users,
     groups : Seq(Group), passwdSlotMask : SUBSET (1..NSlots),
     attr : AttrValues \cup {NoAttr}]

\* newMask says whether the request carries a passwd_slot_mask, attr is NoAttr
\* when it carries no internal attribute.
DataRequest ==
    [filter : SUBSET Flags, flags : SUBSET Flags, newMask : BOOLEAN,
     passwdSlotMask : SUBSET (1..NSlots), attr : AttrValues \cup {NoAttr}]

ASSUME RequestsAssumption ==
    /\ RoomRequests \subseteq RoomRequest
    /\ DataRequests \subseteq DataRequest
    /\ BlockLists \subseteq SUBSET Users
    /\ ContextIds \subseteq Nat
    /\ U16Size \in Nat \ {0}
    /\ MaxRooms \in Nat

\* GroupPasswordSlotMask shifts 1ull by the slot index, which is undefined for
\* an index of 64 and more: rooms larger than the masks carry no locked group.
ASSUME GroupsAssumption ==
    \A q \in RoomRequests :
        U16(q.maxSlots) > NSlots =>
            \A i \in 1..Len(q.groups) : ~q.groups[i].withPassword

Session ==
    [registered : BOOLEAN, initialized : BOOLEAN, ctxId : Nat,
     roomId : Nat, worldId : Nat, lobbyId : Nat]

\* A session object as it is constructed (matching_types.h).
FreshSession ==
    [registered |-> FALSE, initialized |-> FALSE, ctxId |-> 0,
     roomId |-> 0, worldId |-> 1, lobbyId |-> 0]

MemberEvent(event, r, id, u) ==
    [event |-> event, room |-> r, id |-> id, user |-> u, attr |-> NoAttr]

DataEvent(r, v) ==
    [event |-> "DATA", room |-> r, id |-> NoId, user |-> NoUser, attr |-> v]

(* What a handler may have left to do after its first critical section: look *)
(* up the member that joined, collect the receivers of an event, queue the   *)
(* event on their threads, drop the registry entry.                          *)
LookupTask(r, id)      == [do |-> "lookup", room |-> r, id |-> id]
NotifyTask(ev, except) == [do |-> "notify", ev |-> ev, except |-> except]
DirectTask(ev, to)     == [do |-> "direct", ev |-> ev, to |-> to]
SendTask(ev, to)       == [do |-> "send", ev |-> ev, to |-> to]
UnregisterTask         == [do |-> "unregister"]

---------------------------------------------------------------------------
(* Helpers                                                                 *)

Init ==
    /\ session = [u \in Users |-> FreshSession]
    /\ rooms = <<>>
    /\ nextRoomId = 1
    /\ worldRooms = {}
    /\ lobbyRooms = {}
    /\ todo = [u \in Users |-> <<>>]
    /\ abandoned = {}

\* The session's thread is free to take the next packet.
Idle(u) ==
    /\ session[u].registered /\ todo[u] = <<>>
    /\ Cardinality({v \in Users : todo[v] # <<>>}) < MaxBusy

InRoom(u, r) == r \in DOMAIN rooms /\ u \in UsersOf(rooms[r])

Continue(u, tasks) == todo' = [todo EXCEPT ![u] = tasks]

PutRoom(r, room) ==
    rooms' = [x \in DOMAIN rooms \cup {r} |-> IF x = r THEN room ELSE rooms[x]]

DropRoom(r) == rooms' = [x \in DOMAIN rooms \ {r} |-> rooms[x]]

\* Mutant: listed under the 16-bit id the session keeps.
ListedShort(index, id, r) == index \cup {<<U16(id), r>>}

\* A new room in the world or lobby index.
Listed(index, id, r) == index \cup {<<id, r>>}

\* Mutant: the session does not note its room.
EnteredUnnoted(u, r, room) ==
    session' = [session EXCEPT ![u].worldId = U16(room.worldId),
                               ![u].lobbyId = U16(room.lobbyId)]

\* The session's view of the room it has just created or joined.
EnteredRoom(u, r, room) ==
    session' = [session EXCEPT ![u].roomId = r,
                               ![u].worldId = U16(room.worldId),
                               ![u].lobbyId = U16(room.lobbyId)]

\* ResetMatchingRoomState: only if r is the session's current room.
ResetRoomState(u, r) ==
    session' = [session EXCEPT ![u].roomId = IF @ = r THEN 0 ELSE @]

---------------------------------------------------------------------------
(* Session life cycle                                                      *)

\* A new connection logs in: a fresh ClientSession and its registry entry.
Login(u) ==
    /\ ~session[u].registered
    /\ session' = [session EXCEPT ![u] = [FreshSession EXCEPT !.registered = TRUE]]
    /\ UNCHANGED <<rooms, nextRoomId, worldRooms, lobbyRooms, todo, abandoned>>

CmdContextStart(u, ctx) ==
    /\ Idle(u)
    /\ session' = [session EXCEPT ![u].ctxId = ctx, ![u].initialized = TRUE]
    /\ UNCHANGED <<rooms, nextRoomId, worldRooms, lobbyRooms, todo, abandoned>>

\* The context goes, the room membership stays.
CmdContextStop(u) ==
    /\ Idle(u)
    /\ session' = [session EXCEPT ![u].ctxId = 0, ![u].initialized = FALSE]
    /\ UNCHANGED <<rooms, nextRoomId, worldRooms, lobbyRooms, todo, abandoned>>

---------------------------------------------------------------------------
(* Creating and joining                                                    *)

\* The room CmdCreateRoom builds for u before it takes roomsLock.
NewRoom(u, q) ==
    LET maxSlot == U16(q.maxSlots)
        empty == [maxSlot         |-> IF maxSlot < 1 THEN 1 ELSE maxSlot,
                  worldId         |-> IF q.world # 0 THEN q.world ELSE session[u].worldId,
                  lobbyId         |-> IF q.lobby # 0 THEN q.lobby ELSE session[u].lobbyId,
                  flags           |-> q.flags \ {"FULL"},
                  allowed         |-> q.allowed,
                  blocked         |-> q.blocked,
                  groups          |-> q.groups,
                  passwdSlotMask  |-> q.passwdSlotMask,
                  slots           |-> [public |-> 0, private |-> 0,
                                       openPublic |-> 0, openPrivate |-> 0],
                  attr            |-> q.attr,
                  owner           |-> NoId,
                  members         |-> <<>>,
                  memberIdCounter |-> 0]
        id    == AllocMemberId(empty)
        owned == AddMember(empty, [user |-> u, owner |-> TRUE, blocks |-> {}])
    IN  RecomputeRoomSlotCounts([owned EXCEPT !.owner = id])

\* Nobody else sees the new room before it is inserted under roomsLock, so
\* the handler is one step.  It does not ask whether u is in a room already.
CmdCreateRoom(u, q) ==
    LET r    == nextRoomId
        room == NewRoom(u, q)
    IN  /\ Idle(u)
        /\ nextRoomId <= MaxRooms
        /\ nextRoomId' = nextRoomId + 1
        /\ EnteredRoom(u, r, room)
        /\ PutRoom(r, room)
        /\ worldRooms' = IF room.worldId # 0
                         THEN Listed(worldRooms, room.worldId, r) ELSE worldRooms
        /\ lobbyRooms' = IF room.worldId = 0 /\ room.lobbyId # 0
                         THEN Listed(lobbyRooms, room.lobbyId, r) ELSE lobbyRooms
        /\ UNCHANGED <<todo, abandoned>>

\* Mutant: only the joiner's own block list counts.
AdmitsOneSided(room, u, blocks) ==
    /\ room.allowed = {} \/ u \in room.allowed
    /\ u \notin room.blocked
    /\ \A id \in DOMAIN room.members : room.members[id].user \notin blocks

\* Neither side of a block, and no entry of the room's own lists, keeps u out.
Admits(room, u, blocks) ==
    /\ room.allowed = {} \/ u \in room.allowed
    /\ u \notin room.blocked
    /\ \A id \in DOMAIN room.members :
        /\ room.members[id].user \notin blocks
        /\ u \notin room.members[id].blocks

\* Under roomsLock.  The member just added is looked up again, after the lock
\* was released, for the event to the others.
CmdJoinRoom(u, r, blocks) ==
    LET room   == rooms[r]
        joined == Joined(room, [user |-> u, owner |-> FALSE, blocks |-> blocks])
    IN  /\ Idle(u)
        /\ ~IsFull(room)
        /\ ~InRoom(u, r)
        /\ Admits(room, u, blocks)
        /\ PutRoom(r, joined)
        /\ EnteredRoom(u, r, joined)
        /\ Continue(u, <<LookupTask(r, AllocMemberId(room))>>)
        /\ UNCHANGED <<nextRoomId, worldRooms, lobbyRooms, abandoned>>

---------------------------------------------------------------------------
(* Leaving, kicking and disconnecting                                      *)

\* The critical section CmdLeaveRoom and DoLeaveRoom share: u leaves r, and
\* the handler goes on with the MEMBER_LEFT event, if anyone is left to hear
\* it, and then with `rest'.
LeaveRoom(u, r, rest) ==
    LET room == rooms[r]
        me   == FindByNpid(room, u)
        left == NotifyTask(MemberEvent("LEFT", r, me, u), NoUser)
    IN  /\ ResetRoomState(u, r)
        /\ IF DOMAIN room.members = {me}
           THEN /\ DropRoom(r)
                /\ worldRooms' = IF room.worldId # 0
                                 THEN worldRooms \ {<<room.worldId, r>>} ELSE worldRooms
                /\ lobbyRooms' = IF room.worldId = 0 /\ room.lobbyId # 0
                                 THEN lobbyRooms \ {<<room.lobbyId, r>>} ELSE lobbyRooms
                /\ Continue(u, rest)
           ELSE /\ \E after \in AfterLeave(room, me) : PutRoom(r, after)
                /\ Continue(u, <<left>> \o rest)
                /\ UNCHANGED <<worldRooms, lobbyRooms>>
        /\ abandoned' = abandoned \ {<<r, u>>}
        /\ UNCHANGED nextRoomId

\* The room is the request's, not necessarily the session's current one.
CmdLeaveRoom(u, r) ==
    /\ Idle(u)
    /\ InRoom(u, r)
    /\ LeaveRoom(u, r, <<>>)

\* Only the owner, not himself; the kicked session's own state is not touched.
CmdKickoutRoomMember(u, r, target, block) ==
    LET room == rooms[r]
        t    == room.members[target].user
        rest == Departed(room, target)
    IN  /\ Idle(u)
        /\ InRoom(u, r)
        /\ room.owner = FindByNpid(room, u)
        /\ target # room.owner
        /\ target \in DOMAIN room.members
        /\ PutRoom(r, IF block THEN [rest EXCEPT !.blocked = @ \cup {t}] ELSE rest)
        /\ Continue(u, <<DirectTask(MemberEvent("KICKEDOUT", r, NoId, NoUser), t),
                         NotifyTask(MemberEvent("LEFT", r, target, t), t)>>)
        /\ abandoned' = abandoned \ {<<r, t>>}
        /\ UNCHANGED <<session, nextRoomId, worldRooms, lobbyRooms>>

\* CleanupOnDisconnect: DoLeaveRoom for the session's current room, if a
\* context was started, and then the registry entry goes.
Disconnect(u) ==
    LET r == session[u].roomId
    IN  /\ Idle(u)
        /\ IF session[u].initialized /\ r # 0 /\ InRoom(u, r)
           THEN LeaveRoom(u, r, <<UnregisterTask>>)
           ELSE /\ Continue(u, <<UnregisterTask>>)
                /\ UNCHANGED <<session, rooms, nextRoomId, worldRooms, lobbyRooms, abandoned>>

---------------------------------------------------------------------------
(* Room data                                                               *)

\* Any session may update any room.
CmdSetRoomDataInternal(u, r, q) ==
    LET flagged == WithFlags(rooms[r], q.filter, q.flags)
        masked  == IF q.newMask
                   THEN RecomputeRoomSlotCounts(
                            [flagged EXCEPT !.passwdSlotMask = q.passwdSlotMask])
                   ELSE flagged
    IN  /\ Idle(u)
        /\ PutRoom(r, [masked EXCEPT !.attr = IF q.attr = NoAttr THEN @ ELSE q.attr])
        /\ Continue(u, <<NotifyTask(DataEvent(r, q.attr), u)>>)
        /\ UNCHANGED <<session, nextRoomId, worldRooms, lobbyRooms, abandoned>>

---------------------------------------------------------------------------
(* The rest of a handler                                                   *)

\* CmdJoinRoom's second critical section: a member no longer there leaves
\* joinedCopy default-constructed.
Lookup(u, task) ==
    LET there == task.room \in DOMAIN rooms /\ task.id \in DOMAIN rooms[task.room].members
        copy  == IF there
                 THEN MemberEvent("JOINED", task.room, task.id,
                                  rooms[task.room].members[task.id].user)
                 ELSE MemberEvent("JOINED", task.room, NoId, NoUser)
    IN  /\ Continue(u, <<NotifyTask(copy, u)>>)
        /\ UNCHANGED session

\* Mutants: nobody outside the room is notified; nor is the owner.
RecipientsInside(task) ==
    LET r == task.ev.room
        audience == IF r \notin DOMAIN rooms THEN {}
                    ELSE IF task.do = "direct" THEN {task.to} \cap UsersOf(rooms[r])
                    ELSE UsersOf(rooms[r]) \ {task.except}
    IN  {v \in audience : session[v].registered /\ session[v].ctxId # 0}

RecipientsButOwner(task) ==
    LET r == task.ev.room
        owner == IF r \in DOMAIN rooms THEN rooms[r].members[rooms[r].owner].user ELSE NoUser
        audience == IF task.do = "direct" THEN {task.to}
                    ELSE IF r \in DOMAIN rooms THEN UsersOf(rooms[r]) \ {task.except, owner}
                    ELSE {}
    IN  {v \in audience : session[v].registered /\ session[v].ctxId # 0}

\* NotifyRoomMembers asks for the members at the time of the call, except one,
\* SendMatchingNotification for one user; both drop those without a context.
Recipients(task) ==
    LET r == task.ev.room
        audience == IF task.do = "direct" THEN {task.to}
                    ELSE IF r \in DOMAIN rooms THEN UsersOf(rooms[r]) \ {task.except}
                    ELSE {}
    IN  {v \in audience : session[v].registered /\ session[v].ctxId # 0}

\* Under the locks: the senders of the receivers are copied.
Collect(u, task) ==
    /\ Continue(u, <<SendTask(task.ev, Recipients(task))>> \o Tail(todo[u]))
    /\ UNCHANGED session

\* After the locks: the event is queued on the receivers' threads.  The queues
\* are not the server's state; MatchingClients has them.
Send(u) ==
    /\ Continue(u, Tail(todo[u]))
    /\ UNCHANGED session

\* An event on its way to a session that goes is lost.  (A sender copied under
\* the lock and called after it then reaches a destroyed ClientSession, which
\* is undefined; losing the event is the outcome that lets the server go on.)
Forgets(tasks, u) ==
    [i \in DOMAIN tasks |->
        IF tasks[i].do = "send" THEN [tasks[i] EXCEPT !.to = @ \ {u}] ELSE tasks[i]]

\* Mutant: the registry entry stays.
UnregisterForgotten(u) ==
    /\ session' = [session EXCEPT ![u] = [FreshSession EXCEPT !.registered = TRUE]]
    /\ todo' = [v \in Users |-> IF v = u THEN <<>> ELSE Forgets(todo[v], u)]

\* The registry entry and the session object are gone.
Unregister(u) ==
    /\ session' = [session EXCEPT ![u] = FreshSession]
    /\ todo' = [v \in Users |-> IF v = u THEN <<>> ELSE Forgets(todo[v], u)]

Resume(u) ==
    /\ todo[u] # <<>>
    /\ LET task == Head(todo[u])
       IN  \/ task.do = "lookup" /\ Lookup(u, task)
           \/ task.do \in {"notify", "direct"} /\ Collect(u, task)
           \/ task.do = "send" /\ Send(u)
           \/ task.do = "unregister" /\ Unregister(u)
    /\ UNCHANGED <<rooms, nextRoomId, worldRooms, lobbyRooms, abandoned>>

---------------------------------------------------------------------------
(* Deleting the own account                                                *)

\* The registry entry goes and the session counts as not authenticated, so
\* the end of its connection, which the handler queues, cleans up nothing: the
\* rooms keep their member.  The name may be given to a new account.
CmdDelete(u) ==
    /\ Idle(u)
    /\ Unregister(u)
    /\ abandoned' = abandoned \cup {<<r, u>> : r \in {x \in DOMAIN rooms : InRoom(u, x)}}
    /\ UNCHANGED <<rooms, nextRoomId, worldRooms, lobbyRooms>>

---------------------------------------------------------------------------
Next ==
    \E u \in Users :
        \/ Login(u)
        \/ \E ctx \in ContextIds : CmdContextStart(u, ctx)
        \/ CmdContextStop(u)
        \/ \E q \in RoomRequests : CmdCreateRoom(u, q)
        \/ \E r \in DOMAIN rooms :
            \/ \E blocks \in BlockLists : CmdJoinRoom(u, r, blocks)
            \/ CmdLeaveRoom(u, r)
            \/ \E target \in DOMAIN rooms[r].members, block \in BOOLEAN :
                CmdKickoutRoomMember(u, r, target, block)
            \/ \E q \in DataRequests : CmdSetRoomDataInternal(u, r, q)
        \/ Disconnect(u)
        \/ Resume(u)
        \/ CmdDelete(u)

Spec == Init /\ [][Next]_vars

---------------------------------------------------------------------------
(* Properties                                                              *)

Event ==
    [event : {"JOINED", "LEFT", "KICKEDOUT", "DATA"}, room : Nat,
     id : MemberIds \cup {NoId}, user : Users \cup {NoUser},
     attr : AttrValues \cup {NoAttr}]

Task ==
    [do : {"lookup"}, room : Nat, id : MemberIds]
        \cup [do : {"notify"}, ev : Event, except : Users \cup {NoUser}]
        \cup [do : {"direct"}, ev : Event, to : Users]
        \cup [do : {"send"}, ev : Event, to : SUBSET Users]
        \cup [do : {"unregister"}]

\* The type of every variable, whatever the requests and their interleaving.
TypeOK ==
    /\ session \in [Users -> Session]
    /\ nextRoomId \in Nat \ {0}
    /\ DOMAIN rooms \subseteq 1..(nextRoomId - 1)
    /\ \A r \in DOMAIN rooms : RoomOK(rooms[r])
    /\ worldRooms \subseteq Nat \X Nat
    /\ lobbyRooms \subseteq Nat \X Nat
    /\ todo \in [Users -> Seq(Task)]
    /\ abandoned \subseteq Nat \X Users

\* No room outlives its last member, its owner is one of its members through
\* every hand-over (CmdLeaveRoom, DoLeaveRoom) and kick, and the OWNER bit of
\* the members agrees with ownerMemberId, which the replies are built from.
OwnerPresent ==
    \A r \in DOMAIN rooms :
        /\ rooms[r].owner \in DOMAIN rooms[r].members
        /\ Fits(rooms[r]) =>
            \A id \in DOMAIN rooms[r].members :
                rooms[r].members[id].owner <=> id = rooms[r].owner

\* A user is in a room once, under one member id, however often he joins,
\* leaves, is kicked or reconnects: findByNpid is unambiguous.
OneEntryPerUser ==
    \A r \in DOMAIN rooms :
        \A i, j \in DOMAIN rooms[r].members :
            rooms[r].members[i].user = rooms[r].members[j].user => i = j

\* No room is over capacity, and the FULL bit a search reads is never left set
\* on a room that has space again.
CapacityRespected ==
    \A r \in DOMAIN rooms :
        /\ Cardinality(DOMAIN rooms[r].members) <= rooms[r].maxSlot
        /\ "FULL" \in rooms[r].flags => IsFull(rooms[r])

\* The cached counters describe the room as it is: every slot is public or
\* private, and open slots and members together make up the capacity.
SlotAccounting ==
    \A r \in DOMAIN rooms :
        LET room == rooms[r]
        IN  /\ room.slots = SlotCounts(room)
            /\ Fits(room) =>
                /\ room.slots.public + room.slots.private = room.maxSlot
                /\ room.slots.openPublic + room.slots.openPrivate
                    + Cardinality(DOMAIN room.members) = room.maxSlot

\* Blocks hold for as long as both parties are in the room: no member sits
\* with one he blocked when joining, and nobody kicked with the block flag is
\* back.  (An owner may have put himself on the list of his own room.)
BlocksHonoured ==
    \A r \in DOMAIN rooms :
        LET room == rooms[r]
        IN  \A i \in DOMAIN room.members :
                /\ room.members[i].user \in room.blocked => i = room.owner
                /\ \A j \in DOMAIN room.members \ {i} :
                        room.members[j].user \notin room.members[i].blocks

\* Every room is listed under its world, or under its lobby if it has no
\* world, and the indices hold no room that is gone.
IndexExact ==
    /\ worldRooms = {<<rooms[r].worldId, r>> :
                        r \in {x \in DOMAIN rooms : rooms[x].worldId # 0}}
    /\ lobbyRooms = {<<rooms[r].lobbyId, r>> :
                        r \in {x \in DOMAIN rooms : rooms[x].worldId = 0 /\ rooms[x].lobbyId # 0}}

(* The abstract service this implements.                                   *)

roster == [r \in DOMAIN rooms |-> UsersOf(rooms[r])]
host == [r \in DOMAIN rooms |-> rooms[r].members[rooms[r].owner].user]
capacity == [r \in DOMAIN rooms |-> rooms[r].maxSlot]

Service == INSTANCE RoomService WITH
    opened <- nextRoomId - 1,
    Capacities <- 1..U16Size

\* The handlers, whatever their interleaving, give what RoomService promises:
\* capacity, one live host who alone expels, rooms that close for good.
ServiceSpec == Service!Spec

---------------------------------------------------------------------------
(* Clients that keep to one room                                           *)

\* A membership of u that no deleted account has left behind.
Belongs(u, r) == InRoom(u, r) /\ <<r, u>> \notin abandoned

Roomless(u) == \A r \in DOMAIN rooms : ~Belongs(u, r)

\* Clients that start a context before they enter a room, leave the room
\* before they enter another, and do not stop the context inside one.  The
\* handlers do not insist on it.
KeepsToOneRoom(u) ==
    LET enters == \E r \in DOMAIN rooms' : u \in UsersOf(rooms'[r]) /\ ~InRoom(u, r)
        stops  == session[u].initialized /\ ~session'[u].initialized
    IN  /\ enters => session[u].initialized /\ Roomless(u)
        /\ stops /\ session'[u].registered => Roomless(u)

OneRoomNext == Next /\ \A u \in Users : KeepsToOneRoom(u)

\* A started handler runs to its end: nothing in it waits but the locks, and
\* no lock is held across a wait.
OneRoomSpec ==
    Init /\ [][OneRoomNext]_vars /\ \A u \in Users : WF_vars(Resume(u))

\* A session that is gone is in no room: the members of a room are registered
\* sessions that run a context and whose current room is that room, so a
\* member that disconnects leaves the room it is in.  The one exception is a
\* member whose account was deleted while it was in the room: CmdDelete leaves
\* it there, and a later session under the same name does not know the room.
NoGhostMembers ==
    \A r \in DOMAIN rooms : \A u \in UsersOf(rooms[r]) : Belongs(u, r) =>
        /\ session[u].registered /\ session[u].initialized
        /\ session[u].roomId = r

\* Disconnect cleanup as documentation/matching.md has it: "the server
\* automatically calls DoLeaveRoom if the client is in a room".  (Here of the
\* clients whose account is not deleted; for the others CmdDelete sees to it
\* that it never does.)
DisconnectLeavesRooms ==
    \A u \in Users : session[u].registered \/ Roomless(u)

\* A session that starts to disconnect ends: its departure is collected and
\* sent and its registry entry goes, and it is in no room but one that an
\* earlier account of its name was deleted in.
DisconnectCompletes ==
    \A u \in Users :
        (\E i \in 1..Len(todo[u]) : todo[u][i].do = "unregister")
            ~> (~session[u].registered /\ Roomless(u))
================================================================================
