---------------------------- MODULE MatchingClients ----------------------------
(***************************************************************************)
(* Matching together with what is at the other end: the per-thread queues  *)
(* the room events travel in, and the local room cache that the emulator   *)
(* keeps from replies and events (documentation/matching.md, Overview).    *)
(* The emulator is not in the repository; its cache is modelled from the   *)
(* messages the server sends it and from the sample client.                *)
(*                                                                         *)
(* A client here waits for replies, is in one room at a time as far as it  *)
(* can tell from its cache, and keeps its context while it is in a room.   *)
(***************************************************************************)
EXTENDS Matching

CONSTANTS
    MaxJoins,   \* bound: members a room ever admits
    MaxQueue    \* bound: no data is set while so many events wait for a user

\* The counter in a member id does not come round within the bound.
ASSUME JoinsAssumption == MaxJoins \in Nat /\ MaxJoins < IdCycle /\ MaxQueue \in Nat

VARIABLES
    inbox,      \* per user: events queued on the session's thread
    reply,      \* per user: the cache a reply not yet written will leave
    cache,      \* per user: the room the client believes it is in
    overtaken   \* history: receiver and event, for the events that a later
                \* change of the room had overtaken

clientVars == <<inbox, reply, cache, overtaken>>
allVars == <<vars, clientVars>>

NoRoom == [room |-> 0, members |-> {}, attr |-> NoAttr]

Snapshot(r, room) ==
    [room |-> r, attr |-> room.attr,
     members |-> {<<id, room.members[id].user>> : id \in DOMAIN room.members}]

\* What an event does to a client's cache.
Cached(old, ev) ==
    IF ev.room # old.room THEN old
    ELSE IF ev.event = "JOINED"
         THEN [old EXCEPT !.members = @ \cup {<<ev.id, ev.user>>}]
    ELSE IF ev.event = "LEFT"
         THEN [old EXCEPT !.members = {m \in @ : m[1] # ev.id}]
    ELSE IF ev.event = "KICKEDOUT" THEN NoRoom
    ELSE [old EXCEPT !.attr = IF ev.attr = NoAttr THEN @ ELSE ev.attr]

ClientInit ==
    /\ Init
    /\ inbox = [u \in Users |-> <<>>]
    /\ reply = [u \in Users |-> NoRoom]
    /\ cache = [u \in Users |-> NoRoom]
    /\ overtaken = {}

---------------------------------------------------------------------------
(* Requests: the client acts on its cache.                                 *)

Starts(u) ==
    /\ \/ Login(u)
       \/ /\ ~session[u].initialized
          /\ \E ctx \in ContextIds : CmdContextStart(u, ctx)
       \/ /\ cache[u] = NoRoom /\ session[u].initialized
          /\ CmdContextStop(u)
    /\ UNCHANGED clientVars

Creates(u) ==
    /\ session[u].initialized /\ cache[u] = NoRoom
    /\ \E q \in RoomRequests : CmdCreateRoom(u, q)
    /\ cache' = [cache EXCEPT ![u] = Snapshot(nextRoomId, rooms'[nextRoomId])]
    /\ UNCHANGED <<inbox, reply, overtaken>>

\* An arrival that is announced when the member has gone again.
AnnouncesTheGone(ev) ==
    /\ ev.event = "JOINED"
    /\ ev.room \notin DOMAIN rooms \/ ev.id \notin DOMAIN rooms[ev.room].members

\* What still waits for u from an earlier stay in r, and is out of date.
OutOfDate(u, r) == {inbox[u][i] : i \in {j \in 1..Len(inbox[u]) :
                        inbox[u][j].room = r /\ AnnouncesTheGone(inbox[u][j])}}

\* The reply is built under the lock and written when the handler ends.
Joins(u) ==
    /\ session[u].initialized /\ cache[u] = NoRoom
    /\ \E r \in DOMAIN rooms, blocks \in BlockLists :
        /\ rooms[r].memberIdCounter < MaxJoins
        /\ CmdJoinRoom(u, r, blocks)
        /\ reply' = [reply EXCEPT ![u] = Snapshot(r, rooms'[r])]
        /\ overtaken' = overtaken \cup ({u} \X OutOfDate(u, r))
    /\ UNCHANGED <<inbox, cache>>

\* With nobody left to notify the handler, and with it the reply, is at its end.
Leaves(u) ==
    /\ \E r \in DOMAIN rooms : r = cache[u].room /\ CmdLeaveRoom(u, r)
    /\ reply' = [reply EXCEPT ![u] = NoRoom]
    /\ cache' = IF todo'[u] = <<>> THEN [cache EXCEPT ![u] = NoRoom] ELSE cache
    /\ UNCHANGED <<inbox, overtaken>>

Kicks(u) ==
    /\ \E r \in DOMAIN rooms : \E target \in DOMAIN rooms[r].members, block \in BOOLEAN :
        r = cache[u].room /\ CmdKickoutRoomMember(u, r, target, block)
    /\ reply' = [reply EXCEPT ![u] = cache[u]]
    /\ UNCHANGED <<inbox, cache, overtaken>>

\* A sender is told of its own update by the reply, not by an event.
SetsData(u) ==
    /\ \A v \in Users : Len(inbox[v]) < MaxQueue
    /\ \E r \in DOMAIN rooms, q \in DataRequests :
        /\ r = cache[u].room /\ CmdSetRoomDataInternal(u, r, q)
        /\ reply' = [reply EXCEPT ![u] = Cached(cache[u], DataEvent(r, q.attr))]
    /\ UNCHANGED <<inbox, cache, overtaken>>

\* The connection is lost; what was queued for it is never written.
Drops(u) ==
    /\ Disconnect(u)
    /\ inbox' = [inbox EXCEPT ![u] = <<>>]
    /\ reply' = [reply EXCEPT ![u] = NoRoom]
    /\ cache' = [cache EXCEPT ![u] = NoRoom]
    /\ UNCHANGED overtaken

\* The account is deleted, and the connection ends.  The client of a later
\* account of the name starts with an empty cache.
Deletes(u) ==
    /\ CmdDelete(u)
    /\ inbox' = [inbox EXCEPT ![u] = <<>>]
    /\ reply' = [reply EXCEPT ![u] = NoRoom]
    /\ cache' = [cache EXCEPT ![u] = NoRoom]
    /\ UNCHANGED overtaken

---------------------------------------------------------------------------
(* Replies and events                                                      *)

Connected(u) == session[u].registered /\ UnregisterTask \notin {todo[u][i] : i \in 1..Len(todo[u])}

\* A step of a handler: a send task fills the queues, and at the end the reply
\* is written.
Resumes(u) ==
    LET task == Head(todo[u])
        last == Len(todo'[u]) = 0
    IN  /\ Resume(u)
        /\ inbox' = [v \in Users |->
                        IF task.do = "send" /\ v \in task.to /\ Connected(v)
                        THEN Append(inbox[v], task.ev) ELSE inbox[v]]
        /\ cache' = IF last THEN [cache EXCEPT ![u] = reply[u]] ELSE cache
        /\ reply' = IF last THEN [reply EXCEPT ![u] = NoRoom] ELSE reply
        /\ overtaken' = IF task.do = "send" /\ AnnouncesTheGone(task.ev)
                        THEN overtaken \cup (task.to \X {task.ev}) ELSE overtaken

\* The thread's event loop writes the next queued event.  A KICKEDOUT may find
\* its receiver back in the room.
Deliver(u) ==
    LET ev == Head(inbox[u])
    IN  /\ Connected(u) /\ todo[u] = <<>>
        /\ inbox[u] # <<>>
        /\ cache' = [cache EXCEPT ![u] = Cached(@, ev)]
        /\ inbox' = [inbox EXCEPT ![u] = Tail(@)]
        /\ overtaken' = IF ev.event = "KICKEDOUT" /\ InRoom(u, ev.room)
                        THEN overtaken \cup {<<u, ev>>} ELSE overtaken
        /\ UNCHANGED <<vars, reply>>

ClientNext ==
    \E u \in Users :
        \/ Starts(u) \/ Creates(u) \/ Joins(u) \/ Leaves(u) \/ Kicks(u)
        \/ SetsData(u) \/ Drops(u) \/ Deletes(u) \/ Resumes(u) \/ Deliver(u)

ClientSpec == ClientInit /\ [][ClientNext]_allVars

---------------------------------------------------------------------------
(* Properties                                                              *)

\* Nothing is under way: no handler runs and no event is queued.
Quiet == \A u \in Users : todo[u] = <<>> /\ inbox[u] = <<>>

\* Once things are quiet, a client that believes it is in a room is, and one
\* the server has in a room knows, unless the notice of an earlier kick reached
\* it after it had reconnected and joined again, or the membership is one that
\* an account of its name was deleted in.
CacheKnowsRoom ==
    Quiet => \A u \in Users : \A r \in DOMAIN rooms :
        /\ cache[u].room = r => InRoom(u, r)
        /\ Belongs(u, r) => cache[u].room = r
                \/ <<u, MemberEvent("KICKEDOUT", r, NoId, NoUser)>> \in overtaken

\* Once things are quiet, no client misses a member of its room, in whatever
\* order the joins, leaves and kicks of several threads were announced.
CacheComplete ==
    Quiet => \A u \in Users : \A r \in DOMAIN rooms :
        cache[u].room = r => Snapshot(r, rooms[r]).members \subseteq cache[u].members

\* A client may keep a member that has gone, but only one whose arrival was
\* announced after its departure, by a kick between CmdJoinRoom's sections, or
\* had waited for the client since it was in the room before.
StaleMembersExplained ==
    Quiet => \A u \in Users : \A r \in DOMAIN rooms :
        cache[u].room = r =>
            \A m \in cache[u].members \ Snapshot(r, rooms[r]).members :
                <<u, MemberEvent("JOINED", r, m[1], m[2])>> \in overtaken
================================================================================
