---------------------------- MODULE WebApiSessions ----------------------------
(***************************************************************************)
(* The sessions of the Web API, the parties that games make and invite     *)
(* each other to: src/webapi_routes_session.cpp on SharedState::sessions   *)
(* and invitations, and what logging in and out (src/client_session.cpp,   *)
(* src/cmd_account.cpp) does to them.                                      *)
(*                                                                         *)
(* One thread serves the Web API, a request at a time.  A request that     *)
(* needs its user online looks that up under clientsLock and goes on under *)
(* sessionsLock, which is a step of its own; the threads of the client     *)
(* sessions log users in and out meanwhile.  The other requests are one    *)
(* critical section.  A request that changes nothing is no step, unless it *)
(* has looked the user up before.                                          *)
(*                                                                         *)
(* A user has one connection at a time.  Texts, platforms, priorities,     *)
(* times and binary data are left out, and so are the notices to the       *)
(* members, which change nothing on the server.                            *)
(***************************************************************************)
EXTENDS Integers, Sequences, FiniteSets, SequencesExt

CONSTANTS
    Users,          \* accounts there are at first
    NoUser,         \* nobody
    NoSession,      \* the session of a slot that is free
    SessionIds,     \* names for the sessions there are at a time
    InvitationIds,  \* bound: invitations ever sent
    Indices,        \* session slots of a user (64, says client_session.h:114)
    Settings        \* what a request may set a session to

MostMembers == 256

ASSUME NobodyAssumption == NoUser \notin Users /\ NoSession \notin SessionIds
ASSUME SettingsAssumption ==
    Settings \subseteq [privacy : {"public", "private"}, max : Int, locked : BOOLEAN]

VARIABLES
    connection, \* per user: how far its connection has come
    sessions,   \* SharedState::sessions, by id
    invitations,\* SharedState::invitations, by id
    checked,    \* the user whose request was found online, or NoUser
    late        \* history: users that became or stayed members when gone

vars == <<connection, sessions, invitations, checked, late>>

Types == {"owner-bind", "owner-migration"}
Member == [user : Users, index : Indices]
Session == [type : Types, owner : Users, setting : Settings, members : Seq(Member)]
Invitation == [session : SessionIds, to : Users, used : BOOLEAN]

Init ==
    /\ connection = [u \in Users |-> "none"]
    /\ sessions = <<>>
    /\ invitations = <<>>
    /\ checked = NoUser
    /\ late = {}

---------------------------------------------------------------------------
(* Who is in a session, and who may do and see what.                       *)

MembersOf(s) == {s.members[k].user : k \in DOMAIN s.members}

\* The entry of the user in SharedState::clients.
Registered(u) == connection[u] \in {"open", "purged"}
\* Whose token the database knows.
HasAccount(u) == connection[u] # "deleted"

\* The first place of the user in the list of members.
PlaceOf(s, u) ==
    CHOOSE k \in DOMAIN s.members :
        s.members[k].user = u /\ \A j \in 1..(k - 1) : s.members[j].user # u

\* SessionPermissionError
MayChange(u, s) == IF s.type = "owner-bind" THEN u = s.owner ELSE u \in MembersOf(s)

\* A mutant: an invitation to any session counts.
InvitedAnywhere(u, id) == \E n \in DOMAIN invitations : invitations[n].to = u /\ ~invitations[n].used

\* HasActiveInvitation; none ever expires (INVITATION_TTL_MS is 0).
Invited(u, id) ==
    \E n \in DOMAIN invitations :
        invitations[n].to = u /\ invitations[n].session = id /\ ~invitations[n].used

MaySee(u, id) ==
    \/ sessions[id].setting.privacy # "private"
    \/ u \in MembersOf(sessions[id])
    \/ Invited(u, id)

\* The sessions of v that a listing may show to u.
CollectUserSessions(v, u) == {id \in DOMAIN sessions : v \in MembersOf(sessions[id]) /\ MaySee(u, id)}

Limit(s) == IF s.setting.max > 0 /\ s.setting.max < MostMembers THEN s.setting.max ELSE MostMembers

\* A mutant: a session is never full.
AdmitsUnlocked(s) == ~s.setting.locked

Admits(s) == ~s.setting.locked /\ Len(s.members) < Limit(s)

---------------------------------------------------------------------------
(* Departures.                                                             *)

\* The session ends with its k-th member: the owner it is bound to, or the last.
EndsWith(s, k) ==
    Len(s.members) = 1 \/ (s.type = "owner-bind" /\ s.owner = s.members[k].user)

\* Mutants: the latest comer inherits the session; nobody does.
LeftToLatest(s, k) ==
    LET rest == RemoveAt(s.members, k)
    IN  [s EXCEPT !.members = rest,
                  !.owner = IF s.owner = s.members[k].user THEN rest[Len(rest)].user ELSE s.owner]
LeftToNobody(s, k) ==
    LET rest == RemoveAt(s.members, k)
    IN  [s EXCEPT !.members = rest,
                  !.owner = IF s.owner = s.members[k].user THEN NoUser ELSE s.owner]
LeftAlone(s, k) == [s EXCEPT !.members = RemoveAt(s.members, k)]

\* Otherwise an owner that goes leaves it to the first of those who stay.
LeftBy(s, k) ==
    LET rest == RemoveAt(s.members, k)
    IN  [s EXCEPT !.members = rest,
                  !.owner = IF s.owner = s.members[k].user THEN rest[1].user ELSE s.owner]

\* What is left of the sessions when the member at places[id] leaves each id.
Without(places) ==
    [id \in {x \in DOMAIN sessions : x \in DOMAIN places => ~EndsWith(sessions[x], places[x])} |->
        IF id \in DOMAIN places THEN LeftBy(sessions[id], places[id]) ELSE sessions[id]]

\* A mutant: a user is removed from the sessions it owns.
RemoveOwner(u, S) ==
    Without([id \in {x \in S : u = sessions[x].owner} |-> PlaceOf(sessions[id], u)])

RemoveMember(u, S) ==
    Without([id \in {x \in S : u \in MembersOf(sessions[x])} |-> PlaceOf(sessions[id], u)])

AnyOf(S) == CHOOSE x \in S : TRUE

\* The session the user holds under the index, if any.
HeldAt(u, i) ==
    {id \in DOMAIN sessions : \E k \in DOMAIN sessions[id].members :
        sessions[id].members[k] = [user |-> u, index |-> i]}

LeaveSessionAtIndex(u, i) ==
    IF HeldAt(u, i) = {} THEN sessions
    ELSE LET id == AnyOf(HeldAt(u, i))
             k == CHOOSE j \in DOMAIN sessions[id].members :
                    sessions[id].members[j] = [user |-> u, index |-> i]
         IN  Without([x \in {id} |-> k])

---------------------------------------------------------------------------
(* Logging in and out, in the threads of the client sessions.              *)

Login(u) ==
    /\ connection[u] = "none"
    /\ connection' = [connection EXCEPT ![u] = "open"]
    /\ UNCHANGED <<sessions, invitations, checked, late>>

\* CleanupOnDisconnect purges the sessions while the user is still listed.
PurgeUserFromSessions(u) ==
    /\ connection[u] = "open"
    /\ connection' = [connection EXCEPT ![u] = "purged"]
    /\ sessions' = RemoveMember(u, DOMAIN sessions)
    /\ late' = late \ {u}
    /\ UNCHANGED <<invitations, checked>>

CleanupOnDisconnect(u) ==
    /\ connection[u] = "purged"
    /\ connection' = [connection EXCEPT ![u] = "none"]
    /\ UNCHANGED <<sessions, invitations, checked, late>>

\* Deleting one's own account unlists the user and marks the connection as not
\* logged in: its end purges nothing.
CmdDelete(u) ==
    /\ connection[u] = "open"
    /\ connection' = [connection EXCEPT ![u] = "deleted"]
    /\ late' = IF \E id \in DOMAIN sessions : u \in MembersOf(sessions[id])
               THEN late \cup {u} ELSE late
    /\ UNCHANGED <<sessions, invitations, checked>>

---------------------------------------------------------------------------
(* Creating and joining: the user is looked up, then the change is made.   *)

FindOnline(u) ==
    /\ checked = NoUser
    /\ HasAccount(u) /\ Registered(u)
    /\ checked' = u
    /\ UNCHANGED <<connection, sessions, invitations, late>>

\* The user of the request becomes a member.
Enters(u) ==
    /\ checked = u /\ checked' = NoUser
    /\ late' = IF connection[u] = "open" THEN late ELSE late \cup {u}
    /\ UNCHANGED <<connection, invitations>>

\* A name stands for another session once nothing refers to the last one.
FreshSession(id) ==
    id \notin DOMAIN sessions /\ \A n \in DOMAIN invitations : invitations[n].session # id

HandleSessionCreate(u, id, type, setting, i) ==
    /\ Enters(u)
    /\ FreshSession(id) /\ setting.max > 0
    /\ LET others == LeaveSessionAtIndex(u, i)
           new == [type |-> type, owner |-> u, setting |-> setting,
                   members |-> <<[user |-> u, index |-> i]>>]
       IN  sessions' = [x \in DOMAIN others \cup {id} |-> IF x = id THEN new ELSE others[x]]

HandleSessionJoin(u, id, i) ==
    /\ Enters(u)
    /\ id \in DOMAIN sessions
    /\ u \notin MembersOf(sessions[id]) /\ Admits(sessions[id])
    /\ sessions' = [LeaveSessionAtIndex(u, i) EXCEPT
                        ![id].members = Append(@, [user |-> u, index |-> i])]

\* Not found, locked, full, or joined already.
Refuse ==
    /\ checked # NoUser
    /\ checked' = NoUser
    /\ UNCHANGED <<connection, sessions, invitations, late>>

---------------------------------------------------------------------------
(* Requests of one critical section.  Their user need not be online.       *)

Asks(u, id) == checked = NoUser /\ HasAccount(u) /\ id \in DOMAIN sessions

HandleSessionUpdate(u, id, setting) ==
    /\ Asks(u, id) /\ MayChange(u, sessions[id])
    /\ sessions' = [sessions EXCEPT ![id].setting = setting]
    /\ UNCHANGED <<connection, invitations, checked, late>>

HandleSessionDelete(u, id) ==
    /\ Asks(u, id) /\ MayChange(u, sessions[id])
    /\ sessions' = [x \in DOMAIN sessions \ {id} |-> sessions[x]]
    /\ UNCHANGED <<connection, invitations, checked, late>>

HandleSessionLeave(u, id, target) ==
    /\ Asks(u, id)
    /\ target = u \/ sessions[id].owner = u
    /\ sessions' = RemoveMember(target, {id})
    /\ UNCHANGED <<connection, invitations, checked, late>>

\* One invitation for each addressee.
HandleSessionInvite(u, id, to) ==
    /\ Asks(u, id)
    /\ \E sent \in SUBSET (InvitationIds \ DOMAIN invitations) :
        \E for \in Bijection(sent, to) :
            invitations' = [n \in DOMAIN invitations \cup sent |->
                IF n \in sent THEN [session |-> id, to |-> for[n], used |-> FALSE]
                ELSE invitations[n]]
    /\ UNCHANGED <<connection, sessions, checked, late>>

HandleInvitationUse(u, n) ==
    /\ checked = NoUser /\ HasAccount(u)
    /\ n \in DOMAIN invitations /\ invitations[n].to = u /\ ~invitations[n].used
    /\ invitations' = [invitations EXCEPT ![n].used = TRUE]
    /\ UNCHANGED <<connection, sessions, checked, late>>

Next ==
    \/ Refuse
    \/ \E u \in Users :
        \/ Login(u) \/ PurgeUserFromSessions(u) \/ CleanupOnDisconnect(u) \/ CmdDelete(u)
        \/ FindOnline(u)
        \/ \E to \in SUBSET Users \ {{}}, id \in SessionIds : HandleSessionInvite(u, id, to)
        \/ \E n \in InvitationIds : HandleInvitationUse(u, n)
        \/ \E id \in SessionIds :
            \/ \E type \in Types, setting \in Settings, i \in Indices :
                HandleSessionCreate(u, id, type, setting, i)
            \/ \E i \in Indices : HandleSessionJoin(u, id, i)
            \/ \E setting \in Settings : HandleSessionUpdate(u, id, setting)
            \/ HandleSessionDelete(u, id)
            \/ \E target \in Users : HandleSessionLeave(u, id, target)

Spec == Init /\ [][Next]_vars

---------------------------------------------------------------------------
(* What must hold.                                                         *)

TypeOK ==
    /\ connection \in [Users -> {"none", "open", "purged", "deleted"}]
    /\ DOMAIN sessions \subseteq SessionIds /\ sessions \in [DOMAIN sessions -> Session]
    /\ DOMAIN invitations \subseteq InvitationIds
    /\ invitations \in [DOMAIN invitations -> Invitation]
    /\ checked \in Users \cup {NoUser}
    /\ late \subseteq Users

\* However owners and members come, go and are expelled, a session has members,
\* each of them once, and belongs to the one who has been in it the longest.
OwnerIsSenior ==
    \A id \in DOMAIN sessions :
        LET m == sessions[id].members
        IN  /\ m # <<>> /\ sessions[id].owner = m[1].user
            /\ \A j, k \in DOMAIN m : m[j].user = m[k].user => j = k

\* A user holds one session at most under each index: creating or joining under
\* an index gives up the session held there.
OneSessionPerIndex ==
    \A u \in Users, i \in Indices : \A id, other \in HeldAt(u, i) : id = other

\* Members are online, but for those who were let in by a request checked before
\* they were purged, or who have deleted their account.
MembersAreOnline ==
    \A id \in DOMAIN sessions : \A u \in MembersOf(sessions[id]) :
        connection[u] = "open" \/ u \in late

\* Those who stay in a session keep their order and the session its owner, unless
\* it is left by an owner it is not bound to; whoever comes found it open.
Succeeds(was, is) ==
    LET stay == MembersOf(was) \cap MembersOf(is)
    IN  /\ was.owner # is.owner => was.type # "owner-bind" /\ was.owner \notin MembersOf(is)
        /\ \A u, v \in stay : PlaceOf(was, u) < PlaceOf(was, v) => PlaceOf(is, u) < PlaceOf(is, v)
        /\ \A u \in MembersOf(is) \ stay :
            PlaceOf(is, u) = Len(is.members) /\ ~was.setting.locked /\ Len(is.members) <= Limit(was)

\* An owner-bound session never changes hands, and no session does while its
\* owner stays; comers join at the end of a session that is open and has room,
\* whatever it is set to later.
SeniorityKept ==
    [][\A id \in DOMAIN sessions \cap DOMAIN sessions' : Succeeds(sessions[id], sessions'[id])]_vars

Private(id) == sessions[id].setting.privacy = "private"
Comes(u, id) == u \in MembersOf(sessions'[id]) \ MembersOf(sessions[id])
InvitedTo(u, id) ==
    \E n \in DOMAIN invitations' \ DOMAIN invitations :
        invitations'[n].to = u /\ invitations'[n].session = id

\* What a listing of v's sessions newly shows to u has been granted: a session v
\* has just made is public or u's own; one that was there has been made public,
\* or u has come into it or been invited to it and no other, or v has come into
\* it and u could see it before.
DisclosureIsGranted ==
    [][\A u, v \in Users : \A id \in CollectUserSessions(v, u)' \ CollectUserSessions(v, u) :
        \/ id \notin DOMAIN sessions /\ (u = v \/ ~Private(id)')
        \/ /\ id \in DOMAIN sessions
           /\ \/ Private(id) /\ ~Private(id)'
              \/ Comes(u, id)
              \/ InvitedTo(u, id)
              \/ Comes(v, id) /\ MaySee(u, id)]_vars

\* What the users are promised: who sits where, and whose party it is.
SeatOf(u, i) == IF HeldAt(u, i) = {} THEN NoSession ELSE AnyOf(HeldAt(u, i))
seat == [x \in Users \X Indices |-> SeatOf(x[1], x[2])]
host == [id \in DOMAIN sessions |-> sessions[id].owner]
bound == {id \in DOMAIN sessions : sessions[id].type = "owner-bind"}
Promise == INSTANCE Parties WITH Slots <- Indices, Names <- SessionIds, None <- NoSession
PartiesSpec == Promise!Spec
================================================================================
