-------------------------------- MODULE Friends --------------------------------
(***************************************************************************)
(* Accounts that log in and out and their friendships: the registry of     *)
(* clients (src/client_session.h, src/cmd_account.cpp), the relation rows  *)
(* (src/database.cpp) and the friend commands (src/cmd_friend.cpp).        *)
(*                                                                         *)
(* Every session runs its handlers in a thread of its own.  A handler is a *)
(* series of steps, each one query or one critical section; task[s] is     *)
(* what the handler of s does next, with what it has read so far.  There   *)
(* is no transaction around them, so a value read may be stale when used.  *)
(*                                                                         *)
(* A client logs in once per connection and waits for replies.  A request  *)
(* that is refused, as one whose query fails mostly is, changes nothing    *)
(* and is no step.  Two handlers take a failed query for an empty answer   *)
(* and go on: CmdLogin and CmdAddBlock.  A notice for a session that has   *)
(* ended is lost.                                                          *)
(***************************************************************************)
EXTENDS Integers, FiniteSets

CONSTANTS
    Users,      \* accounts there are at first
    Admins,     \* those who may delete any account
    Logins,     \* bound: who a connection logs in as, hidden or not
    Asks,       \* bound: the commands a connection gives
    Sessions,   \* connections
    NoUser,     \* the account of a connection that has not logged in
    Closed,     \* the account of one that has ended
    MaxBusy     \* bound: handlers under way at once

ASSUME UsersAssumption ==
    NoUser # Closed /\ {NoUser, Closed} \cap Users = {} /\ Admins \subseteq Users
ASSUME SessionsAssumption == IsFiniteSet(Sessions)
ASSUME BoundAssumption == MaxBusy \in Nat

VARIABLES
    accounts,   \* the account table
    rel,        \* the friendship table: what a user holds of another
    clients,    \* SharedState::clients, by user
    usage,      \* SharedState::usageTotalOnline
    auth,       \* per session: m_info.userId once m_authenticated
    task,       \* per session: what its handler does next
    pending,    \* per session: notices queued on its thread
    shown,      \* per session: the friends its client takes to be online
    deletions,  \* history: sessions that have deleted their own account
    doubtful    \* history: pairs of users for whom something stale, or not read
                \* at all, was used, or of whom one was reported online while hidden

tables == <<accounts, rel>>
screens == <<pending, shown>>
history == <<deletions, doubtful>>
vars == <<accounts, rel, clients, usage, auth, task, pending, shown, deletions, doubtful>>

Flags == {"Friend", "Blocked"}
Pairs == {p \in Users \X Users : p[1] # p[2]}
Couple(u, v) == {u, v}

\* What a user's row says, from the user's side.
Row == [mine : SUBSET Flags, theirs : SUBSET Flags]
NoFlags == [mine |-> {}, theirs |-> {}]
Commands == {"add", "remove", "block", "unblock"}

Entry == [session : Sessions, friends : SUBSET Users, hidden : BOOLEAN]

\* What has been queued about a user last is what counts.
News == {"none", "online", "offline"}

Idle == [at |-> "idle"]
Task ==
    {Idle}
    \cup [at : {"leave", "unregister"}]
    \cup [at : {"relations"}, hidden : BOOLEAN]
    \cup [at : {"flags"}, hidden : BOOLEAN, friends : SUBSET Users]
    \cup [at : {"register"}, hidden : BOOLEAN, friends : SUBSET Users, online : SUBSET Users]
    \cup [at : {"announce", "farewell"}, to : SUBSET Sessions]
    \cup [at : {"write"}, command : Commands, other : Users, read : Row]
    \cup [at : {"caches"}, command : Commands, other : Users]
    \cup [at : {"notify"}, command : Commands, other : Users, online : BOOLEAN]

Init ==
    /\ accounts = Users
    /\ rel = [p \in Pairs |-> {}]
    /\ clients = <<>>
    /\ usage = 0
    /\ auth = [s \in Sessions |-> NoUser]
    /\ task = [s \in Sessions |-> Idle]
    /\ pending = [s \in Sessions |-> [u \in Users |-> "none"]]
    /\ shown = [s \in Sessions |-> {}]
    /\ deletions = 0
    /\ doubtful = {}

---------------------------------------------------------------------------
(* Helpers                                                                 *)

Registered(u) == u \in DOMAIN clients
Visible(u) == Registered(u) /\ ~clients[u].hidden
Hides(u) == Registered(u) /\ clients[u].hidden
Mutual(u, v) == "Friend" \in rel[<<u, v>>] /\ "Friend" \in rel[<<v, u>>]
RowOf(u, v) == [mine |-> rel[<<u, v>>], theirs |-> rel[<<v, u>>]]
FriendsOf(u) == {v \in Users \ {u} : Mutual(u, v)}

\* A session whose thread may take up a request of its client.
Free(s) ==
    /\ task[s] = Idle
    /\ Cardinality({t \in Sessions : task[t] # Idle}) < MaxBusy

LoggedIn(s) == auth[s] \in Users
Goes(s, next) == task' = [task EXCEPT ![s] = next]

\* Remembers that what u and those in W learn of each other is in doubt.
Doubts(u, W) == doubtful' = doubtful \cup {Couple(u, w) : w \in W \ {u}}

Queued(s, about, news) == [pending EXCEPT ![s][about] = news]
QueuedTo(to, about, news) ==
    [s \in Sessions |-> IF s \in to THEN [pending[s] EXCEPT ![about] = news] ELSE pending[s]]

\* A mutant: friends that appear offline are not told.
FriendSessionsVisible(u, friends) ==
    {clients[v].session : v \in {w \in (friends \ {u}) \cap DOMAIN clients : ~clients[w].hidden}}

\* The sessions of the friends of u that are registered.
FriendSessions(u, friends) == {clients[v].session : v \in (friends \ {u}) \cap DOMAIN clients}

\* A mutant: an entry is made for a friend that is not there.
BefriendAnybody(u, v) ==
    [w \in DOMAIN clients \cup {v} |->
        IF w \notin DOMAIN clients THEN [session |-> NoUser, friends |-> {u}, hidden |-> FALSE]
        ELSE IF w = u THEN [clients[w] EXCEPT !.friends = @ \cup {v}]
        ELSE IF w = v THEN [clients[w] EXCEPT !.friends = @ \cup {u}]
        ELSE clients[w]]

Befriend(u, v) ==
    [w \in DOMAIN clients |->
        IF w = u THEN [clients[w] EXCEPT !.friends = @ \cup {v}]
        ELSE IF w = v THEN [clients[w] EXCEPT !.friends = @ \cup {u}]
        ELSE clients[w]]

Unfriend(u, v) ==
    [w \in DOMAIN clients |->
        IF w = u THEN [clients[w] EXCEPT !.friends = @ \ {v}]
        ELSE IF w = v THEN [clients[w] EXCEPT !.friends = @ \ {u}]
        ELSE clients[w]]

---------------------------------------------------------------------------
(* Logging in                                                              *)

\* The password and the look at `clients' are one step.
CmdLogin(s, u, hidden) ==
    /\ Free(s) /\ auth[s] = NoUser
    /\ [session |-> s, user |-> u, hidden |-> hidden] \in Logins
    /\ u \in accounts /\ ~Registered(u)
    /\ auth' = [auth EXCEPT ![s] = u]
    /\ Goes(s, [at |-> "relations", hidden |-> hidden])
    /\ UNCHANGED <<tables, clients, usage, screens, history>>

\* If a query fails the friends, or those whose names it was for, are missing.
GetRelationships(s) ==
    /\ task[s].at = "relations"
    /\ \E friends \in SUBSET FriendsOf(auth[s]) :
        Goes(s, [at |-> "flags", hidden |-> task[s].hidden, friends |-> friends])
    /\ UNCHANGED <<tables, clients, usage, auth, screens, history>>

\* What the reply says of the friends; hidden ones are said to be offline.
LookUpFriends(s) ==
    /\ task[s].at = "flags"
    /\ Goes(s, [at |-> "register", hidden |-> task[s].hidden, friends |-> task[s].friends,
                online |-> {v \in task[s].friends : Visible(v)}])
    /\ UNCHANGED <<tables, clients, usage, auth, screens, history>>

\* The entry, whoever had it before, and the caches of the friends.
WithEntry(s, u, t) ==
    [w \in DOMAIN clients \cup {u} |->
        IF w = u THEN [session |-> s, friends |-> t.friends, hidden |-> t.hidden]
        ELSE IF w \in t.friends THEN [clients[w] EXCEPT !.friends = @ \cup {u}]
        ELSE clients[w]]

Register(s) ==
    LET u == auth[s]
        t == task[s]
        \* Befriended, lost, come or gone since they were looked up, or missed
        \* then; or u itself has come since it was found not to be there.
        changed == {v \in Users : \/ Registered(u)
                                  \/ (v \in t.friends) # (v \in FriendsOf(u))
                                  \/ v \in t.friends /\ (v \in t.online) # Visible(v)}
    IN  /\ t.at = "register"
        /\ clients' = WithEntry(s, u, t)
        /\ shown' = [shown EXCEPT ![s] = t.online]
        /\ Goes(s, [at |-> "announce", to |-> IF t.hidden THEN {} ELSE FriendSessions(u, t.friends)])
        /\ Doubts(u, changed)
        /\ UNCHANGED <<tables, usage, auth, pending, deletions>>

\* The end of a login: the statistics, and word to the friends.
Announce(s) ==
    LET u == auth[s]
        to == task[s].to
    IN  /\ task[s].at = "announce"
        /\ usage' = usage + 1
        /\ pending' = QueuedTo(to, u, "online")
        /\ Goes(s, Idle)
        /\ Doubts(u, {auth[t] : t \in {x \in to : ~Visible(u) \/ ~Mutual(u, auth[x])}})
        /\ UNCHANGED <<tables, clients, auth, shown, deletions>>

---------------------------------------------------------------------------
(* The friend commands                                                     *)

Add(row) == [row EXCEPT !.mine = @ \cup {"Friend"}]
Remove(row) == [mine |-> row.mine \ {"Friend"}, theirs |-> row.theirs \ {"Friend"}]

\* A mutant: the other side keeps its flag.
BlockOneSided(row) == [row EXCEPT !.mine = (@ \cup {"Blocked"}) \ {"Friend"}]

\* A mutant: the other side is left with nothing, not even its own block.
BlockAlone(row) == [mine |-> (row.mine \cup {"Blocked"}) \ {"Friend"}, theirs |-> {}]

Block(row) == [mine |-> (row.mine \cup {"Blocked"}) \ {"Friend"}, theirs |-> row.theirs \ {"Friend"}]

Unblock(row) == [row EXCEPT !.mine = @ \ {"Blocked"}]

NewRow(command, row) ==
    CASE command = "add" -> Add(row)
      [] command = "remove" -> Remove(row)
      [] command = "block" -> Block(row)
      [] command = "unblock" -> Unblock(row)

\* A mutant: a block leaves the cached friends alone.
TouchesCachesNotBlock(command, row) ==
    \/ command = "add" /\ "Friend" \in row.theirs
    \/ command = "remove"

\* Whether a command, written over what it had read, changes friendships.
TouchesCaches(command, row) ==
    \/ command = "add" /\ "Friend" \in row.theirs
    \/ command = "remove"
    \/ command = "block" /\ "Friend" \in row.mine /\ "Friend" \in row.theirs

\* Every command begins by reading the row.
Reads(s, command, v, row) ==
    /\ Free(s) /\ LoggedIn(s) /\ auth[s] # v
    /\ <<s, command>> \in Asks
    /\ v \in accounts
    /\ Goes(s, [at |-> "write", command |-> command, other |-> v, read |-> row])
    /\ UNCHANGED <<tables, clients, usage, auth, screens, history>>

CmdAddFriend(s, v) ==
    LET row == RowOf(auth[s], v)
    IN  /\ Reads(s, "add", v, row)
        /\ "Blocked" \notin row.mine \cup row.theirs /\ "Friend" \notin row.mine

CmdRemoveFriend(s, v) ==
    LET row == RowOf(auth[s], v)
    IN  /\ Reads(s, "remove", v, row)
        /\ "Friend" \in row.mine \cup row.theirs

\* A failing read is not told from a row that is not there.
CmdAddBlock(s, v) ==
    Reads(s, "block", v, RowOf(auth[s], v)) \/ Reads(s, "block", v, NoFlags)

CmdRemoveBlock(s, v) ==
    /\ Reads(s, "unblock", v, RowOf(auth[s], v))
    /\ "Blocked" \in rel[<<auth[s], v>>]

\* A row without flags is deleted by two of the commands.
Erases(command, row) == command \in {"remove", "unblock"} /\ row.mine \cup row.theirs = {}

\* Both flags are written, as they follow from what was read.  An account that
\* is gone fails the foreign key, which a deletion does not need.
SetRelStatus(s) ==
    LET u == auth[s]
        t == task[s]
        new == NewRow(t.command, t.read)
    IN  /\ t.at = "write"
        /\ IF {u, t.other} \subseteq accounts \/ Erases(t.command, new)
           THEN /\ rel' = [rel EXCEPT ![<<u, t.other>>] = new.mine, ![<<t.other, u>>] = new.theirs]
                /\ Doubts(u, IF t.read # RowOf(u, t.other) THEN {t.other} ELSE {})
                /\ Goes(s, IF TouchesCaches(t.command, t.read)
                           THEN [at |-> "caches", command |-> t.command, other |-> t.other]
                           ELSE Idle)
           ELSE Goes(s, Idle) /\ UNCHANGED <<rel, doubtful>>
        /\ UNCHANGED <<accounts, clients, usage, auth, screens, deletions>>

UpdateCaches(s) ==
    LET u == auth[s]
        v == task[s].other
        command == task[s].command
    IN  /\ task[s].at = "caches"
        /\ clients' = IF command = "add" THEN Befriend(u, v) ELSE Unfriend(u, v)
        /\ Goes(s, [at |-> "notify", command |-> command, other |-> v, online |-> Registered(v)])
        /\ Doubts(u, IF (command = "add" /\ Hides(v)) \/ Mutual(u, v) # (command = "add")
                     THEN {v} ELSE {})
        /\ UNCHANGED <<tables, usage, auth, screens, deletions>>

\* FriendNew or FriendLost, to the own client at once and to the other one by
\* way of its thread.
Notify(s) ==
    LET u == auth[s]
        v == task[s].other
        new == task[s].command = "add"
        online == new /\ task[s].online
        doubt == \/ Mutual(u, v) # new
                 \/ pending[s][v] # "none"
                 \/ (new /\ Hides(u))
    IN  /\ task[s].at = "notify"
        /\ shown' = [shown EXCEPT ![s] = IF online THEN @ \cup {v} ELSE @ \ {v}]
        /\ pending' = IF Registered(v)
                      THEN Queued(clients[v].session, u, IF new THEN "online" ELSE "offline")
                      ELSE pending
        /\ Doubts(u, IF doubt THEN {v} ELSE {})
        /\ Goes(s, Idle)
        /\ UNCHANGED <<tables, clients, usage, auth, deletions>>

\* The event loop hands a client what other threads have queued for it.
Deliver(s) ==
    /\ task[s] = Idle
    /\ \E u \in Users : pending[s][u] # "none"
    /\ shown' = [shown EXCEPT ![s] =
                    {u \in Users : \/ pending[s][u] = "online"
                                   \/ pending[s][u] = "none" /\ u \in @}]
    /\ pending' = [pending EXCEPT ![s] = [u \in Users |-> "none"]]
    /\ UNCHANGED <<tables, clients, usage, auth, task, history>>

---------------------------------------------------------------------------
(* Leaving                                                                 *)

\* The session object is gone: what was queued for it, or is still to be sent
\* to it, is lost.
Gone(s) ==
    /\ auth' = [auth EXCEPT ![s] = Closed]
    /\ shown' = [shown EXCEPT ![s] = {}]
    /\ task' = [t \in Sessions |->
                    IF t = s THEN Idle
                    ELSE IF "to" \in DOMAIN task[t] THEN [task[t] EXCEPT !.to = @ \ {s}]
                    ELSE task[t]]

\* A mutant: a session whose entry is gone has nothing to clean up.
CleanupIfListed(s) ==
    LET u == auth[s]
    IN  /\ LoggedIn(s)
        /\ Free(s) \/ task[s].at = "leave"
        /\ IF Registered(u)
           THEN /\ clients' = [w \in DOMAIN clients \ {u} |-> clients[w]]
                /\ Goes(s, [at |-> "farewell",
                            to |-> IF Visible(u) THEN FriendSessions(u, clients[u].friends) ELSE {}])
                /\ UNCHANGED <<auth, shown>>
           ELSE Gone(s) /\ UNCHANGED clients
        /\ UNCHANGED <<tables, usage, pending, history>>

\* The entry is erased, whichever session it belongs to.
CleanupOnDisconnect(s) ==
    LET u == auth[s]
    IN  /\ LoggedIn(s)
        /\ Free(s) \/ task[s].at = "leave"
        /\ clients' = [w \in DOMAIN clients \ {u} |-> clients[w]]
        /\ Goes(s, [at |-> "farewell",
                    to |-> IF Visible(u) THEN FriendSessions(u, clients[u].friends) ELSE {}])
        /\ UNCHANGED <<tables, usage, auth, screens, history>>

\* The end of a session: the statistics, and word to the friends.
Farewell(s) ==
    LET u == auth[s]
        to == task[s].to
    IN  /\ task[s].at = "farewell"
        /\ usage' = IF usage > 0 THEN usage - 1 ELSE 0
        /\ pending' = [QueuedTo(to, u, "offline") EXCEPT ![s] = [w \in Users |-> "none"]]
        /\ Gone(s)
        /\ Doubts(u, IF Visible(u) THEN {auth[t] : t \in to} ELSE {})
        /\ UNCHANGED <<tables, clients, deletions>>

\* The rows of an account go with it.  Its own session is dropped without the
\* clean-up; an administrator's is disconnected as usual.
CmdDelete(s, v) ==
    LET u == auth[s]
    IN  /\ Free(s) /\ LoggedIn(s)
        /\ <<s, "delete">> \in Asks
        /\ v \in accounts /\ (v = u \/ u \in Admins)
        /\ accounts' = accounts \ {v}
        /\ rel' = [p \in Pairs |-> IF v \in {p[1], p[2]} THEN {} ELSE rel[p]]
        /\ Goes(s, [at |-> IF v = u THEN "unregister" ELSE "leave"])
        /\ UNCHANGED <<clients, usage, auth, screens, history>>

\* A mutant: the entry is left to a clean-up that a session without account skips.
UnregisterNobody(s) ==
    /\ task[s].at = "unregister"
    /\ pending' = [pending EXCEPT ![s] = [w \in Users |-> "none"]]
    /\ Gone(s)
    /\ deletions' = deletions + 1
    /\ UNCHANGED <<tables, clients, usage, doubtful>>

Unregister(s) ==
    /\ task[s].at = "unregister"
    /\ clients' = [w \in DOMAIN clients \ {auth[s]} |-> clients[w]]
    /\ pending' = [pending EXCEPT ![s] = [w \in Users |-> "none"]]
    /\ Gone(s)
    /\ deletions' = deletions + 1
    /\ UNCHANGED <<tables, usage, doubtful>>

---------------------------------------------------------------------------

Step(s) ==
    \/ \E u \in Users, hidden \in BOOLEAN : CmdLogin(s, u, hidden)
    \/ GetRelationships(s) \/ LookUpFriends(s) \/ Register(s)
    \/ Announce(s)
    \/ \E v \in Users :
        \/ CmdAddFriend(s, v) \/ CmdRemoveFriend(s, v)
        \/ CmdAddBlock(s, v) \/ CmdRemoveBlock(s, v)
        \/ CmdDelete(s, v)
    \/ SetRelStatus(s) \/ UpdateCaches(s) \/ Notify(s) \/ Deliver(s)
    \/ CleanupOnDisconnect(s) \/ Farewell(s) \/ Unregister(s)

Next == \E s \in Sessions : Step(s)

Spec == Init /\ [][Next]_vars

---------------------------------------------------------------------------
(* Properties                                                              *)

TypeOK ==
    /\ accounts \subseteq Users
    /\ rel \in [Pairs -> SUBSET Flags]
    /\ DOMAIN clients \subseteq Users
    /\ \A u \in DOMAIN clients : clients[u] \in Entry
    /\ usage \in Nat
    /\ auth \in [Sessions -> Users \cup {NoUser, Closed}]
    /\ task \in [Sessions -> Task]
    /\ pending \in [Sessions -> [Users -> News]]
    /\ shown \in [Sessions -> SUBSET Users]
    /\ deletions \in Nat
    /\ doubtful \subseteq SUBSET Users

\* A block ends a friendship and requests for one: wherever one of two users
\* blocks the other neither holds the other for a friend, though rows are
\* written over what has changed since they were read.
BlockEndsFriendship ==
    \A p \in Pairs :
        "Blocked" \in rel[p] => "Friend" \notin rel[p] \cup rel[<<p[2], p[1]>>]

\* The entry of a user belongs to a session that is connected and logged in as
\* this user, though cleaning up goes by users and two sessions may have one.
EntryIsConnected == \A u \in DOMAIN clients : auth[clients[u].session] = u

\* A session that has counted and not uncounted itself.
Counted(s) ==
    LoggedIn(s) /\ task[s].at \notin {"relations", "flags", "register", "announce"}

\* The number of users online that the statistics show is the number of
\* sessions, but for those that have deleted their account, which it keeps.
UsageIsExact == usage = Cardinality({s \in Sessions : Counted(s)}) + deletions

Quiet == \A s \in Sessions : task[s] = Idle /\ \A u \in Users : pending[s][u] = "none"
Undoubted(u, v) == {u, v} \subseteq accounts /\ Couple(u, v) \notin doubtful

\* Whenever nothing is under way, the friends a session has cached are those of
\* the table, unless a handler used what had changed since it was read, or what
\* a failed query had not read.
CachesAgree ==
    Quiet => \A u \in DOMAIN clients : \A v \in Users \ {u} :
        Undoubted(u, v) => (v \in clients[u].friends <=> Mutual(u, v))

\* Then, too, a client shows those friends online that are, and nobody else.
ScreensAgree ==
    Quiet => \A u \in DOMAIN clients : \A v \in Users \ {u} :
        Undoubted(u, v) =>
            (v \in shown[clients[u].session] <=> Mutual(u, v) /\ Visible(v))

\* What s has read, to write over the row of u and v, is not what the row says.
WritesUnread(s, u, v) ==
    /\ {auth[s], task[s].other} = {u, v}
    /\ task[s].read # RowOf(auth[s], task[s].other)

\* A block is lifted by nobody but who set it, and lasts as long as both
\* accounts, unless a command of either user writes over what it had not read:
\* the row has changed since, or its read in CmdAddBlock has failed.
BlockLasts ==
    [][\A p \in Pairs : "Blocked" \in rel[p] \ rel'[p] =>
        \/ ~({p[1], p[2]} \subseteq accounts')
        \/ \E s \in Sessions :
            /\ task[s].at = "write" /\ task'[s] # task[s]
            /\ \/ WritesUnread(s, p[1], p[2])
               \/ auth[s] = p[1] /\ task[s].command = "unblock" /\ task[s].other = p[2]]_vars

\* An account is in use by one session.  (documentation/protocol.md)
OneSessionPerAccount ==
    \A s, t \in Sessions : s # t /\ LoggedIn(s) => auth[s] # auth[t]
================================================================================
