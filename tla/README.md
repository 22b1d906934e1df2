# A TLA+ verification of the shadNet server

shadNet is a multi-threaded C++/Qt server that gives PS4 emulators the online
services their games expect: accounts and friends, matchmaking rooms,
scoreboards, WebAPI sessions, presence, and a summon broker for one game.
This directory models the parts of it where order matters, checks them with
TLC on small instances and proves the most important properties for all
instances with TLAPS.

Paths below are relative to the repository; `src/` is the repository's own
source directory.

## 1. Inventory

Every TCP client gets a `ClientSession` object living in a thread of its own
(`src/server.cpp`, SpawnSession). A session reads packets, runs one handler to
its end for each, and dispatches what other threads have queued for it between
two packets. All sessions share one `SharedState`, guarded by several
read-write locks that handlers take and release separately; the persistent
state is an SQLite database with one connection per session. The WebAPI and the
stats server are HTTP servers over the same shared state.

| Component | State it keeps | Operations | What is hard |
|---|---|---|---|
| Matchmaking (`cmd_matching.cpp`, `matching_types.h`) | rooms by id, world and lobby indices (`roomsLock`); per session: context, current room | context start/stop, create, join, leave, kick, room data, searches, messages, signaling | handlers are several critical sections; events are sent after the lock; member ids wrap; memberships and sessions can come apart |
| Sessions and registry (`client_session.*`, `cmd_account.cpp`) | `clients`, `npidToUserId` (`clientsLock`), usage counters (`usageLock`) | login, disconnect, delete, Appear-Offline | check and registration in two lock sections; cleanup erases by user, not by session |
| Friends (`cmd_friend.cpp`, `database.cpp`) | a relation row per pair of users; cached friend lists in `clients` | add, remove, block, unblock | rows are read and written without a transaction; caches are updated afterwards |
| Summon broker (`bloodborne_summon_broker.*`, `webapi_routes_bloodborne.cpp`) | summon records (one mutex) | advertise, search, claim, consume, purge | a life cycle of five states with retries, two modes and two time-outs |
| WebAPI sessions (`webapi_routes_session.cpp`) | sessions, members, invitations (`sessionsLock`) | create, update, join, leave, delete, invite, purge on disconnect | online check and insertion in two lock sections; owner migration; capacity |
| Scoreboards (`score_cache.*`, `score_db.*`, `score_files.h`, `cmd_score.cpp`) | ranked in-memory tables, score rows, data files | record, attach data, ranges | cache, rows and files change one after the other, not together |
| Presence (`webapi_routes_presence.cpp`, `client_session.cpp`) | presence fields of `clients`, `usageClientGame` | publish, Appear-Offline, title events | who is told what, under which lock |
| STUN (`stun_server.cpp`) | `udpExt` (`udpLock`) | report an address | addresses outlive sessions |
| Stats, users, profiles, auth, start-up, framing | counters, tables, buffers | queries | little state of their own |

What makes each correct:

* *Rooms*: an owner who is present, one entry per user, capacity, counters and
  indices that describe the rooms there are, no members that are gone, clients
  that end up with the room the server has.
* *Registry*: an entry belongs to a live session; counters return to zero.
* *Friends*: friendship is mutual, a block ends it, the cached lists converge
  to the rows.
* *Broker*: a summon is claimed by one host at a time, delivered at least once,
  and consumed for good.
* *WebAPI sessions*: members who are online, an owner who is the most senior of
  them, one session for each slot of a user, room for those who join, private
  sessions shown to those who may see them.
* *Scores*: the cache ranks what the database holds; a score's data is the
  score's own, whenever the server ends.
* *Presence*: friends are shown what is published and nothing of those who hide;
  the tally of a game counts the users who are in it.

The hazards are listed with their lines in `PROJECT.json`.

## 2. The modules

| Module | What it is | Code |
|---|---|---|
| `Rooms` | operators on one room: member ids, slot masks and counters, arrival, departure, hand-over | `matching_types.h`, helpers of `cmd_matching.cpp` |
| `Matching` | the matching handlers as a state machine over all rooms and sessions, and its properties | `cmd_matching.cpp` |
| `RoomService` | abstract specification: what matchmaking promises | implemented by `Matching` |
| `MatchingClients` | `Matching` composed with the event queues and the clients' caches | `SendRoomMemberEvent`, `SendPacket`, `documentation/matching.md` |
| `SummonBroker` | the broker's records and every operation on them | `bloodborne_summon_broker.cpp`, `webapi_routes_bloodborne.cpp` |
| `Summons` | abstract specification: who holds a sign and who was told | implemented by `SummonBroker` |
| `SummonPlayers` | `SummonBroker` composed with guests and hosts that play | external, from how the routes are used |
| `Friends` | login, disconnect, deletion and the friend commands, query by query | `cmd_friend.cpp`, `cmd_account.cpp`, `client_session.cpp`, `database.cpp` |
| `WebApiSessions` | the requests on sessions and invitations, with logging in and out | `webapi_routes_session.cpp`, `client_session.cpp`, `cmd_account.cpp` |
| `Parties` | abstract specification: who sits in which party, and whose it is | implemented by `WebApiSessions` |
| `ScoreBoard` | a board's rows, its ranked table and its data files, the score commands and the start of the server | `score_cache.cpp`, `score_db.cpp`, `score_files.h`, `cmd_score.cpp`, `server.cpp` |
| `Presence` | what users publish, Appear-Offline, the games they are in and the tally of these, and what friends' clients show | `webapi_routes_presence.cpp`, `client_session.*`, `cmd_account.cpp`, `webapi_routes_users.cpp`, `webapi_routes_common.h` |
| `ListLemmas` | lemmas about sequences | |
| `MatchingProofs`, `MatchingClientsProofs`, `SummonProofs`, `FriendsProofs`, `WebApiSessionsProofs`, `ScoreBoardProofs`, `PresenceProofs` | theorems | |
| `MC*` | finite instances for TLC | |

Definitions whose comment begins "A mutant" are variants of the definition
below them with a plausible mistake. No specification uses them; each shows that
one of the properties can fail.

### Matching

`session[u]` is u's `MatchingSessionState` with its registry entry, `rooms`,
`worldRooms`, `lobbyRooms`, `nextRoomId` are the fields of
`MatchingSharedState` for one matching key. A handler's first critical section
is one action (`CmdJoinRoom`, `CmdLeaveRoom`, ...). What the handler does after
it released `roomsLock` is a queue of tasks `todo[u]`: look up the member that
joined, collect the receivers of an event, send it, drop the registry entry.
`Resume(u)` does the next task, so every other handler can come between two
sections. A refused request changes nothing and is no step. `MaxBusy` bounds
how many handlers are between two sections at once.

Data is abstracted: an npid and an account id are both the user; a member id is
the pair of its slot and its 4-bit counter; a slot mask is a set of slots; one
internal attribute stands for the two; the lists by online id and by account id
are one set. `members.begin()` of a `QHash`, which decides who inherits a room,
is any member. `ownerSuccession` is never filled by the code and left out.
Passwords are stored but never compared by the code, and left out. For locked
groups in rooms of more than 64 slots the code's shift is undefined;
`GroupsAssumption` excludes them. A sender called after its session was
destroyed is undefined too; the model loses the event (`Forgets`). Each account
has one connection at a time here, on which it logs in once; `Friends` has several.

A connection ends in one of two ways. `Disconnect` is the end of a session that
is logged in: it leaves its current room, if it has a started context, and then
the registry. `CmdDelete` deletes the own account: the registry entry goes and
the session counts as not authenticated (`src/cmd_account.cpp:234`), so that the
end of the connection, which the handler queues, cleans up nothing
(`src/client_session.cpp:262`) and every room keeps its member. `abandoned` is a
history variable, the memberships left behind like this, until somebody removes
them. The name may be registered again, and its new session does not know of
them. A packet that was sent behind the deletion and is handled before the
connection ends is left out.

`RoomService` knows rooms with a roster, a capacity and a host. `Matching!Service`
is its instance under the mapping `roster`, `host`, `capacity`; `ServiceSpec`
says every step of the handlers is one of its steps or a stutter.

`MatchingClients` adds the queue of events on each session's thread (`inbox`),
the reply that is built under the lock and written when the handler ends
(`reply`), and the room cache of the client (`cache`). `overtaken` is a history
variable: the events which a later change had overtaken when they were sent, or,
for an arrival that waited for its receiver since an earlier stay, when the
receiver joined the room again. A client whose account is deleted is gone with
its cache and its queue (`Deletes`); the other members are told nothing, and
keep knowing it for a member, which it is. `CacheKnowsRoom` says of memberships
that a client of the account is in (`Belongs`) that the client knows the room.

### The summon broker

All operations of the broker run under one mutex, so each is one action:
`Advertise`, `Search`, `Claim`, `Consume`, with the purge of what is too old at
the start of each, `Tick` for time, and `Restart`, which loses the records and
may change the mode. Requests come from anybody, in any order, and more than
once: retries, duplicates and late requests need no action of their own. A
record's `age` is the time since it was touched, cut off at `OldAge`, beyond
which only "too old" can be told. `answers` keeps what each guest was told last.
The transformation of a sign for its host and the rendering of a claim are
byte-level JSON and left out; a placement that is too long to fit a claim is the
field `fits`.

`SummonPlayers` closes the system with players: a guest is on a map (`place`),
rings, travels where the last answer sends it and takes its sign down when it
leaves a map; a host keeps what it found (`listed`) and claims from it, perhaps
too late.

### Friends

Every session runs one handler at a time; `task[s]` is what that handler does
next, together with what it has read. Each query and each critical section is a
step: `CmdAddFriend` reads the row, `SetRelStatus` writes it, `UpdateCaches`
takes `clientsLock`, `Notify` calls the senders it copied. Login is
`CmdLogin` (the look for the account in the registry), `GetRelationships`,
`LookUpFriends`, `Register`, `Announce`; disconnection is `CleanupOnDisconnect`
and `Farewell`. A query that fails refuses the command and is no step, but for
the two handlers that go on with an empty answer: `CmdAddBlock`, which tests the
other results only and takes the failure for a row without flags, and
`GetRelationships`, in which some friends, or all, are then missing. `pending` is
what is queued on a session's thread about each user (the last notice is what
counts), `shown` the friends a client takes to be online. Two histories are kept: `doubtful`, the pairs for which a handler used
something that had changed since it read it or that a failed query had not read,
or of whom one was reported online while hidden, and `deletions`. `Logins` and
`Asks` bound who a connection logs in as and what it asks for; whether a user
hides is fixed at login here, the switch is in `Presence`.

### WebAPI sessions

One thread serves the Web API, so two requests never overlap; what does overlap
are requests and the threads in which users log in and out. Creating and joining
look the user up under `clientsLock` (`FindOnline`) and make their change under
`sessionsLock` (`HandleSessionCreate`, `HandleSessionJoin`, or `Refuse`), and a
disconnect, which is a purge of the sessions and then of the registry, can fall
in between. `connection[u]` tells how far u's connection has come. Every other
request is one critical section and one action. `LeftBy` and `EndsWith` are what
a departure does, shared by the three ways to leave (`LeaveSessionAtIndex`,
`RemoveMemberApplyOwner` in a request, and in the purge). A session id is a name
used again only when nothing refers to the last session that had it, as UUIDs
are never used again. `late` is a history variable: the users who became members
after their purge, or stayed members when they deleted their account.

Left out are the notices to members, texts, platforms, priorities, times and
binary data. Invitations never expire (`INVITATION_TTL_MS` is 0). A user has one
connection at a time. An administrator's deletion of another account is left
out; that user's connection goes on and purges as usual.

`Parties` knows seats (a user and a slot), the party each seat is in, hosts, and
which parties are bound to their host.

### Scores

`rows` is the score table of one board, `sorted` and `lookup` the ranked table
in memory with its index, `files` the uploaded data, and `config` what
`scoreboards.cfg` makes of the board. The ranking is translated as the code does
it: the old entry is taken out, the new one put where `std::lower_bound` says,
and the index patched from the lower of the two places on (`Ranked`,
`Reindexed`). A command is several steps, as in `Friends`: a record is a query
(`CmdRecordScore`) and then the cache (`InsertScore`); data is a file
(`CmdRecordScoreData`), then the cache (`SetGameData`), then a row
(`SetScoreDataId`, whose failure the code ignores). `Restart` ends the server
between any two of these steps: handlers and cache are gone, rows and files
stay, and the start reads the configuration, fills the table, and removes the
files of no row. The start takes a query that fails for one that found no more:
the table may be any beginning of the one the rows make (`Prefixes`), and the
ids of which `CleanOrphans` knows that rows have them may be any of them.
Histories: `doubtful`, the players for whom two handlers were at work at once or
a query failed; `lacking`, whether the table may be short of rows that belong on
it, as an entry has come down since it was loaded or not all of it was loaded;
and `lost`, the data (a player and an id) that a start has removed although the
player's row has it. The rank a client asks for is made an `int` (`AsInt`,
`IntMax`). Comments and inline game data travel with a score and are left out,
and so is the length of a file: `Create` ignores the result of the write
(`src/score_files.h:43`), and a file that was cut short is attached like any
other. A file that cannot be removed is taken to be gone.

### Presence

Sessions run in threads of their own, and all requests of the Web API in one
more, `Http`. A handler that announces something goes through several critical
sections: whether the user hides, who is in its game (`Share`), which friends
are online (`Address`), and then the senders (`Post`, `Push`); each is an action,
and `task[t]` carries what was read. Clients are part of the model, from what
the events and requests say to them: news with a text changes the `screen`, news
without one makes the client ask (`due`), a login and a change of games make it
ask about everybody. News for one client keeps its order. Histories: `playing`,
the game a session played last; `twins`, users of whom two sessions were logged
in; `doubtful`, users of whom something may be shown that nobody will correct;
`unhidden`, threads whose user was not hidden at some moment of the handler.
Friendships do not change here. A user has a title if the login that made the
entry named one (`Titled`); Appear-Offline sends the title only then, and
nothing to the players of the game if there is no detail either.

## 3. Runs

| Run | Instance | Shows |
|---|---|---|
| `matching_rooms` | 3 users, rooms for one and for three, block lists at creation, join and kick, two handlers at a time | `BlocksHonoured`, refinement of `RoomService` |
| `matching_oneroom` | 2 users, 2 rooms, context ids 0 and 1, password masks, locked groups, data updates, worlds and lobbies, 16 bits scaled to 4 values, deletions of accounts, clients that keep to one room | `TypeOK`, `SlotAccounting`, `IndexExact`, `NoGhostMembers`, `DisconnectCompletes` |
| `clients_cache` | 3 clients, one room for two, three joins, updates of the room's data | `CacheKnowsRoom`, `CacheComplete`, `StaleMembersExplained` |
| `summon_broker` | one guest with two sessions and two maps, two hosts and an anonymous one, three claims, removals that name all, some or none of their target, a placement that does not fit | `TypeOK`, `DeliveryIsCurrent`, `PlacementIsTheClaimants`, `HolderKeepsTheSign`, refinement of `Summons` |
| `summon_meeting` | 2 guests, 2 hosts, 2 maps, seamless | `EveryGuestIsMet`, `ClaimIsDelivered` |
| `friends` | 2 accounts; two connections of one, an administrator, one of which may hide, and one of the other; failing reads; two handlers at a time | `TypeOK`, `BlockEndsFriendship`, `EntryIsConnected`, `UsageIsExact`, `CachesAgree`, `ScreensAgree`, `BlockLasts` |
| `sessions` | 3 users, 2 sessions, one slot, an invitation, private sessions for three, public ones for two, and locked ones for two | `TypeOK`, `OwnerIsSenior`, `MembersAreOnline`, `SeniorityKept`, `DisclosureIsGranted` |
| `sessions_parties` | 2 users, 2 sessions, 2 slots, no invitation, the first and the last of these settings | refinement of `Parties` |
| `scores` | 2 players, two connections of one, 2 scores, 2 times, 2 files, a normal descending board of two and a forced ascending board of one, restarts with queries that succeed or fail | `TypeOK`, `RankingSound`, `CacheShowsRows`, `BoardIsTop`, `DataIsOwn` |
| `presence` | 2 friends; one with two connections, one of which hides and plays two games; the other in one of the games follows it; one connection has a title, the other none; one field, one value | `TypeOK`, `TallyIsTrue`, `PlayersAreCounted`, `HidingIsQuiet`, `ScreensFollow` |
| `matching_ghosts`, `friends_twice` | small | the findings below |

Bounds. Three users are the fewest with an owner, somebody who leaves and a
bystander who is told or who inherits; two handlers between their sections are
the fewest that race. Rooms for one to three are filled, refuse one more and are
emptied again. `IdCycle`, 16 in the code, is 1 in `matching_rooms` and
`matching_oneroom`, so that every member id is used again at once, and 4 in
`clients_cache`, where at most `MaxJoins` members are admitted so that it does
not come round. With three joins nobody comes back to a room while an arrival from
an earlier stay still waits for it; instances of four joins and more, which do
reach that, are too large for a run (they were searched in part), and section 5
proves the three properties for any number. The 16-bit cut is scaled to 4 values so that ids on both sides
of it occur. In the broker, `Ttl` 1 and `SeamlessTtl` 2 are the least that
differ; a sign can be fresh, old in one mode only, and old in both. In
`friends`, `scores` and `presence`, two of three connections are of one user, so
that two sessions of an account race while the third is the other side of a
friendship or of a ranking. In the session runs two sessions are the fewest
where taking a slot gives up another session, two slots the fewest where a user
is in two, and a setting for two is given to sessions of three. The unlocked
setting for two makes a session that is full and not locked, which the third
user asks to join. A board of two
with two players and one of one has a full table, one more that pushes somebody
out, and one that does not fit. There, `Plays` has three of the four pairs of a
score and a time, one connection downloads data (`Readers`), and `IntMax`,
2147483647 in the code, is 3, above every rank: beyond it the code would read
before the first entry, and `RankingSound` makes no claim. `MaxRooms`,
`MaxBusy`, `MaxJoins`, `MaxQueue`, `MaxFiles`, `OldAge`, the finite sets of sessions, session ids and invitations,
and, in `Friends`, `ScoreBoard` and `Presence`, who may ask for what (`Logins`,
`Asks`, `Hiders`, `Plays`, `Readers`, `Writers`, `Quitters`) are the only caps; guards carry them.
The instances are as large as TLC finishes within a few minutes; the theorems of
section 5 have no such bounds. Where all accounts can be deleted, or all
connections have ended, the system stops: those runs do not check for deadlock.

Fairness. A matching handler that has started runs to its end: it waits for
nothing but locks, and none is held across a wait (`WF` of `Resume`). No client
is assumed to send anything there. `EveryGuestIsMet` and `ClaimIsDelivered` are
about players that go on playing: guests ask and travel (`WF`); a host searches
so often, and at no fixed pace, that it does not always search at the wrong
moment (`SF` of a search that finds or sends for somebody), and of the signs it
is given it does not always claim the same (`SF` of `Choose`). Nothing is
assumed of guests taking signs down, of time or of restarts; `SummonPlayers` has
neither of the last two, as guests renew their signs in time.

## 4. Findings

Two runs show the code to differ from what is said of it:

* `DisconnectLeavesRooms`: `documentation/matching.md:358` says a disconnect
  leaves the room the client is in; the code does so only with a started
  context and only for the room entered last. `NoGhostMembers` is what does
  hold, and only for clients that keep to one room inside one context: their
  memberships end with the connection, but for those in which the account was
  deleted (`abandoned`), which stay behind whatever the client does.
* `OneSessionPerAccount`: `documentation/protocol.md:157` has a second login
  refused; two at once are both accepted, as the look and the insertion are
  under two locks. `EntryIsConnected` and `UsageIsExact` hold nevertheless.

Smaller differences, seen while modelling and without a run:

* Matching. Two updates of one attribute can be announced in the other order
  than they were stored (`src/cmd_matching.cpp:1436`), and a member keeps the
  older value. MEMBER_JOINED can carry an empty member, if the member is gone
  when it is looked up (`:752`; `matching.md:216`). `matching.md:217` has the
  joiner receive event 0x1106, which the code never sends to it, and
  `matching.md:201` gives the creator member id 1, which the code makes 17: slot
  1 shifted by four bits, plus the counter. Member ids are unique only up to 64
  members.
  A client whose context id is 0, which `CmdContextStart` accepts
  (`src/cmd_matching.cpp:429`), is sent no event at all, as 0 stands for no
  context.
* Accounts. `usageTotalOnline` is not decremented when a user deletes the own
  account (`src/cmd_account.cpp:234`). A login as another account on a
  connection that is logged in leaves the old entry. A user who deletes the own
  account stays in the rooms it is in, as an owner, too. A block can be lost to a
  command that read the row before (`protocol.md:260`); no row holds a block and
  a friendship at once, as `database.md:120` says it can
  (`BlockEndsFriendship`).
* WebAPI sessions. "Going offline auto-leaves all their sessions"
  (`src/client_session.cpp:269`) is not so for a user who was purged between the
  online check and the insertion of a request, nor for one who deleted the own
  account: such members stay until somebody removes them. `MembersAreOnline`
  shows that there are no others. Joining refuses an index beyond 63, creating
  does not. A session given up for its slot, or deleted, sends no notice, while
  one that is left does. An addressee's account id is not looked up, and one
  named twice gets two invitations and is told the id of the second only.
* Friends. Somebody who becomes a friend of a user who appears offline is told
  that the user is online (`src/cmd_friend.cpp:99`, `:114`), while a login
  respects Appear-Offline (`src/cmd_account.cpp:177`); the pair is `doubtful`.
  `CmdAddBlock` does not test for a failed read, as the other commands do
  (`src/cmd_friend.cpp:227`): it then writes a row in which the other side has
  set nothing, which lifts the other's block (`BlockLasts` excepts just this),
  and a friendship it ends so stays in the caches of the two and on their
  screens. A login whose query for friends fails goes on without them
  (`src/database.cpp:650`).
* Scores. A score equal to the one there is recorded again under NORMAL_UPDATE
  (`src/score_db.cpp:88`; `database.md:148` has "only if the new score is
  better"): the row takes the later time, which ranks lower, and loses its data.
  After an entry has come down on a full board, the row that ranks in its stead
  is missing from the table until the server starts again. "Delete .sdt files
  whose data_id is no longer referenced" (`src/server.cpp:131`) deletes those
  that are, too, when the query for the ids fails (`src/score_db.cpp:167`): the
  rows keep their ids, a start after it may give such an id out anew, and the
  score then has the data of another. `lost` follows these. A query for the rows
  that fails leaves a table short until the next start. The limits on uploads
  (`database.md:150`) are never enforced. In the cache data goes to whatever
  entry its player has by then, so that the data of one score can be shown with
  another; a row is written for the very score only. Score rows outlive the
  account.
* Presence. `src/client_session.h:51` and `src/webapi_routes_presence.cpp:83`
  have the sticky request for texts cleared when the game ends; it and the
  detail stay when a user changes games. A player who saw a hidden user in its
  game is not told when that user leaves. A text that was read for an event may
  be sent after another has replaced it. A user who publishes while offline and
  then logs in hidden is announced. The first of two sessions of a user to go
  takes the user's game out of the tally.

## 5. Proofs

Each proof module proves an inductive invariant `IInv` (theorem `Invariance`)
and, from it, the invariants and action properties the runs check, for every
value of the constants that satisfies the named assumptions. Histories such as
`doubtful` are part of what is proved: a theorem says exactly which cases it
leaves out.

`MatchingProofs` first proves facts about the operators of `Rooms`: `FreeSlot`
finds the lowest free slot, the room operations keep `RoomInv` (owner inside,
one entry per user, capacity, slots apart, owner bit, blocks, fresh counters),
and slots add up (`SlotsAddUp`, by counting the slots of the members). `IInv` is
`TypeOK`, `RoomInv` of every room, and the exact indices; it is inductive because
each room operation keeps `RoomInv` and each handler applies one of them to one
room. From it come `TypeCorrect`,
`UsersAreUnambiguous`, `OwnerAlwaysPresent`, `CapacityNeverExceeded`,
`SlotsAccountedFor`, `BlocksAlwaysHonoured` and `IndexAlwaysExact`. The run that
checks the refinement checks the owner, the capacity and the single entries with
it, so that no run states these three by themselves.
`MatchingImplementsRoomService` holds under `RequestsFit`, that no request asks
for more slots than a mask has bits: beyond 64 slots member ids run out and an
entry would displace another. `NoGhosts` holds for clients that keep to one
room, and of all memberships but the `abandoned` ones, from `GhostInv`, which
adds to `NoGhostMembers` that a handler still to unregister its session has left
every room that it belongs to.

`MatchingClientsProofs` proves the three properties of `MatchingClients`, which
only speak of quiet moments, from an invariant that speaks of every moment,
`ClientInv`. Its subject is what a client *will* believe when the handler it
waits for is done (`Will`), who is in a room (`Who`), and which events are on
their way (`OnItsWay`: queued, or still carried by a task of some handler that
will have it sent to this client, `Brings`). On top of `MatchingProofs!IInv`:
`EventsSound`, that member ids are given once in the life of a room, so that
after a departure nobody has the id that left and an arrival is of whom it
names; `SessionSound`, that who will believe to be in a room can be reached, and
has that room as the one to leave; `RoomKnown`, that client and server agree on
the room, for a membership that is not `abandoned`, or the notice of the kick is
on its way; and `RoomSeen`, of who is in
the room it believes in: `Complete`, a member is known or its arrival is on its
way, `Explained`, who is known and has gone will be reported gone, or is in
`overtaken`, and `Ordered`, the same of an arrival that is still queued: the
departure is queued behind it. `Ordered` is what a delivery needs. The step of a
handler is reduced to one fact, `Handed`: an event that is due to a client which
can be reached is still brought, or was queued just now. `CachesAlwaysKnowRooms`,
`CachesAlwaysComplete` and `StaleMembersAlwaysExplained` follow, as nothing is on
its way when things are quiet. They hold for any number of users, rooms and
handlers under way, for as many joins as the counter in a member id allows
(`JoinsAssumption`), and for clients whose context ids are not 0
(`ContextsNamed`), as those with 0 are sent nothing. The proof showed that
`overtaken` had a gap: an arrival that is queued for a client which leaves,
and comes back before it is delivered, may name a member that has gone and was
reported gone while the client was away. The run's bounds do not reach this, and
TLC finds it with more joins; the event is now noted at the join.

`SummonProofs`: `IInv` adds `Theirs` to the three checked invariants: the
placement of a claimed record is its claimant's. `BrokerImplementsSummons`
is the refinement, `HolderAlwaysKeepsTheSign` and `OnlyFreshSignsAreEverClaimed`
the action properties; the latter has no run.

`FriendsProofs`: `IInv` adds `TasksSound`, what a handler that has read a row,
or is on its way in or out, may rely on later; without it neither
`BlocksEndFriendships` (a row is written from what was read) nor
`UsageAlwaysExact` is inductive. `BlocksLast` is the action property:
a block goes with an account, by its owner's command, or by a write over a row
that was not read as it is; `EntriesAreConnected` is the registry's. `CachesAlwaysAgree` comes from
`CachesFollow`: at any time, not only in quiet ones, the cache of a user agrees
with the table about a friend, or a handler is about to update it, or the two
are in doubt. `ScreensAlwaysAgree` comes from `AllSeen`, which says the same of a
client: counting what is queued for it, it shows of a friend what is true, or
word of that friend is on its way to it (`Reporting`), or a command about the
two is past the table (`Dealing`), or the two are in doubt. Three more facts make
it inductive: `CachesFollow`, as who leaves tells the friends of its cache;
`SessionsSound`, that an established session has the entry of its user, that
nobody knows of one that is still logging in, and that who unregisters has no
account; and `AddsSound`, that what a new friend was found to be is still true
when the command shows it, or is being reported.

`WebApiSessionsProofs`: `IInv` is the conjunction of the checked invariants and
`OneSessionPerIndex` (a user has a slot in one session only; theorem
`OneSlotOneSession`, without a run), which is inductive as it stands. One
session is studied first (`Departure`, `Arrival`, `Standstill`), then all of
them (`Departures`, `GivingUp`, `Removal`), and each request is shown to lead to
sessions that `Follow` from those before. `SeniorityAlwaysKept` and `DisclosureAlwaysGranted`
are the action properties. The second says of each session that a listing newly
shows what granted it: a new session is public or the reader's own
(`NewSessions`), and one that was there has been made public, or the reader came
into it or was invited to that very session, or somebody came into it whom the
reader could see there already. `PartiesImplemented` is the refinement: the hosts
follow from `Follows`, the seats from `DepartingSeats` and `SeatTaken`.

`ListLemmas` has facts about sequences with an element inserted or removed,
which the operators of the community modules are defined without.
`ScoreBoardProofs` shows first, of any ranked table, that `InsertPos` is a place
where the entry keeps the order, and that patching the index keeps it exact
through removal, insertion and trimming. `IInv` is then `TypeOK`, `TableOK` (the
table is ranked, without repetition, and the index exact), `FilesOK` (whose the
files are that rows, entries and handlers refer to, and that the next id is
above them), `Agreement` (an entry and its row differ only by what a handler
still has to do) and `TopOK` (what is not in the table ranks below it). From it
come `RankingAlwaysSound`, `CacheAlwaysShowsRows`, `BoardAlwaysTop` and
`DataAlwaysOwn`, restarts and their failing queries included: `DataAlwaysOwn`
excepts what is `lost`, and `BoardAlwaysTop` a table that is `lacking`. That a
table of which only the beginning was loaded is as sound as a whole one is
`LoadingSome`.

`PresenceProofs`: `IInv` adds two facts to `TypeOK`, `TallyIsTrue` and
`PlayersAreCounted`. `SessionsSound`: two sessions of one user make it one of
the `twins`, a connection that is not logged in plays nothing, and what a
session on its way out may rely on. `NewsSeen`: a handler that is on its way to
tell friends began or ran while its user was not hidden; it is what makes
`HidingIsQuiet` inductive, as the check is made sections before the news is
sent. `ScreensAlwaysFollow` comes from a second invariant on top of it,
`ScreenInv`, which speaks of what is still on its way. `AllFollow`: of a friend,
a client shows what is so, or it will ask (`WillAsk`: it was told to, or a
handler is about to tell it that the friend came, went or switched
Appear-Offline); and each field of the detail is shown as published or a handler
is about to bring it (`Brings`), where a text that reaches the client before the
answer it waits for does not count (`Counts`), as the answer overwrites it. Two
more facts make it inductive: `EntriesSound`, that an entry belongs to a session
of its user that is neither coming nor going, so that who leaves is not a
follower any more; and `TextsRight`, that a text which a handler is about to send
is the one published, or the user is one of the `doubtful`. The proof needs that
friendships are symmetric (`UsersAssumption`; the table has one row for the
two), since a handler looks for followers among the friends of the one it tells
of, and that no field of a detail is called `online` or `title`
(`NamesAssumption`; they are other events). It also showed the condition
`u \notin twins` to be needed: the game is that of the user, so when another
session of the follower's user changes it, the follower's client hears nothing
and asks nobody, and TLC, given a follower with two sessions, finds the detail
missing.

Only model-checked: everything about `SummonPlayers`, and liveness (`DisconnectCompletes`, `EveryGuestIsMet`, `ClaimIsDelivered`), which is
out of the prover's reach.

## 6. Plan

1. `Rooms`, `Matching`, `MatchingClients`, `RoomService` and their proofs: done.
2. `SummonBroker`, `Summons`, `SummonPlayers` and their proofs: done.
3. `Friends` and its proofs: done.
4. `WebApiSessions`, `Parties` and their proofs: done.
5. `ScoreBoard` and its proofs: done.
6. `Presence` and its proofs: done.
7. Left: addresses for signaling (STUN; the hazard at `src/stun_server.cpp:96`),
   searches, external data and room messages in `Matching`, and packet framing
   as a pure algorithm (the hazard at `src/client_session.cpp:69`).

## 7. Not modelled

`PROJECT.json` lists every component with its status. In the modelled
components the following is left out:

* of the registry, a second login on one connection, the creation of accounts
  and `npidToUserId`. The check of credentials (`CheckUser`) and the look in the
  registry are one step of `Friends`;
* of matching, searches, world lists, user infos, external room data, room
  messages and signaling requests. Searches and lists only read; the others
  store or pass on what no property here is about;
* of scores, comments and inline game data, the settings and listing of boards,
  and commands over several boards, which share nothing;
* of presence, languages and sizes of texts, the platform, which members a reply
  selects, and profiles;
* of the statistics, the page itself and the time for which it is cached.

STUN keeps a table of reported addresses that nothing removes; the token of a
Web API request is a look-up; the sample client and the tests are not part of
the server. HTTP routing, JSON and protobuf encoding, SQL text and the parsing
of configuration carry no behaviour the properties are about.
