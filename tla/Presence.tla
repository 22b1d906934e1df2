------------------------------- MODULE Presence --------------------------------
(***************************************************************************)
(* What users show of themselves while online: the detail they publish     *)
(* (src/webapi_routes_presence.cpp), Appear-Offline and the game they are  *)
(* in (src/client_session.cpp), the tally of games (src/client_session.h)  *)
(* and what the clients of their friends make of it.                       *)
(*                                                                         *)
(* Sessions run in threads of their own; all Web API requests share one    *)
(* more, Http.  A handler is a series of critical sections, and task[t] is *)
(* what thread t does next, with what it has read so far.  News of a user  *)
(* with a body says what is published; news without one makes the client   *)
(* ask.  News for one client keeps its order on the way, so that its       *)
(* screen is changed when the news is sent.                                *)
(*                                                                         *)
(* Friendships do not change here: module Friends has the commands.        *)
(***************************************************************************)
EXTENDS Integers, FiniteSets

CONSTANTS
    Users,
    Friendships,    \* pairs of friends, in both orders
    Games,          \* communication ids
    NoGame,
    Fields,         \* what is published: gameData, and texts that go without it
    GameData,
    Values,         \* what may be said in a field
    Nothing,        \* an empty field, and news without a body
    Sessions,       \* connections
    UserOf,         \* the account that a connection logs in to
    Http,           \* the thread of the Web API
    Titled,         \* the connections that name their title when they log in
    Hiders,         \* bound: connections that use Appear-Offline
    Plays,          \* bound: the games a connection plays
    Writers,        \* bound: users that publish
    Quitters,       \* bound: users that delete their account
    Watchers,       \* bound: connections whose screens are followed
    MaxBusy         \* bound: handlers under way at once

ASSUME UsersAssumption ==
    /\ IsFiniteSet(Users) /\ IsFiniteSet(Sessions)
    /\ UserOf \in [Sessions -> Users]
    /\ Friendships \subseteq Users \X Users
    /\ \A x \in Friendships : <<x[2], x[1]>> \in Friendships
    /\ Plays \in [Sessions -> SUBSET Games]
    /\ Watchers \subseteq Sessions /\ Titled \subseteq Sessions
ASSUME NamesAssumption ==
    /\ NoGame \notin Games /\ Nothing \notin Values /\ Http \notin Sessions
    /\ Fields \cap {"online", "title"} = {}
ASSUME BoundAssumption == MaxBusy \in Nat

VARIABLES
    accounts,   \* the account table
    clients,    \* SharedState::clients, by user
    total,      \* usageTotalOnline
    gameUsers,  \* usageGameUsers: per game, how many are in it
    clientGame, \* usageClientGame: per user, the game last seen
    auth,       \* the sessions that are logged in
    task,       \* per thread: what its handler does next
    screen,     \* per watcher: what its client shows of each user
    due,        \* per watcher: the users its client has to ask about
    playing,    \* history: the game a session has played last
    twins,      \* history: users of whom two sessions were logged in at once
    doubtful,   \* history: users of whom something stale may have been told
    unhidden,   \* history: threads whose user was not hidden at some moment of
                \* the handler
    deletions   \* history: how many have deleted their own account

usage == <<total, gameUsers, clientGame>>
screens == <<screen, due>>
vars == <<accounts, clients, total, gameUsers, clientGame, auth, task, screen, due,
          playing, twins, doubtful, unhidden, deletions>>

Threads == Sessions \cup {Http}
Text == Values \cup {Nothing}
Detail == [Fields -> Text]
Blank == [f \in Fields |-> Nothing]

Entry == [session : Sessions, hidden : BOOLEAN, detail : Detail, notify : BOOLEAN]
News == [of : Fields \cup {"online", "title"}, body : Text]
View == [online : BOOLEAN, detail : Detail]
NewsOf(what) == [of |-> what, body |-> Nothing]

\* What a request has read of the entries of those it asks about.
NoEntry == [hidden |-> FALSE]
Snaps == UNION {[V -> Entry \cup {NoEntry}] : V \in SUBSET Users}

Idle == [at |-> "idle"]
Task ==
    {Idle}
    \cup [at : {"register"}, about : Users, hidden : BOOLEAN]
    \cup [at : {"count", "greet", "uncount", "farewell"}, about : Users, to : SUBSET Sessions]
    \cup [at : {"title", "unregister"}, about : Users]
    \cup [at : {"announce", "toggle"}, about : Users, news : SUBSET News, to : SUBSET Users]
    \cup [at : {"share"}, about : Users, news : SUBSET News, only : BOOLEAN]
    \cup [at : {"address"}, about : Users, news : SUBSET News, among : SUBSET Users, only : BOOLEAN]
    \cup [at : {"post"}, about : Users, news : SUBSET News, to : SUBSET Sessions]
    \cup [at : {"push", "display"}, about : Users, news : SUBSET News, to : SUBSET Users]
    \cup [at : {"games"}, about : Users, for : Sessions, read : Snaps]

Init ==
    /\ accounts = Users
    /\ clients = <<>>
    /\ total = 0
    /\ gameUsers = [g \in Games |-> 0]
    /\ clientGame = [u \in Users |-> NoGame]
    /\ auth = {}
    /\ task = [t \in Threads |-> Idle]
    /\ screen = [s \in Watchers |-> [u \in Users |-> [online |-> FALSE, detail |-> Blank]]]
    /\ due = [s \in Watchers |-> {}]
    /\ playing = [s \in Sessions |-> NoGame]
    /\ twins = {}
    /\ doubtful = {}
    /\ unhidden = {}
    /\ deletions = 0

---------------------------------------------------------------------------
(* Helpers                                                                 *)

Registered(u) == u \in DOMAIN clients
Visible(u) == Registered(u) /\ ~clients[u].hidden
Hidden(u) == Registered(u) /\ clients[u].hidden
FriendsOf(u) == {v \in Users : <<u, v>> \in Friendships}
FriendsOnline(u) == {v \in FriendsOf(u) : Registered(v)}
Players(u) == IF clientGame[u] = NoGame THEN {} ELSE {v \in Users : clientGame[v] = clientGame[u]}

\* A thread that may take up a request.
Free(t) ==
    /\ task[t] = Idle
    /\ Cardinality({x \in Threads : task[x] # Idle}) < MaxBusy
Goes(t, next) == task' = [task EXCEPT ![t] = next]

\* What the clients in S make of news about u.
Told(view, news) ==
    [view EXCEPT !.detail = [f \in Fields |->
        IF \E n \in news : n.of = f /\ n.body # Nothing
        THEN (CHOOSE n \in news : n.of = f).body ELSE @[f]]]
Tell(S, u, news) ==
    /\ screen' = [s \in Watchers |-> IF s \in S THEN [screen[s] EXCEPT ![u] = Told(@, news)]
                                     ELSE screen[s]]
    /\ due' = [s \in Watchers |-> IF s \in S /\ (\E n \in news : n.body = Nothing)
                                  THEN due[s] \cup {u} ELSE due[s]]

\* A client that has to ask about everybody.
AsksAnew(s) == [w \in Watchers |-> IF w = s THEN FriendsOf(UserOf[s]) ELSE due[w]]

\* Whether a thread is about to send a text of u's that it has read.
Carries(u) ==
    \E t \in Threads : /\ "news" \in DOMAIN task[t] /\ task[t].about = u
                       /\ \E n \in task[t].news : n.body # Nothing

\* Kept for every thread at work: whether its user has not been hidden since
\* its handler began.
Witnessed ==
    unhidden' = {t \in Threads :
        /\ (task[t] # Idle)'
        /\ \/ t \in unhidden
           \/ (~Hidden(task[t].about))'
           \/ task[t] = Idle /\ ~Hidden(task'[t].about)}

---------------------------------------------------------------------------
(* Logging in                                                              *)

\* The look at `clients'; a client that is let in is logged in at once.
CmdLogin(s, hidden) ==
    LET u == UserOf[s]
    IN  /\ Free(s) /\ s \notin auth
        /\ hidden => s \in Hiders
        /\ u \in accounts /\ ~Registered(u)
        /\ auth' = auth \cup {s}
        /\ twins' = IF \E x \in auth : UserOf[x] = u THEN twins \cup {u} ELSE twins
        /\ Goes(s, [at |-> "register", about |-> u, hidden |-> hidden])
        /\ UNCHANGED <<accounts, clients, usage, screens, playing, doubtful, deletions>>
        /\ Witnessed

WithEntry(s, hidden) ==
    [u \in DOMAIN clients \cup {UserOf[s]} |->
        IF u = UserOf[s]
        THEN [session |-> s, hidden |-> hidden, detail |-> Blank, notify |-> FALSE]
        ELSE clients[u]]

\* An entry knows nothing of what an earlier one showed.
Register(s) ==
    LET u == UserOf[s]
        hidden == task[s].hidden
    IN  /\ task[s].at = "register"
        /\ clients' = WithEntry(s, hidden)
        /\ due' = AsksAnew(s)
        /\ Goes(s, [at |-> "count", about |-> u,
                    to |-> IF hidden THEN {} ELSE {clients[v].session : v \in FriendsOnline(u)}])
        /\ doubtful' = CASE Carries(u) -> doubtful \cup {u}
                         [] ~Carries(u) /\ ~hidden -> doubtful \ {u}
                         [] OTHER -> doubtful
        /\ UNCHANGED <<accounts, usage, auth, screen, playing, twins, deletions>>
        /\ Witnessed

UsageOnLogin(s) ==
    /\ task[s].at = "count"
    /\ total' = total + 1
    /\ Goes(s, IF task[s].to = {} THEN Idle ELSE [task[s] EXCEPT !.at = "greet"])
    /\ UNCHANGED <<accounts, clients, gameUsers, clientGame, auth, screens, playing, twins,
                   doubtful, deletions>>
    /\ Witnessed

\* The end of a login and of a session: onlineStatus for the friends.
Greet(s) ==
    /\ task[s].at = "greet"
    /\ Tell(task[s].to, task[s].about, {NewsOf("online")})
    /\ Goes(s, Idle)
    /\ UNCHANGED <<accounts, clients, usage, auth, playing, twins, doubtful, deletions>>
    /\ Witnessed

---------------------------------------------------------------------------
(* The game of a user                                                      *)

\* A mutant: who changes games stays in the old one, too.
TouchedTwice(u, game) == [gameUsers EXCEPT ![game] = @ + 1]

\* A mutant: a change of games is counted in the old one only.
TouchedOld(u, game) ==
    [g \in Games |-> IF clientGame[u] = NoGame THEN (IF g = game THEN gameUsers[g] + 1 ELSE gameUsers[g])
                     ELSE IF g = clientGame[u] THEN gameUsers[g] - 1
                     ELSE gameUsers[g]]

\* One more in the new game, one fewer in the old one.
Touched(u, game) ==
    [g \in Games |-> IF g = game THEN gameUsers[g] + 1
                     ELSE IF g = clientGame[u] THEN gameUsers[g] - 1
                     ELSE gameUsers[g]]

\* A mutant: the first game is the one that counts.
UsageTouchGameOnce(s, game) ==
    LET u == UserOf[s]
    IN  /\ clientGame[u] # game
        /\ gameUsers' = IF clientGame[u] = NoGame THEN Touched(u, game) ELSE gameUsers
        /\ clientGame' = [clientGame EXCEPT ![u] = IF @ = NoGame THEN game ELSE @]

\* A score command names its game; only a change is news.
UsageTouchGame(s, game) ==
    LET u == UserOf[s]
    IN  /\ clientGame[u] # game
        /\ gameUsers' = Touched(u, game)
        /\ clientGame' = [clientGame EXCEPT ![u] = game]

\* A client that changes games asks about its friends again.
TouchGame(s, game) ==
    /\ Free(s) /\ s \in auth /\ game \in Plays[s]
    /\ UsageTouchGame(s, game)
    /\ playing' = [playing EXCEPT ![s] = game]
    /\ due' = AsksAnew(s)
    /\ Goes(s, [at |-> "title", about |-> UserOf[s]])
    /\ UNCHANGED <<accounts, clients, total, auth, screen, twins, doubtful, deletions>>
    /\ Witnessed

\* A mutant: titles are for those only who publish texts.
EmitWhenNotified(s) ==
    LET u == UserOf[s]
    IN  /\ task[s].at = "title"
        /\ Goes(s, IF Visible(u) /\ clients[u].notify
                   THEN [at |-> "share", about |-> u, news |-> {NewsOf("title")}, only |-> TRUE]
                   ELSE Idle)
        /\ UNCHANGED <<accounts, clients, usage, auth, screens, playing, twins, doubtful, deletions>>
        /\ Witnessed

\* The first section: those who hide say nothing.
EmitPresenceGameTitleInfo(s) ==
    LET u == UserOf[s]
    IN  /\ task[s].at = "title"
        /\ Goes(s, IF Hidden(u) THEN Idle
                   ELSE [at |-> "share", about |-> u, news |-> {NewsOf("title")}, only |-> TRUE])
        /\ UNCHANGED <<accounts, clients, usage, auth, screens, playing, twins, doubtful, deletions>>
        /\ Witnessed

\* Those in the game of the user.  News of a detail goes to every friend while
\* the game is not known, a title to nobody.
Share(t) ==
    LET u == task[t].about
        only == task[t].only
    IN  /\ task[t].at = "share"
        /\ Goes(t, IF only /\ clientGame[u] = NoGame THEN Idle
                   ELSE [at |-> "address", about |-> u, news |-> task[t].news, only |-> only,
                         among |-> IF clientGame[u] = NoGame THEN Users ELSE Players(u)])
        /\ UNCHANGED <<accounts, clients, usage, auth, screens, playing, twins, doubtful, deletions>>
        /\ Witnessed

\* The friends among them who are online, if the user still is: a title is sent
\* to users, a detail to the sessions they have.
Address(t) ==
    LET u == task[t].about
        to == IF Registered(u) THEN FriendsOnline(u) \cap task[t].among ELSE {}
    IN  /\ task[t].at = "address"
        /\ Goes(t, CASE to = {} -> Idle
                     [] to # {} /\ task[t].only ->
                            [at |-> "push", about |-> u, news |-> task[t].news, to |-> to]
                     [] OTHER ->
                            [at |-> "post", about |-> u, news |-> task[t].news,
                             to |-> {clients[v].session : v \in to}])
        /\ UNCHANGED <<accounts, clients, usage, auth, screens, playing, twins, doubtful, deletions>>
        /\ Witnessed

\* Senders are called that were read earlier.
Post(t) ==
    /\ task[t].at = "post"
    /\ Tell(task[t].to \cap auth, task[t].about, task[t].news)
    /\ Goes(t, Idle)
    /\ UNCHANGED <<accounts, clients, usage, auth, playing, twins, doubtful, deletions>>
    /\ Witnessed

\* PushWebApiEvent looks the sender up.
SessionsOf(V) == {clients[v].session : v \in V \cap DOMAIN clients}

Push(s) ==
    /\ task[s].at = "push"
    /\ Tell(SessionsOf(task[s].to), task[s].about, task[s].news)
    /\ Goes(s, Idle)
    /\ UNCHANGED <<accounts, clients, usage, auth, playing, twins, doubtful, deletions>>
    /\ Witnessed

---------------------------------------------------------------------------
(* Appear-Offline                                                          *)

\* What is said of the detail of u when u shows itself or hides: what there is,
\* and the text only to show it to those who have asked for texts.
DetailNews(u, hide) ==
    {[of |-> f, body |-> IF ~hide /\ clients[u].notify THEN clients[u].detail[f] ELSE Nothing] :
        f \in {x \in Fields : clients[u].detail[x] # Nothing}}

\* The title of an entry is that of the session that made it.
TitleNews(u) == IF clients[u].session \in Titled THEN {NewsOf("title")} ELSE {}

CmdSetAppearOffline(s, hide) ==
    LET u == UserOf[s]
    IN  /\ Free(s) /\ s \in auth /\ s \in Hiders
        /\ Registered(u) /\ clients[u].hidden # hide
        /\ clients' = [clients EXCEPT ![u].hidden = hide]
        /\ Goes(s, [at |-> "announce", about |-> u, to |-> FriendsOnline(u),
                    news |-> TitleNews(u) \cup DetailNews(u, hide)])
        /\ UNCHANGED <<accounts, usage, auth, screens, playing, twins, doubtful, deletions>>
        /\ Witnessed

\* All friends hear of the change.
AnnounceStatus(s) ==
    /\ task[s].at = "announce"
    /\ Tell(SessionsOf(task[s].to), task[s].about, {NewsOf("online")})
    /\ Goes(s, [task[s] EXCEPT !.at = "toggle"])
    /\ UNCHANGED <<accounts, clients, usage, auth, playing, twins, doubtful, deletions>>
    /\ Witnessed

\* Those in the same game hear of the title and the detail, if there is either.
AnnounceDetail(s) ==
    LET to == task[s].to \cap Players(UserOf[s])
    IN  /\ task[s].at = "toggle"
        /\ Goes(s, IF to = {} \/ task[s].news = {} THEN Idle
                   ELSE [at |-> "display", about |-> task[s].about, news |-> task[s].news, to |-> to])
        /\ UNCHANGED <<accounts, clients, usage, auth, screens, playing, twins, doubtful, deletions>>
        /\ Witnessed

\* The title comes first, and a client may ask before it has the rest.
Display(s) ==
    LET news == task[s].news
        title == {n \in news : n.of = "title"}
        now == IF title = {} THEN news ELSE title
    IN  /\ task[s].at = "display"
        /\ Tell(SessionsOf(task[s].to), task[s].about, now)
        /\ Goes(s, IF now = news THEN Idle ELSE [task[s] EXCEPT !.news = news \ now])
        /\ UNCHANGED <<accounts, clients, usage, auth, playing, twins, doubtful, deletions>>
        /\ Witnessed

---------------------------------------------------------------------------
(* The Web API: one request at a time                                      *)

\* What a request to publish may hold.
Bodies == UNION {[W -> Values] : W \in SUBSET Fields}

\* A mutant: what is published while hidden is announced as usual.
PublishedAnyway(u, hidden, news) ==
    [at |-> "share", about |-> u, news |-> news, only |-> FALSE]

\* What is left to do once the entry is written.
Published(u, hidden, news) ==
    IF hidden \/ news = {} THEN Idle
    ELSE [at |-> "share", about |-> u, news |-> news, only |-> FALSE]

\* An entry takes what is published, and remembers for good that texts were
\* asked for.
Showing(entry, new, notify) ==
    [entry EXCEPT !.detail = [f \in Fields |-> IF f \in DOMAIN new THEN new[f] ELSE @[f]],
                  !.notify = @ \/ notify]

HandlePresenceWrite(u, new, notify) ==
    /\ Free(Http) /\ u \in accounts \cap Writers
    /\ clients' = IF Registered(u)
                  THEN [clients EXCEPT ![u] = Showing(@, new, notify)] ELSE clients
    /\ LET texts == Registered(u) /\ clients'[u].notify
       IN  Goes(Http, Published(u, Hidden(u),
                    {[of |-> f, body |-> IF texts THEN new[f] ELSE Nothing] : f \in DOMAIN new}))
    /\ doubtful' = IF Carries(u) THEN doubtful \cup {u} ELSE doubtful
    /\ UNCHANGED <<accounts, usage, auth, screens, playing, twins, deletions>>
    /\ Witnessed

\* Without its data a game has no more texts sent.
Dropping(entry, f) == [entry EXCEPT !.detail[f] = Nothing, !.notify = @ /\ f # GameData]

HandlePresenceDelete(u, f) ==
    /\ Free(Http) /\ u \in accounts \cap Writers
    /\ clients' = IF Registered(u)
                  THEN [clients EXCEPT ![u] = Dropping(@, f)] ELSE clients
    /\ Goes(Http, Published(u, Hidden(u), {NewsOf(f)}))
    /\ doubtful' = IF Carries(u) THEN doubtful \cup {u} ELSE doubtful
    /\ UNCHANGED <<accounts, usage, auth, screens, playing, twins, deletions>>
    /\ Witnessed

\* What is read of users of whom a client asks: the entries first.
Asks(s, V) ==
    /\ Free(Http) /\ s \in auth \cap Watchers /\ UserOf[s] \in accounts
    /\ V # {} /\ V \subseteq due[s] \cap accounts
    /\ due' = [due EXCEPT ![s] = @ \ V]
    /\ Goes(Http, [at |-> "games", about |-> UserOf[s], for |-> s,
                   read |-> [v \in V |-> IF Registered(v) THEN clients[v] ELSE NoEntry]])
    /\ UNCHANGED <<accounts, clients, usage, auth, screen, playing, twins, doubtful, deletions>>
    /\ Witnessed

\* The presence of one friend, or the friend list with that of all.
PresenceSnap(s, v) == Asks(s, {v})
FriendListSnap(s) == Asks(s, due[s] \cap accounts)

InSameGame(u, v) == u \in Players(v)

\* Those who hide are shown to the players of their game, and a detail to
\* nobody else.
Shown(read, same) ==
    [online |-> read # NoEntry /\ (same \/ ~read.hidden),
     detail |-> IF read # NoEntry /\ same THEN read.detail ELSE Blank]

\* Then the games.
GetPresence ==
    LET t == task[Http]
    IN  /\ t.at = "games"
        /\ screen' = [screen EXCEPT ![t.for] =
                        [v \in Users |-> IF v \in DOMAIN t.read
                                         THEN Shown(t.read[v], InSameGame(t.about, v)) ELSE @[v]]]
        /\ Goes(Http, Idle)
        /\ UNCHANGED <<accounts, clients, usage, auth, due, playing, twins, doubtful, deletions>>
        /\ Witnessed

---------------------------------------------------------------------------
(* Leaving                                                                 *)

\* The entry is erased, whichever session it belongs to.
CleanupOnDisconnect(s) ==
    LET u == UserOf[s]
    IN  /\ Free(s) /\ s \in auth
        /\ clients' = [v \in DOMAIN clients \ {u} |-> clients[v]]
        /\ Goes(s, [at |-> "uncount", about |-> u,
                    to |-> IF Visible(u) THEN {clients[v].session : v \in FriendsOnline(u)} ELSE {}])
        /\ doubtful' = IF Hidden(u) THEN doubtful \cup {u} ELSE doubtful
        /\ UNCHANGED <<accounts, usage, auth, screens, playing, twins, deletions>>
        /\ Witnessed

\* The game is that of the user, whichever session played it.
UsageOnLogout(s) ==
    LET u == UserOf[s]
    IN  /\ task[s].at = "uncount"
        /\ total' = IF total > 0 THEN total - 1 ELSE 0
        /\ gameUsers' = [g \in Games |-> IF g = clientGame[u] THEN gameUsers[g] - 1 ELSE gameUsers[g]]
        /\ clientGame' = [clientGame EXCEPT ![u] = NoGame]
        /\ Goes(s, [task[s] EXCEPT !.at = "farewell"])
        /\ UNCHANGED <<accounts, clients, auth, screens, playing, twins, doubtful, deletions>>
        /\ Witnessed

\* A session that is gone receives nothing more, and nobody waits for it.
Without(s, next) ==
    IF "for" \in DOMAIN next /\ next.for = s THEN Idle
    ELSE IF next.at \in {"count", "greet", "uncount", "farewell", "post"}
    THEN [next EXCEPT !.to = @ \ {s}]
    ELSE next

Gone(s) ==
    /\ auth' = auth \ {s}
    /\ task' = [t \in Threads |-> IF t = s THEN Idle ELSE Without(s, task[t])]
    /\ playing' = [playing EXCEPT ![s] = NoGame]

Farewell(s) ==
    LET u == task[s].about
        empty == [v \in Users |-> [online |-> FALSE, detail |-> Blank]]
    IN  /\ task[s].at = "farewell"
        /\ screen' = [t \in Watchers |-> IF t = s THEN empty ELSE screen[t]]
        /\ due' = [t \in Watchers |-> IF t = s THEN {}
                                      ELSE IF t \in task[s].to THEN due[t] \cup {u} ELSE due[t]]
        /\ Gone(s)
        /\ UNCHANGED <<accounts, clients, usage, twins, doubtful, deletions>>
        /\ Witnessed

\* The own account, and what the table holds of it.
CmdDelete(s) ==
    LET u == UserOf[s]
    IN  /\ Free(s) /\ s \in auth /\ u \in accounts \cap Quitters
        /\ accounts' = accounts \ {u}
        /\ Goes(s, [at |-> "unregister", about |-> u])
        /\ UNCHANGED <<clients, usage, auth, screens, playing, twins, doubtful, deletions>>
        /\ Witnessed

\* The session is dropped, uncounted and without a word.
Unregister(s) ==
    LET u == UserOf[s]
    IN  /\ task[s].at = "unregister"
        /\ clients' = [v \in DOMAIN clients \ {u} |-> clients[v]]
        /\ screen' = [t \in Watchers |-> IF t = s
                        THEN [v \in Users |-> [online |-> FALSE, detail |-> Blank]] ELSE screen[t]]
        /\ due' = [t \in Watchers |-> IF t = s THEN {} ELSE due[t]]
        /\ Gone(s)
        /\ doubtful' = doubtful \cup {u}
        /\ deletions' = deletions + 1
        /\ UNCHANGED <<accounts, usage, twins>>
        /\ Witnessed

---------------------------------------------------------------------------

SessionStep(s) ==
    \/ \E hidden \in BOOLEAN : CmdLogin(s, hidden) \/ CmdSetAppearOffline(s, hidden)
    \/ Register(s) \/ UsageOnLogin(s) \/ Greet(s)
    \/ \E g \in Games : TouchGame(s, g)
    \/ EmitPresenceGameTitleInfo(s) \/ Push(s)
    \/ AnnounceStatus(s) \/ AnnounceDetail(s) \/ Display(s)
    \/ CleanupOnDisconnect(s) \/ UsageOnLogout(s) \/ Farewell(s)
    \/ CmdDelete(s) \/ Unregister(s)

Request ==
    \/ \E u \in Users : \/ \E new \in Bodies, notify \in BOOLEAN : HandlePresenceWrite(u, new, notify)
                        \/ \E f \in Fields : HandlePresenceDelete(u, f)
    \/ \E s \in Watchers : FriendListSnap(s) \/ \E v \in Users : PresenceSnap(s, v)
    \/ GetPresence
    \/ Post(Http)

Next ==
    \/ \E s \in Sessions : SessionStep(s)
    \/ Request
    \/ \E t \in Threads : Share(t) \/ Address(t)

Spec == Init /\ [][Next]_vars

---------------------------------------------------------------------------
(* Properties                                                              *)

TypeOK ==
    /\ accounts \subseteq Users
    /\ DOMAIN clients \subseteq Users
    /\ \A u \in DOMAIN clients : clients[u] \in Entry
    /\ total \in Nat
    /\ gameUsers \in [Games -> Nat]
    /\ clientGame \in [Users -> Games \cup {NoGame}]
    /\ auth \subseteq Sessions
    /\ task \in [Threads -> Task]
    /\ screen \in [Watchers -> [Users -> View]]
    /\ due \in [Watchers -> SUBSET Users]
    /\ playing \in [Sessions -> Games \cup {NoGame}]
    /\ twins \subseteq Users /\ doubtful \subseteq Users
    /\ unhidden \subseteq Threads
    /\ deletions \in Nat

\* A session that has counted and not uncounted itself.
Counted(s) == s \in auth /\ task[s].at \notin {"register", "count", "farewell"}

\* What the statistics page says of a game is how many users are in it, and each
\* of them is online, but for those that have deleted their account.
TallyIsTrue ==
    /\ \A g \in Games : gameUsers[g] = Cardinality({u \in Users : clientGame[u] = g})
    /\ \A u \in accounts : clientGame[u] # NoGame => \E s \in Sessions : UserOf[s] = u /\ Counted(s)

\* Nobody who plays is missing from the statistics, as long as the sessions of
\* a user have followed one another.
PlayersAreCounted ==
    \A s \in auth :
        UserOf[s] \notin twins /\ task[s].at # "farewell" => clientGame[UserOf[s]] = playing[s]

\* Nothing is sent about the game of users who have been hidden for as long as
\* the handler that sends it has been at work, but that they hide.
HidingIsQuiet ==
    \A t \in Threads : task[t].at \in {"post", "push"} => t \in unhidden

Settled == \A t \in Threads : task[t] = Idle

\* Once nothing is under way, a client that has asked about all it was told to
\* ask about shows every friend online that is visible, with the very detail if
\* they are in one game, and nobody that is gone: however entries, games, details
\* and Appear-Offline change, and in whatever order the news of it was sent.  A
\* game is one of the user, and a client does not hear of it when another session
\* of its user changes it.
ScreensFollow ==
    Settled => \A s \in Watchers \cap auth, v \in Users :
        LET u == UserOf[s]
            shown == screen[s][v]
        IN  (/\ Registered(u) /\ clients[u].session = s
             /\ v \in FriendsOf(u) \ due[s]) =>
                /\ Visible(v) => shown.online
                /\ Visible(v) /\ InSameGame(u, v) /\ v \notin doubtful /\ u \notin twins =>
                        shown.detail = clients[v].detail
                /\ shown.online => Registered(v) \/ v \in doubtful
================================================================================
