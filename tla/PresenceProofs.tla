---------------------------- MODULE PresenceProofs -----------------------------
(***************************************************************************)
(* Theorems about Presence, for any users, sessions, games and number of   *)
(* handlers under way: types, the tally of games, who is counted in it,    *)
(* that nothing is told of users while they hide, and, from "What is on    *)
(* its way to a screen" on, that screens come to show what is so.          *)
(***************************************************************************)
EXTENDS Presence, FiniteSetTheorems, TLAPS

\* Of two sessions of a user one is a twin; one that is not logged in plays
\* nothing; who unregisters has no account any more, and who has yet to uncount
\* itself is logged in.
SessionsSound ==
    /\ \A s, t \in auth : s # t /\ UserOf[s] = UserOf[t] => UserOf[s] \in twins
    /\ \A s \in Sessions : s \notin auth => playing[s] = NoGame
    /\ \A s \in Sessions : task[s].at = "unregister" => UserOf[s] \notin accounts
    /\ \A s \in Sessions : task[s].at = "uncount" => s \in auth

\* From the look at Appear-Offline on, a handler has seen its user not hidden.
NewsSeen ==
    \A t \in Threads : task[t].at \in {"share", "address", "post", "push"} => t \in unhidden

\* The inductive invariant.
IInv == TypeOK /\ TallyIsTrue /\ PlayersAreCounted /\ SessionsSound /\ NewsSeen

---------------------------------------------------------------------------
(* What handlers hold, and what clients are told                           *)

LEMMA IdleIsTask == Idle \in Task /\ Idle.at = "idle"
BY DEF Task, Idle

\* What a task holds, by where its handler is.
LEMMA TaskHolds ==
    ASSUME NEW t \in Task
    PROVE  /\ t.at = "idle" => t = Idle
           /\ t.at # "idle" => t.about \in Users
           /\ t.at = "register" => t.hidden \in BOOLEAN
           /\ t.at \in {"count", "greet", "uncount", "farewell", "post"} => t.to \in SUBSET Sessions
           /\ t.at \in {"announce", "toggle", "push", "display"} => t.to \in SUBSET Users
           /\ t.at \in {"announce", "toggle", "push", "display", "share", "address", "post"} =>
                t.news \in SUBSET News
           /\ t.at \in {"share", "address"} => t.only \in BOOLEAN
           /\ t.at = "address" => t.among \in SUBSET Users
           /\ t.at = "games" => t.for \in Sessions /\ t.read \in Snaps
BY DEF Task, Idle

LEMMA NewsOfIsNews ==
    ASSUME NEW what \in Fields \cup {"online", "title"}
    PROVE  NewsOf(what) \in News
BY DEF NewsOf, News, Text

\* Whatever clients are told, their screens keep their type.
LEMMA TellType ==
    ASSUME TypeOK, NEW S, NEW u \in Users, NEW news \in SUBSET News, Tell(S, u, news)
    PROVE  /\ screen' \in [Watchers -> [Users -> View]]
           /\ due' \in [Watchers -> SUBSET Users]
<1>1. ASSUME NEW view \in View PROVE Told(view, news) \in View
  <2> DEFINE detail == [f \in Fields |->
                  IF \E n \in news : n.of = f /\ n.body # Nothing
                  THEN (CHOOSE n \in news : n.of = f).body ELSE view.detail[f]]
  <2>1. ASSUME NEW f \in Fields, \E n \in news : n.of = f
        PROVE  (CHOOSE n \in news : n.of = f).body \in Text
    <3>1. (CHOOSE n \in news : n.of = f) \in news
      BY <2>1
    <3>2. QED
      BY <3>1 DEF News
  <2>2. detail \in Detail
    BY <2>1 DEF View, Detail
  <2>3. Told(view, news) = [view EXCEPT !.detail = detail]
    BY DEF Told, View
  <2>4. QED
    BY <2>2, <2>3 DEF View
<1>2. /\ screen \in [Watchers -> [Users -> View]]
      /\ due \in [Watchers -> SUBSET Users]
  BY DEF TypeOK
<1>3. ASSUME NEW s \in Watchers
      PROVE  [screen[s] EXCEPT ![u] = Told(@, news)] \in [Users -> View]
  BY <1>1, <1>2
<1>4. screen' \in [Watchers -> [Users -> View]]
  BY <1>2, <1>3 DEF Tell
<1>5. due' \in [Watchers -> SUBSET Users]
  BY <1>2 DEF Tell
<1>6. QED
  BY <1>4, <1>5

\* The sessions in entries are sessions.
LEMMA SendersAreSessions ==
    ASSUME TypeOK, NEW V
    PROVE  {clients[v].session : v \in V \cap DOMAIN clients} \in SUBSET Sessions
BY DEF TypeOK, Entry

LEMMA FriendsAreUsers ==
    ASSUME TypeOK, NEW u
    PROVE  /\ FriendsOf(u) \in SUBSET Users
           /\ FriendsOnline(u) \in SUBSET Users
           /\ {clients[v].session : v \in FriendsOnline(u)} \in SUBSET Sessions
BY DEF FriendsOf, FriendsOnline, Registered, TypeOK, Entry

---------------------------------------------------------------------------
(* Steps that leave sessions and games alone                               *)

\* What a handler has seen stays seen when another one moves on.
LEMMA NewsStaysSeen ==
    ASSUME NewsSeen, task \in [Threads -> Task], NEW t \in Threads, NEW next,
           task' = [task EXCEPT ![t] = next], Witnessed,
           next.at \in {"share", "address", "post", "push"} => t \in unhidden'
    PROVE  NewsSeen'
<1> SUFFICES ASSUME NEW x \in Threads, task'[x].at \in {"share", "address", "post", "push"}
             PROVE  x \in unhidden'
  BY DEF NewsSeen
<1>1. CASE x = t
  BY <1>1
<1>2. CASE x # t
  <2>1. task'[x] = task[x]
    BY <1>2
  <2>2. x \in unhidden /\ task'[x] # Idle
    BY <2>1, IdleIsTask DEF NewsSeen
  <2>3. QED
    BY <2>2 DEF Witnessed
<1>3. QED
  BY <1>1, <1>2

\* What has to be shown of a step that moves a handler on and counts nothing.
LEMMA HandlerMoves ==
    ASSUME IInv, NEW t \in Threads, NEW next \in Task, Goes(t, next), Witnessed,
           UNCHANGED <<accounts, gameUsers, clientGame, auth, playing, twins, deletions>>,
           DOMAIN clients' \subseteq Users,
           \A u \in DOMAIN clients' : clients'[u] \in Entry,
           total' \in Nat,
           screen' \in [Watchers -> [Users -> View]],
           due' \in [Watchers -> SUBSET Users],
           doubtful' \subseteq Users,
           next.at \in {"register", "count", "farewell"} => task[t].at \in {"register", "count"},
           task[t].at # "farewell",
           next.at # "unregister",
           next.at = "uncount" => t \in auth,
           next.at \in {"share", "address", "post", "push"} => t \in unhidden'
    PROVE  IInv'
<1>1. task \in [Threads -> Task] /\ task' \in [Threads -> Task]
  BY DEF IInv, TypeOK, Goes
<1>2. unhidden' \subseteq Threads
  BY DEF Witnessed
<1>3. TypeOK'
  BY <1>1, <1>2 DEF IInv, TypeOK
<1>4. \A s \in Sessions : Counted(s) => Counted(s)'
  BY <1>1 DEF Counted, Goes, Threads
<1>5. TallyIsTrue'
  BY <1>4 DEF IInv, TallyIsTrue
<1>6. PlayersAreCounted'
  BY <1>1 DEF IInv, PlayersAreCounted, Goes, Threads, TypeOK
<1>7. SessionsSound'
  BY <1>1 DEF IInv, SessionsSound, Goes, Threads
<1>8. NewsSeen'
  BY <1>1, NewsStaysSeen DEF IInv, Goes
<1>9. QED
  BY <1>3, <1>5, <1>6, <1>7, <1>8 DEF IInv
\* The same of a step that leaves the entries and the screens alone, too.
LEMMA HandlerThinks ==
    ASSUME IInv, NEW t \in Threads, NEW next \in Task, Goes(t, next), Witnessed,
           UNCHANGED <<accounts, clients, gameUsers, clientGame, auth, playing, twins, doubtful,
                       deletions>>,
           UNCHANGED screens,
           total' \in Nat,
           next.at \in {"register", "count", "farewell"} => task[t].at \in {"register", "count"},
           task[t].at # "farewell",
           next.at # "unregister",
           next.at = "uncount" => t \in auth,
           next.at \in {"share", "address", "post", "push"} => t \in unhidden'
    PROVE  IInv'
<1>1. /\ DOMAIN clients' \subseteq Users
      /\ \A u \in DOMAIN clients' : clients'[u] \in Entry
      /\ screen' \in [Watchers -> [Users -> View]]
      /\ due' \in [Watchers -> SUBSET Users]
      /\ doubtful' \subseteq Users
  BY DEF IInv, TypeOK, screens
<1>2. QED
  BY <1>1, HandlerMoves

\* The same of a step that tells news.
LEMMA HandlerTells ==
    ASSUME IInv, NEW t \in Threads, NEW next \in Task, Goes(t, next), Witnessed,
           UNCHANGED <<accounts, clients, usage, auth, playing, twins, doubtful, deletions>>,
           NEW S, NEW u \in Users, NEW news \in SUBSET News, Tell(S, u, news),
           task[t].at # "farewell",
           next.at \in {"idle", "toggle", "display"}
    PROVE  IInv'
<1>1. /\ screen' \in [Watchers -> [Users -> View]]
      /\ due' \in [Watchers -> SUBSET Users]
  BY TellType DEF IInv
<1>2. UNCHANGED <<total, gameUsers, clientGame>>
  BY DEF usage
<1>3. /\ DOMAIN clients' \subseteq Users
      /\ \A v \in DOMAIN clients' : clients'[v] \in Entry
      /\ doubtful' \subseteq Users /\ total' \in Nat
  BY <1>2 DEF IInv, TypeOK
<1>4. QED
  BY <1>1, <1>2, <1>3, HandlerMoves

\* A thread that goes on with a user who is not hidden has seen it so.
LEMMA SeesUnhidden ==
    ASSUME NEW t \in Threads, NEW next, Goes(t, next), Witnessed, next # Idle,
           task \in [Threads -> Task],
           t \in unhidden \/ (task[t] = Idle /\ ~Hidden(next.about))
    PROVE  t \in unhidden'
BY DEF Goes, Witnessed

LEMMA RegisterKeeps ==
    ASSUME IInv, NEW s \in Sessions, Register(s)
    PROVE  IInv'
<1> DEFINE u == UserOf[s]
           hidden == task[s].hidden
           next == [at |-> "count", about |-> u,
                    to |-> IF hidden THEN {} ELSE {clients[v].session : v \in FriendsOnline(u)}]
<1>1. /\ task[s] \in Task /\ s \in Threads /\ u \in Users /\ TypeOK
      /\ task[s].at = "register" /\ hidden \in BOOLEAN
  BY TaskHolds, UsersAssumption DEF IInv, TypeOK, Register, Threads
<1>2. /\ UNCHANGED <<accounts, total, gameUsers, clientGame, auth, screen, playing, twins, deletions>>
      /\ Goes(s, next) /\ Witnessed /\ clients' = WithEntry(s, hidden) /\ due' = AsksAnew(s)
  BY DEF Register, usage
<1>3. next \in Task
  BY <1>1, FriendsAreUsers DEF Task
<1>4. [session |-> s, hidden |-> hidden, detail |-> Blank, notify |-> FALSE] \in Entry
  BY <1>1 DEF Entry, Detail, Blank, Text
<1>5. /\ DOMAIN clients' \subseteq Users
      /\ \A v \in DOMAIN clients' : clients'[v] \in Entry
  BY <1>1, <1>2, <1>4 DEF WithEntry, TypeOK
<1>6. due' \in [Watchers -> SUBSET Users]
  BY <1>1, <1>2, FriendsAreUsers DEF AsksAnew, TypeOK
<1>7. doubtful' \subseteq Users
  BY <1>1 DEF Register, TypeOK
<1>8. QED
  BY <1>1, <1>2, <1>3, <1>5, <1>6, <1>7, HandlerMoves DEF TypeOK

LEMMA UsageOnLoginKeeps ==
    ASSUME IInv, NEW s \in Sessions, UsageOnLogin(s)
    PROVE  IInv'
<1>1. /\ task[s] \in Task /\ s \in Threads /\ task[s].at = "count" /\ total' = total + 1
      /\ total \in Nat
  BY DEF IInv, TypeOK, UsageOnLogin, Threads
<1>2. [task[s] EXCEPT !.at = "greet"] \in Task /\ [task[s] EXCEPT !.at = "greet"].at = "greet"
  BY <1>1 DEF Task, Idle
<1>3. PICK next \in Task : Goes(s, next) /\ next.at \in {"idle", "greet"}
  BY <1>2, IdleIsTask DEF UsageOnLogin
<1>4. QED
  BY <1>1, <1>3, HandlerThinks DEF UsageOnLogin

LEMMA GreetKeeps ==
    ASSUME IInv, NEW s \in Sessions, Greet(s)
    PROVE  IInv'
<1>1. /\ task[s] \in Task /\ s \in Threads /\ task[s].at = "greet" /\ task[s].about \in Users
  BY TaskHolds DEF IInv, TypeOK, Greet, Threads
<1>2. {NewsOf("online")} \in SUBSET News
  BY NewsOfIsNews
<1>3. QED
  BY <1>1, <1>2, IdleIsTask, HandlerTells DEF Greet

LEMMA TitleKeeps ==
    ASSUME IInv, NEW s \in Sessions, EmitPresenceGameTitleInfo(s)
    PROVE  IInv'
<1> DEFINE u == UserOf[s]
           share == [at |-> "share", about |-> u, news |-> {NewsOf("title")}, only |-> TRUE]
<1>1. /\ task[s] \in Task /\ s \in Threads /\ task[s].at = "title" /\ u \in Users
      /\ task \in [Threads -> Task]
  BY UsersAssumption DEF IInv, TypeOK, EmitPresenceGameTitleInfo, Threads
<1>2. share \in Task /\ share # Idle
  BY <1>1, NewsOfIsNews DEF Task, Idle
<1>3. UNCHANGED <<accounts, clients, total, gameUsers, clientGame, auth, playing, twins, doubtful,
                  deletions>> /\ UNCHANGED screens /\ Witnessed
  BY DEF EmitPresenceGameTitleInfo, usage
<1>4. CASE Hidden(u)
  BY <1>1, <1>3, <1>4, IdleIsTask, HandlerThinks DEF EmitPresenceGameTitleInfo, IInv, TypeOK
<1>5. CASE ~Hidden(u)
  <2>1. Goes(s, share)
    BY <1>5 DEF EmitPresenceGameTitleInfo
  <2>2. task'[s] = share /\ task'[s].about = u
    BY <1>1, <2>1 DEF Goes
  <2>3. (~Hidden(task[s].about))'
    BY <1>3, <1>5, <2>2 DEF Hidden, Registered
  <2>4. s \in unhidden'
    BY <1>1, <1>2, <1>3, <2>2, <2>3 DEF Witnessed
  <2>5. QED
    BY <1>1, <1>2, <1>3, <2>1, <2>4, HandlerThinks DEF IInv, TypeOK
<1>6. QED
  BY <1>4, <1>5

LEMMA ShareKeeps ==
    ASSUME IInv, NEW t \in Threads, Share(t)
    PROVE  IInv'
<1> DEFINE u == task[t].about
           address == [at |-> "address", about |-> u, news |-> task[t].news, only |-> task[t].only,
                       among |-> IF clientGame[u] = NoGame THEN Users ELSE Players(u)]
<1>1. /\ task[t] \in Task /\ task[t].at = "share" /\ task[t] # Idle /\ u \in Users
      /\ task[t].news \in SUBSET News /\ task[t].only \in BOOLEAN
      /\ task \in [Threads -> Task] /\ t \in unhidden
  BY TaskHolds, IdleIsTask DEF IInv, TypeOK, Share, NewsSeen
<1>2. Players(u) \in SUBSET Users
  BY DEF Players
<1>3. address \in Task /\ address # Idle
  BY <1>1, <1>2 DEF Task, Idle
<1>4. PICK next \in Task : Goes(t, next) /\ (next = Idle \/ next = address)
  BY <1>3, IdleIsTask DEF Share
<1>5. UNCHANGED <<accounts, clients, total, gameUsers, clientGame, auth, playing, twins, doubtful,
                  deletions>> /\ UNCHANGED screens /\ Witnessed
  BY DEF Share, usage
<1>6. next.at \in {"share", "address", "post", "push"} => t \in unhidden'
  BY <1>1, <1>3, <1>4, <1>5, IdleIsTask, SeesUnhidden
<1>7. next.at \in {"idle", "address"}
  BY <1>4, IdleIsTask
<1>8. QED
  BY <1>1, <1>4, <1>5, <1>6, <1>7, HandlerThinks DEF IInv, TypeOK

LEMMA AddressKeeps ==
    ASSUME IInv, NEW t \in Threads, Address(t)
    PROVE  IInv'
<1> DEFINE u == task[t].about
           to == IF Registered(u) THEN FriendsOnline(u) \cap task[t].among ELSE {}
           push == [at |-> "push", about |-> u, news |-> task[t].news, to |-> to]
           post == [at |-> "post", about |-> u, news |-> task[t].news,
                    to |-> {clients[v].session : v \in to}]
<1>1. /\ task[t] \in Task /\ task[t].at = "address" /\ u \in Users
      /\ task[t].news \in SUBSET News
      /\ task \in [Threads -> Task] /\ t \in unhidden /\ TypeOK
  BY TaskHolds DEF IInv, TypeOK, Address, NewsSeen
<1>2. to \in SUBSET Users /\ {clients[v].session : v \in to} \in SUBSET Sessions
  BY <1>1, FriendsAreUsers DEF FriendsOnline, Registered, TypeOK, Entry
<1>3. /\ push \in Task /\ push # Idle /\ push.at = "push"
      /\ post \in Task /\ post # Idle /\ post.at = "post"
  BY <1>1, <1>2 DEF Task, Idle
<1>4. PICK next \in Task : Goes(t, next) /\ (next = Idle \/ next = push \/ next = post)
  BY <1>3, IdleIsTask DEF Address
<1>5. UNCHANGED <<accounts, clients, total, gameUsers, clientGame, auth, playing, twins, doubtful,
                  deletions>> /\ UNCHANGED screens /\ Witnessed
  BY DEF Address, usage
<1>6. next.at \in {"share", "address", "post", "push"} => t \in unhidden'
  BY <1>1, <1>3, <1>4, <1>5, IdleIsTask, SeesUnhidden
<1>7. next.at \in {"idle", "push", "post"}
  BY <1>3, <1>4, IdleIsTask
<1>8. QED
  BY <1>1, <1>4, <1>5, <1>6, <1>7, HandlerThinks DEF IInv, TypeOK

LEMMA PostKeeps ==
    ASSUME IInv, NEW t \in Threads, Post(t)
    PROVE  IInv'
<1>1. /\ task[t] \in Task /\ task[t].at = "post" /\ task[t].about \in Users
      /\ task[t].news \in SUBSET News
  BY TaskHolds DEF IInv, TypeOK, Post
<1>2. QED
  BY <1>1, IdleIsTask, HandlerTells DEF Post

LEMMA PushKeeps ==
    ASSUME IInv, NEW s \in Sessions, Push(s)
    PROVE  IInv'
<1>1. /\ task[s] \in Task /\ s \in Threads /\ task[s].at = "push" /\ task[s].about \in Users
      /\ task[s].news \in SUBSET News
  BY TaskHolds DEF IInv, TypeOK, Push, Threads
<1>2. QED
  BY <1>1, IdleIsTask, HandlerTells DEF Push
LEMMA AppearOfflineKeeps ==
    ASSUME IInv, NEW s \in Sessions, NEW hide \in BOOLEAN, CmdSetAppearOffline(s, hide)
    PROVE  IInv'
<1> DEFINE u == UserOf[s]
           next == [at |-> "announce", about |-> u, to |-> FriendsOnline(u),
                    news |-> TitleNews(u) \cup DetailNews(u, hide)]
<1>1. /\ s \in Threads /\ task[s] = Idle /\ u \in Users /\ TypeOK
      /\ u \in DOMAIN clients /\ clients[u] \in Entry
      /\ clients' = [clients EXCEPT ![u].hidden = hide] /\ Goes(s, next) /\ Witnessed
      /\ UNCHANGED <<accounts, total, gameUsers, clientGame, auth, playing, twins, doubtful, deletions>>
      /\ UNCHANGED <<screen, due>>
  BY UsersAssumption DEF IInv, TypeOK, CmdSetAppearOffline, Threads, Free, Registered, usage, screens
<1>2. DetailNews(u, hide) \in SUBSET News
  <2>1. clients[u].detail \in [Fields -> Text] /\ Nothing \in Text
    BY <1>1 DEF Entry, Detail, Text
  <2>2. QED
    BY <2>1 DEF DetailNews, News
<1>3. TitleNews(u) \in SUBSET News
  BY NewsOfIsNews DEF TitleNews
<1>4. next \in Task
  BY <1>1, <1>2, <1>3, FriendsAreUsers DEF Task
<1>5. [clients[u] EXCEPT !.hidden = hide] \in Entry
  BY <1>1 DEF Entry
<1>6. /\ DOMAIN clients' \subseteq Users
      /\ \A v \in DOMAIN clients' : clients'[v] \in Entry
  BY <1>1, <1>5 DEF TypeOK
<1>7. QED
  BY <1>1, <1>4, <1>6, IdleIsTask, HandlerMoves DEF TypeOK

LEMMA AnnouncementsKeep ==
    ASSUME IInv, NEW s \in Sessions, AnnounceStatus(s) \/ AnnounceDetail(s) \/ Display(s)
    PROVE  IInv'
<1> DEFINE t == task[s]
<1>1. /\ t \in Task /\ s \in Threads /\ t.at \in {"announce", "toggle", "display"}
      /\ t.about \in Users /\ t.to \in SUBSET Users /\ t.news \in SUBSET News
  BY TaskHolds DEF IInv, TypeOK, AnnounceStatus, AnnounceDetail, Display, Threads
<1>2. ASSUME NEW at \in {"announce", "toggle", "display"}, NEW to \in SUBSET Users,
             NEW news \in SUBSET News
      PROVE  [at |-> at, about |-> t.about, news |-> news, to |-> to] \in Task
  BY <1>1 DEF Task
<1>3. t = [at |-> t.at, about |-> t.about, news |-> t.news, to |-> t.to]
  BY <1>1 DEF Task, Idle
<1>4. CASE AnnounceStatus(s)
  <2>1. [t EXCEPT !.at = "toggle"] \in Task /\ [t EXCEPT !.at = "toggle"].at = "toggle"
    BY <1>1, <1>2, <1>3
  <2>2. {NewsOf("online")} \in SUBSET News
    BY NewsOfIsNews
  <2>3. QED
    BY <1>1, <1>4, <2>1, <2>2, HandlerTells DEF AnnounceStatus
<1>5. CASE AnnounceDetail(s)
  <2> DEFINE to == t.to \cap Players(UserOf[s])
             display == [at |-> "display", about |-> t.about, news |-> t.news, to |-> to]
  <2>2. display \in Task /\ display.at = "display"
    BY <1>1, <1>2
  <2>3. PICK next \in Task : Goes(s, next) /\ next.at \in {"idle", "display"}
    BY <1>5, <2>2, IdleIsTask DEF AnnounceDetail
  <2>4. UNCHANGED <<accounts, clients, total, gameUsers, clientGame, auth, playing, twins, doubtful,
                    deletions>> /\ UNCHANGED screens /\ Witnessed
    BY <1>5 DEF AnnounceDetail, usage
  <2>5. QED
    BY <1>1, <2>3, <2>4, HandlerThinks DEF IInv, TypeOK
<1>6. CASE Display(s)
  <2> DEFINE title == {n \in t.news : n.of = "title"}
             now == IF title = {} THEN t.news ELSE title
             more == [t EXCEPT !.news = t.news \ now]
  <2>1. more = [at |-> t.at, about |-> t.about, news |-> t.news \ now, to |-> t.to]
    BY <1>3
  <2>2. more \in Task /\ more.at = "display" /\ now \in SUBSET News
    BY <1>1, <1>2, <1>6, <2>1 DEF Display
  <2>3. PICK next \in Task : Goes(s, next) /\ next.at \in {"idle", "display"}
    BY <1>6, <2>2, IdleIsTask DEF Display
  <2>4. QED
    BY <1>1, <1>6, <2>2, <2>3, HandlerTells DEF Display
<1>7. QED
  BY <1>4, <1>5, <1>6

---------------------------------------------------------------------------
(* The Web API                                                             *)

\* A request that changes an entry, or none, and goes on to tell of it.
LEMMA RequestKeeps ==
    ASSUME IInv, Free(Http), Witnessed, NEW u \in Users, NEW e,
           Registered(u) => e \in Entry, NEW news \in SUBSET News,
           clients' = IF Registered(u) THEN [clients EXCEPT ![u] = e] ELSE clients,
           Goes(Http, Published(u, Hidden(u), news)),
           doubtful' \subseteq Users,
           UNCHANGED <<accounts, usage, auth, screens, playing, twins, deletions>>
    PROVE  IInv'
<1> DEFINE share == [at |-> "share", about |-> u, news |-> news, only |-> FALSE]
<1>1. /\ Http \in Threads /\ task[Http] = Idle /\ TypeOK /\ task \in [Threads -> Task]
      /\ UNCHANGED <<accounts, total, gameUsers, clientGame, auth, playing, twins, deletions>>
      /\ UNCHANGED <<screen, due>>
  BY DEF IInv, TypeOK, Threads, Free, usage, screens
<1>2. share \in Task /\ share # Idle
  BY DEF Task, Idle
<1>3. /\ DOMAIN clients' \subseteq Users
      /\ \A v \in DOMAIN clients' : clients'[v] \in Entry
  BY <1>1 DEF TypeOK, Registered
<1>4. CASE Hidden(u) \/ news = {}
  <2>1. Goes(Http, Idle)
    BY <1>4 DEF Published
  <2>2. QED
    BY <1>1, <1>3, <2>1, IdleIsTask, HandlerMoves DEF TypeOK
<1>5. CASE ~(Hidden(u) \/ news = {})
  <2>1. Goes(Http, share)
    BY <1>5 DEF Published
  <2>2. Http \in unhidden'
    BY <1>1, <1>2, <1>5, <2>1, SeesUnhidden
  <2>3. QED
    BY <1>1, <1>2, <1>3, <2>1, <2>2, IdleIsTask, HandlerMoves DEF TypeOK
<1>6. QED
  BY <1>4, <1>5

LEMMA WriteKeeps ==
    ASSUME IInv, NEW u \in Users, NEW new \in Bodies, NEW notify \in BOOLEAN,
           HandlePresenceWrite(u, new, notify)
    PROVE  IInv'
<1> DEFINE e == Showing(clients[u], new, notify)
           texts == Registered(u) /\ clients'[u].notify
           news == {[of |-> f, body |-> IF texts THEN new[f] ELSE Nothing] : f \in DOMAIN new}
<1>1. PICK W \in SUBSET Fields : new \in [W -> Values]
  BY DEF Bodies
<1>2. news \in SUBSET News
  BY <1>1 DEF News, Text
<1>3. ASSUME Registered(u) PROVE e \in Entry
  <2>1. clients[u] \in Entry
    BY <1>3 DEF IInv, TypeOK, Registered
  <2>2. [f \in Fields |-> IF f \in DOMAIN new THEN new[f] ELSE clients[u].detail[f]] \in Detail
    BY <1>1, <2>1 DEF Entry, Detail, Text
  <2>3. QED
    BY <2>1, <2>2 DEF Entry, Showing
<1>4. clients' = IF Registered(u) THEN [clients EXCEPT ![u] = e] ELSE clients
  BY DEF HandlePresenceWrite, Registered
<1>5. Goes(Http, Published(u, Hidden(u), news))
  BY DEF HandlePresenceWrite
<1>6. doubtful' \subseteq Users
  BY DEF HandlePresenceWrite, IInv, TypeOK
<1>7. QED
  BY <1>2, <1>3, <1>4, <1>5, <1>6, RequestKeeps DEF HandlePresenceWrite

LEMMA DeleteKeeps ==
    ASSUME IInv, NEW u \in Users, NEW f \in Fields, HandlePresenceDelete(u, f)
    PROVE  IInv'
<1> DEFINE e == Dropping(clients[u], f)
<1>1. {NewsOf(f)} \in SUBSET News
  BY NewsOfIsNews
<1>2. ASSUME Registered(u) PROVE e \in Entry
  <2>1. clients[u] \in Entry
    BY <1>2 DEF IInv, TypeOK, Registered
  <2>2. [clients[u].detail EXCEPT ![f] = Nothing] \in Detail
    BY <2>1 DEF Entry, Detail, Text
  <2>3. QED
    BY <2>1, <2>2 DEF Entry, Dropping
<1>3. clients' = IF Registered(u) THEN [clients EXCEPT ![u] = e] ELSE clients
  BY DEF HandlePresenceDelete, Registered
<1>4. Goes(Http, Published(u, Hidden(u), {NewsOf(f)}))
  BY DEF HandlePresenceDelete
<1>5. doubtful' \subseteq Users
  BY DEF HandlePresenceDelete, IInv, TypeOK
<1>6. QED
  BY <1>1, <1>2, <1>3, <1>4, <1>5, RequestKeeps DEF HandlePresenceDelete

LEMMA AsksKeeps ==
    ASSUME IInv, NEW s \in Watchers, NEW V, Asks(s, V)
    PROVE  IInv'
<1> DEFINE read == [v \in V |-> IF Registered(v) THEN clients[v] ELSE NoEntry]
           next == [at |-> "games", about |-> UserOf[s], for |-> s, read |-> read]
<1>1. /\ s \in Sessions /\ UserOf[s] \in Users /\ Http \in Threads /\ TypeOK
      /\ V \in SUBSET Users /\ task[Http] = Idle
      /\ UNCHANGED <<accounts, clients, total, gameUsers, clientGame, auth, screen, playing, twins,
                     doubtful, deletions>>
      /\ Goes(Http, next) /\ Witnessed
  BY UsersAssumption DEF IInv, TypeOK, Asks, Threads, Free, usage
<1>2. read \in Snaps
  <2>1. read \in [V -> Entry \cup {NoEntry}]
    BY <1>1 DEF Registered, TypeOK
  <2>2. QED
    BY <1>1, <2>1 DEF Snaps
<1>3. next \in Task
  BY <1>1, <1>2 DEF Task
<1>4. due' \in [Watchers -> SUBSET Users]
  BY <1>1 DEF Asks, TypeOK
<1>5. QED
  BY <1>1, <1>3, <1>4, IdleIsTask, HandlerMoves DEF TypeOK

LEMMA GetPresenceKeeps ==
    ASSUME IInv, GetPresence
    PROVE  IInv'
<1> DEFINE t == task[Http]
<1>1. /\ Http \in Threads /\ TypeOK /\ t \in Task /\ t.at = "games" /\ t.read \in Snaps
      /\ UNCHANGED <<accounts, clients, total, gameUsers, clientGame, auth, due, playing, twins,
                     doubtful, deletions>>
      /\ Goes(Http, Idle) /\ Witnessed
  BY TaskHolds DEF IInv, TypeOK, GetPresence, Threads, usage
<1>2. PICK V \in SUBSET Users : t.read \in [V -> Entry \cup {NoEntry}]
  BY <1>1 DEF Snaps
<1>3. Blank \in Detail
  BY DEF Blank, Detail, Text
<1>4. ASSUME NEW r \in Entry \cup {NoEntry}, NEW same \in BOOLEAN PROVE Shown(r, same) \in View
  <2>1. (IF r # NoEntry /\ same THEN r.detail ELSE Blank) \in Detail
    BY <1>3 DEF Entry
  <2>2. QED
    BY <2>1 DEF Shown, View
<1>5. ASSUME NEW v \in Users PROVE InSameGame(t.about, v) \in BOOLEAN
  BY DEF InSameGame
<1>6. ASSUME NEW view \in [Users -> View]
      PROVE  [v \in Users |-> IF v \in DOMAIN t.read
                 THEN Shown(t.read[v], InSameGame(t.about, v)) ELSE view[v]] \in [Users -> View]
  BY <1>2, <1>4, <1>5
<1>7. screen' \in [Watchers -> [Users -> View]]
  BY <1>1, <1>6 DEF GetPresence, TypeOK
<1>8. QED
  BY <1>1, <1>7, IdleIsTask, HandlerMoves DEF TypeOK

---------------------------------------------------------------------------
(* Steps that change who is logged in, and in which game                   *)

LEMMA CleanupKeeps ==
    ASSUME IInv, NEW s \in Sessions, CleanupOnDisconnect(s)
    PROVE  IInv'
<1> DEFINE u == UserOf[s]
           to == IF Visible(u) THEN {clients[v].session : v \in FriendsOnline(u)} ELSE {}
           next == [at |-> "uncount", about |-> u, to |-> to]
<1>1. /\ s \in Threads /\ u \in Users /\ TypeOK /\ task[s] = Idle /\ s \in auth
      /\ clients' = [v \in DOMAIN clients \ {u} |-> clients[v]]
      /\ UNCHANGED <<accounts, total, gameUsers, clientGame, auth, screen, due, playing, twins, deletions>>
      /\ Goes(s, next) /\ Witnessed
  BY UsersAssumption DEF IInv, TypeOK, CleanupOnDisconnect, Threads, Free, usage, screens
<1>2. next \in Task
  BY <1>1, FriendsAreUsers DEF Task
<1>3. doubtful' \subseteq Users
  BY <1>1 DEF CleanupOnDisconnect, TypeOK
<1>4. QED
  BY <1>1, <1>2, <1>3, IdleIsTask, HandlerMoves DEF TypeOK

LEMMA LoginKeeps ==
    ASSUME IInv, NEW s \in Sessions, NEW hidden \in BOOLEAN, CmdLogin(s, hidden)
    PROVE  IInv'
<1> DEFINE u == UserOf[s]
           next == [at |-> "register", about |-> u, hidden |-> hidden]
<1>1. /\ s \in Threads /\ u \in Users /\ TypeOK /\ task[s] = Idle /\ s \notin auth
      /\ u \in accounts /\ auth' = auth \cup {s}
      /\ task \in [Threads -> Task] /\ task' = [task EXCEPT ![s] = next] /\ Witnessed
      /\ twins' = IF \E x \in auth : UserOf[x] = u THEN twins \cup {u} ELSE twins
      /\ UNCHANGED <<accounts, clients, total, gameUsers, clientGame, screen, due, playing, doubtful,
                     deletions>>
  BY UsersAssumption DEF IInv, TypeOK, CmdLogin, Threads, Free, Goes, usage, screens
<1>2. next \in Task
  BY <1>1 DEF Task
<1>3. TypeOK'
  BY <1>1, <1>2 DEF TypeOK, Witnessed
<1>4. \A x \in Sessions : Counted(x) => Counted(x)'
  BY <1>1 DEF Counted, Threads
<1>5. TallyIsTrue'
  BY <1>1, <1>4 DEF IInv, TallyIsTrue
<1>6. PlayersAreCounted'
  <2> SUFFICES ASSUME NEW x \in auth', UserOf[x] \notin twins', task'[x].at # "farewell"
               PROVE  clientGame[UserOf[x]] = playing[x]
    BY <1>1 DEF PlayersAreCounted
  <2>1. CASE x = s
    <3>1. ~\E y \in auth : UserOf[y] = u
      BY <1>1, <2>1
    <3>2. clientGame[u] = NoGame
      BY <1>1, <3>1 DEF IInv, TallyIsTrue, Counted
    <3>3. QED
      BY <1>1, <2>1, <3>2 DEF IInv, SessionsSound
  <2>2. CASE x # s
    <3>1. x \in auth /\ UserOf[x] \notin twins /\ x \in Threads
      BY <1>1, <2>2 DEF TypeOK, Threads
    <3>2. QED
      BY <1>1, <2>2, <3>1 DEF IInv, PlayersAreCounted
  <2>3. QED
    BY <2>1, <2>2
<1>7. SessionsSound'
  BY <1>1 DEF IInv, SessionsSound, Threads
<1>8. NewsSeen'
  BY <1>1, NewsStaysSeen DEF IInv
<1>9. QED
  BY <1>3, <1>5, <1>6, <1>7, <1>8 DEF IInv

\* The users of a game when one more is in it, and when one has left.
LEMMA Players1 ==
    ASSUME TypeOK, NEW u \in Users, NEW g \in Games
    PROVE  LET S == {v \in Users : clientGame[v] = g}
           IN  /\ IsFiniteSet(S) /\ Cardinality(S) \in Nat
               /\ u \notin S => Cardinality(S \cup {u}) = Cardinality(S) + 1
               /\ u \in S => Cardinality(S \ {u}) = Cardinality(S) - 1 /\ Cardinality(S) > 0
<1> DEFINE S == {v \in Users : clientGame[v] = g}
<1>1. IsFiniteSet(S)
  BY UsersAssumption, FS_Subset
<1>2. Cardinality(S) \in Nat /\ (Cardinality(S) = 0 <=> S = {})
  BY <1>1, FS_CardinalityType, FS_EmptySet
<1>3. Cardinality(S \cup {u}) = IF u \in S THEN Cardinality(S) ELSE Cardinality(S) + 1
  BY <1>1, FS_AddElement
<1>4. Cardinality(S \ {u}) = IF u \in S THEN Cardinality(S) - 1 ELSE Cardinality(S)
  BY <1>1, FS_RemoveElement
<1> HIDE DEF S
<1>5. QED
  BY <1>1, <1>2, <1>3, <1>4 DEF S

\* A step that gives u another game, or none, counts it there and no more where
\* it was.
LEMMA GamesCounted ==
    ASSUME TypeOK, TallyIsTrue, NEW u \in Users, NEW game \in Games \cup {NoGame},
           clientGame[u] # game, clientGame' = [clientGame EXCEPT ![u] = game],
           gameUsers' = [g \in Games |-> IF g = game THEN gameUsers[g] + 1
                                         ELSE IF g = clientGame[u] THEN gameUsers[g] - 1
                                         ELSE gameUsers[g]]
    PROVE  /\ gameUsers' \in [Games -> Nat]
           /\ clientGame' \in [Users -> Games \cup {NoGame}]
           /\ \A g \in Games : gameUsers'[g] = Cardinality({v \in Users : clientGame'[v] = g})
<1>1. clientGame \in [Users -> Games \cup {NoGame}] /\ gameUsers \in [Games -> Nat]
  BY DEF TypeOK
<1>2. ASSUME NEW g \in Games
      PROVE  gameUsers'[g] = Cardinality({v \in Users : clientGame'[v] = g}) /\ gameUsers'[g] \in Nat
  <2> DEFINE S == {v \in Users : clientGame[v] = g}
             T == {v \in Users : clientGame'[v] = g}
  <2>1. gameUsers[g] = Cardinality(S)
    BY DEF TallyIsTrue
  <2>2. /\ Cardinality(S) \in Nat
        /\ u \notin S => Cardinality(S \cup {u}) = Cardinality(S) + 1
        /\ u \in S => Cardinality(S \ {u}) = Cardinality(S) - 1 /\ Cardinality(S) > 0
    BY Players1
  <2>3. CASE g = game
    <3>1. T = S \cup {u} /\ u \notin S
      BY <1>1, <2>3
    <3>2. gameUsers'[g] = gameUsers[g] + 1
      BY <2>3
    <3> HIDE DEF S, T
    <3>3. gameUsers'[g] = Cardinality(T) /\ gameUsers'[g] \in Nat
      BY <2>1, <2>2, <3>1, <3>2
    <3>4. QED
      BY <3>3 DEF T
  <2>4. CASE g # game /\ g = clientGame[u]
    <3>1. T = S \ {u} /\ u \in S
      BY <1>1, <2>4
    <3>2. gameUsers'[g] = gameUsers[g] - 1
      BY <2>4
    <3> HIDE DEF S, T
    <3>3. gameUsers'[g] = Cardinality(T) /\ gameUsers'[g] \in Nat
      BY <2>1, <2>2, <3>1, <3>2
    <3>4. QED
      BY <3>3 DEF T
  <2>5. CASE g # game /\ g # clientGame[u]
    <3>1. T = S
      BY <1>1, <2>5
    <3>2. gameUsers'[g] = gameUsers[g]
      BY <2>5
    <3>3. QED
      BY <2>1, <2>2, <3>1, <3>2
  <2>6. QED
    BY <2>3, <2>4, <2>5
<1>3. QED
  BY <1>1, <1>2

LEMMA TouchKeeps ==
    ASSUME IInv, NEW s \in Sessions, NEW game \in Games, TouchGame(s, game)
    PROVE  IInv'
<1> DEFINE u == UserOf[s]
           next == [at |-> "title", about |-> u]
<1>1. /\ s \in Threads /\ u \in Users /\ TypeOK /\ task[s] = Idle /\ s \in auth
      /\ clientGame[u] # game /\ gameUsers' = Touched(u, game)
      /\ clientGame' = [clientGame EXCEPT ![u] = game]
      /\ playing' = [playing EXCEPT ![s] = game] /\ due' = AsksAnew(s)
      /\ task \in [Threads -> Task] /\ task' = [task EXCEPT ![s] = next] /\ Witnessed
      /\ UNCHANGED <<accounts, clients, total, auth, screen, twins, doubtful, deletions>>
  BY UsersAssumption
     DEF IInv, TypeOK, TouchGame, UsageTouchGame, Threads, Free, Goes, usage, screens
<1>2. next \in Task
  BY <1>1 DEF Task
<1>3. /\ gameUsers' \in [Games -> Nat]
      /\ clientGame' \in [Users -> Games \cup {NoGame}]
      /\ \A g \in Games : gameUsers'[g] = Cardinality({v \in Users : clientGame'[v] = g})
  BY <1>1, GamesCounted DEF IInv, Touched
<1>4. due' \in [Watchers -> SUBSET Users]
  BY <1>1, FriendsAreUsers DEF AsksAnew, TypeOK
<1>5. TypeOK'
  BY <1>1, <1>2, <1>3, <1>4 DEF TypeOK, Witnessed
<1>6. \A x \in Sessions : x = s \/ Counted(x) => Counted(x)'
  BY <1>1 DEF Counted, Threads
<1>7. \A v \in accounts' : clientGame'[v] # NoGame =>
          \E x \in Sessions : UserOf[x] = v /\ Counted(x)'
  BY <1>1, <1>6 DEF IInv, TallyIsTrue, TypeOK
<1>8. TallyIsTrue'
  BY <1>3, <1>7 DEF TallyIsTrue
<1>9. PlayersAreCounted'
  <2> SUFFICES ASSUME NEW x \in auth', UserOf[x] \notin twins', task'[x].at # "farewell"
               PROVE  clientGame'[UserOf[x]] = playing'[x]
    BY DEF PlayersAreCounted
  <2>1. x \in auth /\ x \in Sessions /\ x \in Threads /\ UserOf[x] \in Users
    BY <1>1, UsersAssumption DEF TypeOK, Threads
  <2>2. CASE x = s
    BY <1>1, <2>1, <2>2 DEF TypeOK
  <2>3. CASE x # s
    <3>1. UserOf[x] # u
      BY <1>1, <2>1, <2>3 DEF IInv, SessionsSound
    <3>2. clientGame'[UserOf[x]] = clientGame[UserOf[x]] /\ playing'[x] = playing[x]
      BY <1>1, <2>1, <2>3, <3>1 DEF TypeOK
    <3>3. QED
      BY <1>1, <2>1, <2>3, <3>2 DEF IInv, PlayersAreCounted
  <2>4. QED
    BY <2>2, <2>3
<1>10. SessionsSound'
  BY <1>1 DEF IInv, SessionsSound, Threads, TypeOK
<1>11. NewsSeen'
  BY <1>1, NewsStaysSeen DEF IInv
<1>12. QED
  BY <1>5, <1>8, <1>9, <1>10, <1>11 DEF IInv

LEMMA UsageOnLogoutKeeps ==
    ASSUME IInv, NEW s \in Sessions, UsageOnLogout(s)
    PROVE  IInv'
<1> DEFINE u == UserOf[s]
           next == [task[s] EXCEPT !.at = "farewell"]
<1>1. /\ s \in Threads /\ u \in Users /\ TypeOK /\ task[s].at = "uncount" /\ s \in auth
      /\ clientGame' = [clientGame EXCEPT ![u] = NoGame]
      /\ gameUsers' = [g \in Games |-> IF g = clientGame[u] THEN gameUsers[g] - 1 ELSE gameUsers[g]]
      /\ task \in [Threads -> Task] /\ task' = [task EXCEPT ![s] = next] /\ Witnessed
      /\ total' = IF total > 0 THEN total - 1 ELSE 0
      /\ UNCHANGED <<accounts, clients, auth, screen, due, playing, twins, doubtful, deletions>>
  BY UsersAssumption
     DEF IInv, TypeOK, SessionsSound, UsageOnLogout, Threads, Goes, screens
<1>2. next \in Task /\ next.at = "farewell"
  BY <1>1 DEF Task, Idle
<1>3. /\ gameUsers' \in [Games -> Nat]
      /\ clientGame' \in [Users -> Games \cup {NoGame}]
      /\ \A g \in Games : gameUsers'[g] = Cardinality({v \in Users : clientGame'[v] = g})
  <2>1. CASE clientGame[u] = NoGame
    <3>1. gameUsers' = gameUsers /\ clientGame' = clientGame
      BY <1>1, <2>1, NamesAssumption DEF TypeOK
    <3>2. QED
      BY <1>1, <3>1 DEF IInv, TypeOK, TallyIsTrue
  <2>2. CASE clientGame[u] # NoGame
    <3>1. gameUsers' = [g \in Games |-> IF g = NoGame THEN gameUsers[g] + 1
                                        ELSE IF g = clientGame[u] THEN gameUsers[g] - 1
                                        ELSE gameUsers[g]]
      BY <1>1, NamesAssumption
    <3>2. /\ TypeOK /\ TallyIsTrue /\ u \in Users /\ NoGame \in Games \cup {NoGame}
          /\ clientGame[u] # NoGame /\ clientGame' = [clientGame EXCEPT ![u] = NoGame]
      BY <1>1, <2>2 DEF IInv
    <3> HIDE DEF u
    <3>3. QED
      BY <3>1, <3>2, GamesCounted
  <2>3. QED
    BY <2>1, <2>2
<1>4. total' \in Nat
  BY <1>1 DEF TypeOK
<1>5. TypeOK'
  BY <1>1, <1>2, <1>3, <1>4 DEF TypeOK, Witnessed
<1>6. \A x \in Sessions \ {s} : Counted(x) => Counted(x)'
  BY <1>1 DEF Counted, Threads
<1>7. \A v \in accounts' : clientGame'[v] # NoGame =>
          \E x \in Sessions : UserOf[x] = v /\ Counted(x)'
  BY <1>1, <1>6 DEF IInv, TallyIsTrue, TypeOK
<1>8. TallyIsTrue'
  BY <1>3, <1>7 DEF TallyIsTrue
<1>9. PlayersAreCounted'
  <2> SUFFICES ASSUME NEW x \in auth', UserOf[x] \notin twins', task'[x].at # "farewell"
               PROVE  clientGame'[UserOf[x]] = playing'[x]
    BY DEF PlayersAreCounted
  <2>1. x \in auth /\ x \in Threads /\ UserOf[x] \in Users /\ x # s
    BY <1>1, <1>2, UsersAssumption DEF TypeOK, Threads
  <2>2. UserOf[x] # u
    BY <1>1, <2>1 DEF IInv, SessionsSound
  <2>3. clientGame'[UserOf[x]] = clientGame[UserOf[x]]
    BY <1>1, <2>1, <2>2 DEF TypeOK
  <2>4. QED
    BY <1>1, <2>1, <2>3 DEF IInv, PlayersAreCounted
<1>10. SessionsSound'
  BY <1>1, <1>2 DEF IInv, SessionsSound, Threads
<1>11. NewsSeen'
  BY <1>1, <1>2, NewsStaysSeen DEF IInv
<1>12. QED
  BY <1>5, <1>8, <1>9, <1>10, <1>11 DEF IInv

LEMMA CmdDeleteKeeps ==
    ASSUME IInv, NEW s \in Sessions, CmdDelete(s)
    PROVE  IInv'
<1> DEFINE u == UserOf[s]
           next == [at |-> "unregister", about |-> u]
<1>1. /\ s \in Threads /\ u \in Users /\ TypeOK /\ task[s] = Idle /\ s \in auth
      /\ accounts' = accounts \ {u}
      /\ task \in [Threads -> Task] /\ task' = [task EXCEPT ![s] = next] /\ Witnessed
      /\ UNCHANGED <<clients, total, gameUsers, clientGame, auth, screen, due, playing, twins,
                     doubtful, deletions>>
  BY UsersAssumption DEF IInv, TypeOK, CmdDelete, Threads, Free, Goes, usage, screens
<1>2. next \in Task
  BY <1>1 DEF Task
<1>3. TypeOK'
  BY <1>1, <1>2 DEF TypeOK, Witnessed
<1>4. \A x \in Sessions : Counted(x) => Counted(x)'
  BY <1>1 DEF Counted, Threads
<1>5. TallyIsTrue'
  BY <1>1, <1>4 DEF IInv, TallyIsTrue
<1>6. PlayersAreCounted'
  <2> SUFFICES ASSUME NEW x \in auth, UserOf[x] \notin twins, task'[x].at # "farewell"
               PROVE  clientGame[UserOf[x]] = playing[x]
    BY <1>1 DEF PlayersAreCounted
  <2>1. task[x].at # "farewell"
    BY <1>1, IdleIsTask DEF TypeOK, Threads
  <2>2. QED
    BY <2>1 DEF IInv, PlayersAreCounted
<1>7. SessionsSound'
  BY <1>1 DEF IInv, SessionsSound, Threads
<1>8. NewsSeen'
  BY <1>1, NewsStaysSeen DEF IInv
<1>9. QED
  BY <1>3, <1>5, <1>6, <1>7, <1>8 DEF IInv

---------------------------------------------------------------------------
(* Steps that end a session                                                *)

\* A handler that waits no more for a session is where it was, unless it was
\* to answer that session.
LEMMA WithoutHolds ==
    ASSUME NEW s \in Sessions, NEW t \in Task
    PROVE  /\ Without(s, t) \in Task
           /\ Without(s, t).at = t.at \/ (Without(s, t).at = "idle" /\ t.at = "games")
<1> DEFINE next == [t EXCEPT !.to = @ \ {s}]
<1>1. CASE "for" \in DOMAIN t /\ t.for = s
  <2>1. t.at = "games"
    BY <1>1 DEF Task, Idle
  <2>2. QED
    BY <1>1, <2>1, IdleIsTask DEF Without
<1>2. CASE ~("for" \in DOMAIN t /\ t.for = s)
           /\ t.at \in {"count", "greet", "uncount", "farewell", "post"}
  <2>1. t.to \in SUBSET Sessions
    BY <1>2, TaskHolds
  <2>2. CASE t.at = "post"
    <3>1. t \in [at : {"post"}, about : Users, news : SUBSET News, to : SUBSET Sessions]
      BY <2>2 DEF Task, Idle
    <3>2. next \in [at : {"post"}, about : Users, news : SUBSET News, to : SUBSET Sessions]
      BY <3>1
    <3>3. QED
      BY <1>2, <2>2, <3>1, <3>2 DEF Without, Task
  <2>3. CASE t.at # "post"
    <3> DEFINE R == [at : {"count", "greet", "uncount", "farewell"}, about : Users,
                     to : SUBSET Sessions]
    <3>1. t \in R
      BY <1>2, <2>3 DEF Task, Idle
    <3>2. next \in R /\ next.at = t.at
      BY <3>1
    <3>3. R \subseteq Task
      BY DEF Task
    <3>4. QED
      BY <1>2, <3>2, <3>3 DEF Without
  <2>4. QED
    BY <2>2, <2>3
<1>3. CASE ~("for" \in DOMAIN t /\ t.for = s)
           /\ t.at \notin {"count", "greet", "uncount", "farewell", "post"}
  BY <1>3 DEF Without
<1>4. QED
  BY <1>1, <1>2, <1>3

\* What has to be shown of a step that ends a session.
LEMMA GoneKeeps ==
    ASSUME IInv, NEW s \in Sessions, Gone(s), Witnessed,
           UNCHANGED <<accounts, total, gameUsers, clientGame, twins>>,
           DOMAIN clients' \subseteq Users,
           \A u \in DOMAIN clients' : clients'[u] \in Entry,
           screen' \in [Watchers -> [Users -> View]],
           due' \in [Watchers -> SUBSET Users],
           doubtful' \subseteq Users, deletions' \in Nat,
           task[s].at = "farewell" \/ UserOf[s] \notin accounts
    PROVE  IInv'
<1>1. /\ TypeOK /\ task \in [Threads -> Task] /\ s \in Threads
      /\ auth' = auth \ {s} /\ auth \subseteq Sessions
      /\ task' = [t \in Threads |-> IF t = s THEN Idle ELSE Without(s, task[t])]
      /\ playing' = [playing EXCEPT ![s] = NoGame]
      /\ playing \in [Sessions -> Games \cup {NoGame}]
  BY DEF IInv, TypeOK, Gone, Threads
<1>2. ASSUME NEW x \in Threads, x # s
      PROVE  /\ task'[x] \in Task
             /\ task'[x].at = task[x].at \/ (task'[x].at = "idle" /\ task[x].at = "games")
  BY <1>1, <1>2, WithoutHolds
<1>3. task'[s] = Idle /\ task'[s].at = "idle"
  BY <1>1, IdleIsTask
<1>4. task' \in [Threads -> Task]
  BY <1>1, <1>2, <1>3, IdleIsTask
<1>5. TypeOK'
  BY <1>1, <1>4 DEF TypeOK, Witnessed
<1>6. ASSUME NEW x \in Sessions, Counted(x), x # s PROVE Counted(x)'
  <2>1. x \in Threads /\ x \in auth'
    BY <1>1, <1>6 DEF Counted, Threads
  <2>2. QED
    BY <1>2, <1>6, <2>1 DEF Counted
<1>7. TallyIsTrue'
  <2>1. ASSUME NEW u \in accounts, clientGame[u] # NoGame
        PROVE  \E x \in Sessions : UserOf[x] = u /\ Counted(x)'
    <3>1. PICK x \in Sessions : UserOf[x] = u /\ Counted(x)
      BY <2>1 DEF IInv, TallyIsTrue
    <3>2. x # s
      BY <3>1 DEF Counted
    <3>3. QED
      BY <1>6, <3>1, <3>2
  <2>2. QED
    BY <2>1 DEF IInv, TallyIsTrue
<1>8. PlayersAreCounted'
  <2> SUFFICES ASSUME NEW x \in auth', UserOf[x] \notin twins, task'[x].at # "farewell"
               PROVE  clientGame[UserOf[x]] = playing'[x]
    BY DEF PlayersAreCounted
  <2>1. x \in auth /\ x \in Threads /\ x # s
    BY <1>1 DEF Threads
  <2>2. task[x].at # "farewell"
    BY <1>2, <2>1
  <2>3. playing'[x] = playing[x]
    BY <1>1, <2>1
  <2>4. QED
    BY <2>1, <2>2, <2>3 DEF IInv, PlayersAreCounted
<1>9. SessionsSound'
  <2>1. \A x, t \in auth' : x # t /\ UserOf[x] = UserOf[t] => UserOf[x] \in twins'
    BY <1>1 DEF IInv, SessionsSound
  <2>2. \A x \in Sessions : x \notin auth' => playing'[x] = NoGame
    BY <1>1 DEF IInv, SessionsSound
  <2>3. \A x \in Sessions : task'[x].at = "unregister" => UserOf[x] \notin accounts'
    BY <1>2, <1>3 DEF IInv, SessionsSound, Threads
  <2>4. \A x \in Sessions : task'[x].at = "uncount" => x \in auth'
    BY <1>1, <1>2, <1>3 DEF IInv, SessionsSound, Threads
  <2>5. QED
    BY <2>1, <2>2, <2>3, <2>4 DEF SessionsSound
<1>10. NewsSeen'
  <2> SUFFICES ASSUME NEW x \in Threads, task'[x].at \in {"share", "address", "post", "push"}
               PROVE  x \in unhidden'
    BY DEF NewsSeen
  <2>1. x # s /\ task'[x] # Idle
    BY <1>3, IdleIsTask
  <2>2. x \in unhidden
    BY <1>2, <2>1 DEF IInv, NewsSeen
  <2>3. QED
    BY <2>1, <2>2 DEF Witnessed
<1>11. QED
  BY <1>5, <1>7, <1>8, <1>9, <1>10 DEF IInv

LEMMA FarewellKeeps ==
    ASSUME IInv, NEW s \in Sessions, Farewell(s)
    PROVE  IInv'
<1> DEFINE u == task[s].about
           empty == [v \in Users |-> [online |-> FALSE, detail |-> Blank]]
<1>1. /\ TypeOK /\ task[s] \in Task /\ task[s].at = "farewell" /\ u \in Users
      /\ Gone(s) /\ Witnessed
      /\ UNCHANGED <<accounts, clients, total, gameUsers, clientGame, twins, doubtful, deletions>>
  BY TaskHolds DEF IInv, TypeOK, Farewell, Threads, usage
<1>2. empty \in [Users -> View]
  BY DEF View, Detail, Blank, Text
<1>3. screen' \in [Watchers -> [Users -> View]]
  BY <1>1, <1>2 DEF Farewell, TypeOK
<1>4. due' \in [Watchers -> SUBSET Users]
  BY <1>1 DEF Farewell, TypeOK
<1>5. QED
  BY <1>1, <1>3, <1>4, GoneKeeps DEF TypeOK

LEMMA UnregisterKeeps ==
    ASSUME IInv, NEW s \in Sessions, Unregister(s)
    PROVE  IInv'
<1> DEFINE u == UserOf[s]
           empty == [v \in Users |-> [online |-> FALSE, detail |-> Blank]]
<1>1. /\ TypeOK /\ u \in Users /\ u \notin accounts
      /\ clients' = [v \in DOMAIN clients \ {u} |-> clients[v]]
      /\ Gone(s) /\ Witnessed
      /\ UNCHANGED <<accounts, total, gameUsers, clientGame, twins>>
  BY UsersAssumption DEF IInv, SessionsSound, Unregister, usage
<1>2. empty \in [Users -> View]
  BY DEF View, Detail, Blank, Text
<1>3. screen' \in [Watchers -> [Users -> View]]
  BY <1>1, <1>2 DEF Unregister, TypeOK
<1>4. due' \in [Watchers -> SUBSET Users]
  BY <1>1 DEF Unregister, TypeOK
<1>5. doubtful' \subseteq Users /\ deletions' \in Nat
  BY <1>1 DEF Unregister, TypeOK
<1>6. QED
  BY <1>1, <1>3, <1>4, <1>5, GoneKeeps DEF TypeOK

---------------------------------------------------------------------------
(* The theorems                                                            *)

LEMMA InitHolds == Init => IInv
<1> SUFFICES ASSUME Init PROVE IInv
  OBVIOUS
<1>1. Blank \in Detail
  BY DEF Blank, Detail, Text
<1>2. TypeOK
  <2>1. DOMAIN clients = {}
    BY DEF Init
  <2>2. screen \in [Watchers -> [Users -> View]]
    BY <1>1 DEF Init, View
  <2>3. task \in [Threads -> Task]
    BY IdleIsTask DEF Init
  <2>4. QED
    BY <2>1, <2>2, <2>3 DEF Init, TypeOK
<1>3. TallyIsTrue
  <2>1. ASSUME NEW g \in Games PROVE {u \in Users : clientGame[u] = g} = {}
    BY NamesAssumption DEF Init
  <2>2. ASSUME NEW g \in Games
        PROVE  gameUsers[g] = Cardinality({u \in Users : clientGame[u] = g})
    BY <2>1, FS_EmptySet DEF Init
  <2>3. \A u \in accounts : clientGame[u] = NoGame
    BY DEF Init
  <2>4. QED
    BY <2>2, <2>3 DEF TallyIsTrue
<1>4. PlayersAreCounted /\ SessionsSound /\ NewsSeen
  BY IdleIsTask DEF Init, PlayersAreCounted, SessionsSound, NewsSeen, Threads
<1>5. QED
  BY <1>2, <1>3, <1>4 DEF IInv

LEMMA NextKeeps ==
    ASSUME IInv, [Next]_vars
    PROVE  IInv'
<1>1. CASE UNCHANGED vars
  BY <1>1 DEF vars, usage, screens, IInv, TypeOK, TallyIsTrue, PlayersAreCounted, SessionsSound,
              NewsSeen, Counted
<1>2. ASSUME NEW s \in Sessions, SessionStep(s) PROVE IInv'
  <2>1. CASE \E hidden \in BOOLEAN : CmdLogin(s, hidden) \/ CmdSetAppearOffline(s, hidden)
    BY <2>1, LoginKeeps, AppearOfflineKeeps
  <2>2. CASE \E g \in Games : TouchGame(s, g)
    BY <2>2, TouchKeeps
  <2>3. CASE AnnounceStatus(s) \/ AnnounceDetail(s) \/ Display(s)
    BY <2>3, AnnouncementsKeep
  <2>4. QED
    BY <1>2, <2>1, <2>2, <2>3, RegisterKeeps, UsageOnLoginKeeps, GreetKeeps, TitleKeeps, PushKeeps,
       CleanupKeeps, UsageOnLogoutKeeps, FarewellKeeps, CmdDeleteKeeps, UnregisterKeeps
       DEF SessionStep
<1>3. CASE Request
  <2>1. Http \in Threads
    BY DEF Threads
  <2>2. QED
    BY <1>3, <2>1, WriteKeeps, DeleteKeeps, AsksKeeps, GetPresenceKeeps, PostKeeps
       DEF Request, FriendListSnap, PresenceSnap
<1>4. QED
  BY <1>1, <1>2, <1>3, ShareKeeps, AddressKeeps DEF Next

\* Every step of logins, commands, requests and disconnections keeps the
\* inductive invariant.
THEOREM Invariance == Spec => []IInv
<1>1. IInv /\ [Next]_vars => IInv'
  BY NextKeeps
<1>2. QED
  BY <1>1, InitHolds, PTL DEF Spec

\* Type correctness.
THEOREM TypeCorrect == Spec => []TypeOK
<1>1. IInv => TypeOK
  BY DEF IInv
<1>2. QED
  BY <1>1, Invariance, PTL

\* However sessions come, change games and go, the tally of a game is the number
\* of users in it, and none of them is gone but those without an account.
THEOREM TallyAlwaysTrue == Spec => []TallyIsTrue
<1>1. IInv => TallyIsTrue
  BY DEF IInv
<1>2. QED
  BY <1>1, Invariance, PTL

\* Who plays is counted in the game, unless two sessions of the user were logged
\* in at once.
THEOREM PlayersAlwaysCounted == Spec => []PlayersAreCounted
<1>1. IInv => PlayersAreCounted
  BY DEF IInv
<1>2. QED
  BY <1>1, Invariance, PTL

\* In whatever order users hide, publish and change games, no handler that has
\* seen its user hidden all along tells of title or detail.
THEOREM HidingAlwaysQuiet == Spec => []HidingIsQuiet
<1>1. IInv => HidingIsQuiet
  BY DEF IInv, NewsSeen, HidingIsQuiet
<1>2. QED
  BY <1>1, Invariance, PTL
---------------------------------------------------------------------------
(* What is on its way to a screen                                          *)

\* Handlers are where their connections allow, the Web API alone asks, and an
\* entry belongs to a session of its user that is neither coming nor going.
TaskSound(t, k) ==
    /\ k.at = "register" => t \in auth
    /\ k.at = "title" => t \in Sessions /\ k.about = UserOf[t]
    /\ k.at = "games" => t = Http /\ k.about = UserOf[k.for]
EntriesSound ==
    /\ \A t \in Threads : TaskSound(t, task[t])
    /\ \A u \in DOMAIN clients :
        /\ UserOf[clients[u].session] = u /\ clients[u].session \in auth
        /\ task[clients[u].session].at \notin {"register", "uncount", "farewell"}

\* The texts that a handler is about to send: one for a field, and what the
\* entry still shows, unless something stale may have been told.
Telling == {"announce", "toggle", "display", "share", "address", "push", "post"}
Texts(k) == IF k.at \in Telling THEN {n \in k.news : n.body # Nothing} ELSE {}
OneForEach(k) ==
    k.at \in Telling => /\ \A n, m \in k.news : n.of = m.of => n = m
                        /\ \A n \in Texts(k) : n.of \in Fields
TextsTrue(k) ==
    Registered(k.about) /\ k.about \notin doubtful =>
        \A n \in Texts(k) : clients[k.about].detail[n.of] = n.body
TextsRight == \A t \in Threads : OneForEach(task[t]) /\ TextsTrue(task[t])

\* That handler k will have the client of s ask about v: v has come, gone or
\* switched Appear-Offline.
Signals(k, s, v) ==
    \/ k.at \in {"count", "greet", "uncount", "farewell"} /\ k.about = v /\ s \in k.to
    \/ k.at = "announce" /\ k.about = v /\ UserOf[s] \in k.to
WillAsk(s, v) == v \in due[s] \/ \E t \in Threads : Signals(task[t], s, v)

\* That handler k will tell s of the game of v, or of one of its details.
OnTheWay(k, s) ==
    \/ k.at = "share"
    \/ k.at = "address" /\ UserOf[s] \in k.among
    \/ k.at = "push" /\ UserOf[s] \in k.to
    \/ k.at = "post" /\ s \in k.to
Brings(k, s, v, what) ==
    \/ k.at = "title" /\ k.about = v
    \/ OnTheWay(k, s) /\ k.about = v /\ \E n \in k.news : n.body = Nothing \/ n.of \in what

\* What s shows of v, or will once the answer it waits for is there.  A text that
\* arrives before the answer is lost.
Asked(s, v) == task[Http].at = "games" /\ task[Http].for = s /\ v \in DOMAIN task[Http].read
Answer(v) == task[Http].read[v]
ShowsOpenly(s, v) ==
    IF Asked(s, v) THEN Answer(v) # NoEntry /\ ~Answer(v).hidden ELSE screen[s][v].online
MayShow(s, v) == IF Asked(s, v) THEN Answer(v) # NoEntry ELSE screen[s][v].online
DetailShown(s, v) == IF Asked(s, v) THEN Answer(v).detail ELSE screen[s][v].detail
Counts(s, v, f) == IF Asked(s, v) THEN {} ELSE {f}

Compared(s, v) ==
    Visible(v) /\ InSameGame(UserOf[s], v) /\ v \notin doubtful /\ UserOf[s] \notin twins
FieldFollows(s, v, f) ==
    \/ \E t \in Threads : Brings(task[t], s, v, Counts(s, v, f))
    \/ DetailShown(s, v)[f] = clients[v].detail[f]
Follows(s, v) ==
    \/ WillAsk(s, v)
    \/ /\ Visible(v) => ShowsOpenly(s, v)
       /\ MayShow(s, v) => Registered(v) \/ v \in doubtful
       /\ Compared(s, v) => \A f \in Fields : FieldFollows(s, v, f)
Follower(s, v) ==
    Registered(UserOf[s]) /\ clients[UserOf[s]].session = s /\ v \in FriendsOf(UserOf[s])
AllFollow == \A s \in Watchers, v \in Users : Follower(s, v) => Follows(s, v)

\* What keeps screens up to date, inductive together with IInv.
ScreenInv == EntriesSound /\ TextsRight /\ AllFollow

\* A handler moves on, and the entries stay or one of its user comes.
LEMMA EntriesStay ==
    ASSUME TypeOK, EntriesSound, NEW t \in Threads, NEW next, Goes(t, next),
           auth \subseteq auth',
           TaskSound(t, next)',
           \A u \in DOMAIN clients' :
                \/ u \in DOMAIN clients /\ clients'[u].session = clients[u].session
                \/ UserOf[clients'[u].session] = u /\ clients'[u].session \in auth'
                   /\ clients'[u].session = t,
           \/ next.at \notin {"register", "uncount", "farewell"}
           \/ \A u \in DOMAIN clients' : clients'[u].session # t
    PROVE  EntriesSound'
<1>1. /\ task \in [Threads -> Task] /\ task' = [task EXCEPT ![t] = next]
      /\ \A u \in DOMAIN clients : clients[u].session \in Sessions
  BY DEF TypeOK, Goes, Entry
<1>2. ASSUME NEW x \in Threads PROVE TaskSound(x, task[x])'
  BY <1>1 DEF EntriesSound, TaskSound
<1>3. ASSUME NEW u \in DOMAIN clients'
      PROVE  /\ UserOf[clients'[u].session] = u /\ clients'[u].session \in auth'
             /\ task'[clients'[u].session].at \notin {"register", "uncount", "farewell"}
  <2> DEFINE s == clients'[u].session
  <2>1. CASE s = t
    BY <1>1, <2>1 DEF EntriesSound
  <2>2. CASE s # t
    BY <1>1, <2>2 DEF EntriesSound, Threads
  <2>3. QED
    BY <2>1, <2>2
<1>4. QED
  BY <1>2, <1>3 DEF EntriesSound

\* Texts stay right when one handler moves on, as long as nobody's entry changes
\* under a handler that holds texts of it.
LEMMA TextsStay ==
    ASSUME TypeOK, TextsRight, NEW t \in Threads, NEW next, Goes(t, next),
           OneForEach(next), TextsTrue(next)',
           \A x \in Threads : \A w :
               x # t /\ w = task[x].about /\ Texts(task[x]) # {} =>
                   (w \in DOMAIN clients' /\ w \notin doubtful' =>
                       /\ w \in DOMAIN clients /\ w \notin doubtful
                       /\ clients'[w].detail = clients[w].detail)
    PROVE  TextsRight'
<1>1. task \in [Threads -> Task] /\ task' = [task EXCEPT ![t] = next]
  BY DEF TypeOK, Goes
<1>2. ASSUME NEW x \in Threads, x # t PROVE OneForEach(task[x])' /\ TextsTrue(task[x])'
  <2>1. task'[x] = task[x]
    BY <1>1, <1>2
  <2>2. OneForEach(task[x]) /\ TextsTrue(task[x])
    BY DEF TextsRight
  <2>3. QED
    BY <1>2, <2>1, <2>2 DEF TextsTrue, Registered
<1>3. OneForEach(task[t])' /\ TextsTrue(task[t])'
  <2>1. task'[t] = next
    BY <1>1
  <2>2. QED
    BY <2>1 DEF TextsTrue
<1>4. QED
  BY <1>2, <1>3 DEF TextsRight

\* A handler that holds no texts holds none that are wrong.
LEMMA NoTexts ==
    ASSUME NEW k, k.at \notin Telling \/ (\E what : k.news = {NewsOf(what)})
    PROVE  OneForEach(k) /\ TextsTrue(k) /\ TextsTrue(k)' /\ Texts(k) = {}
<1>1. Texts(k) = {}
  BY DEF Texts, NewsOf
<1>2. OneForEach(k)
  BY <1>1 DEF OneForEach
<1>3. QED
  BY <1>1, <1>2 DEF TextsTrue

\* Who drops some of its texts keeps the others.
LEMMA FewerTexts ==
    ASSUME NEW k, OneForEach(k), TextsTrue(k), k.at \in Telling,
           NEW next, next.at \in Telling, next.about = k.about, next.news \subseteq k.news,
           UNCHANGED <<clients, doubtful>>
    PROVE  OneForEach(next) /\ TextsTrue(next)'
<1>1. Texts(next) \subseteq Texts(k)
  BY DEF Texts
<1>2. OneForEach(next)
  BY <1>1 DEF OneForEach
<1>3. TextsTrue(next)'
  BY <1>1 DEF TextsTrue, Registered
<1>4. QED
  BY <1>2, <1>3

\* A client that will ask still will when another handler moves on, and when one
\* does that keeps its signal or has given it.
LEMMA StillAsks ==
    ASSUME TypeOK, NEW s \in Watchers, NEW v \in Users, NEW t \in Threads, NEW next, Goes(t, next),
           v \in due[s] => v \in due'[s],
           Signals(task[t], s, v) => Signals(next, s, v) \/ v \in due'[s],
           WillAsk(s, v) \/ Signals(next, s, v)
    PROVE  WillAsk(s, v)'
<1>1. task \in [Threads -> Task] /\ task' = [task EXCEPT ![t] = next]
  BY DEF TypeOK, Goes
<1>2. CASE v \in due[s]
  BY <1>2 DEF WillAsk
<1>3. CASE Signals(next, s, v)
  <2>1. task'[t] = next
    BY <1>1
  <2>2. Signals(task'[t], s, v)
    BY <1>3, <2>1
  <2>3. QED
    BY <2>2 DEF WillAsk
<1>4. ASSUME NEW x \in Threads, Signals(task[x], s, v) PROVE WillAsk(s, v)'
  <2>1. CASE x = t
    BY <1>3, <1>4, <2>1 DEF WillAsk
  <2>2. CASE x # t
    <3>1. task'[x] = task[x]
      BY <1>1, <2>2
    <3>2. Signals(task'[x], s, v)
      BY <1>4, <3>1
    <3>3. QED
      BY <3>2 DEF WillAsk
  <2>3. QED
    BY <2>1, <2>2
<1>5. QED
  BY <1>2, <1>3, <1>4 DEF WillAsk

\* A field that follows still does, if who moves on did not bring it, or if the
\* field is shown as it is.
LEMMA FieldStill ==
    ASSUME TypeOK, NEW s, NEW v, NEW f, NEW t \in Threads, NEW next, Goes(t, next),
           Counts(s, v, f)' = Counts(s, v, f),
           \/ Brings(next, s, v, Counts(s, v, f))
           \/ DetailShown(s, v)'[f] = clients'[v].detail[f]
           \/ /\ FieldFollows(s, v, f) /\ ~Brings(task[t], s, v, Counts(s, v, f))
              /\ DetailShown(s, v)'[f] = DetailShown(s, v)[f]
              /\ clients'[v].detail[f] = clients[v].detail[f]
    PROVE  FieldFollows(s, v, f)'
<1>1. task \in [Threads -> Task] /\ task' = [task EXCEPT ![t] = next]
  BY DEF TypeOK, Goes
<1>2. CASE Brings(next, s, v, Counts(s, v, f))
  <2>1. task'[t] = next
    BY <1>1
  <2>2. Brings(task'[t], s, v, Counts(s, v, f)')
    BY <1>2, <2>1
  <2>3. QED
    BY <2>2 DEF FieldFollows
<1>3. CASE DetailShown(s, v)'[f] = clients'[v].detail[f]
  BY <1>3 DEF FieldFollows
<1>4. CASE /\ FieldFollows(s, v, f) /\ ~Brings(task[t], s, v, Counts(s, v, f))
           /\ DetailShown(s, v)'[f] = DetailShown(s, v)[f]
           /\ clients'[v].detail[f] = clients[v].detail[f]
  <2>1. CASE DetailShown(s, v)[f] = clients[v].detail[f]
    BY <1>3, <1>4, <2>1
  <2>2. ASSUME NEW x \in Threads, Brings(task[x], s, v, Counts(s, v, f))
        PROVE  FieldFollows(s, v, f)'
    <3>1. task'[x] = task[x]
      BY <1>1, <1>4, <2>2
    <3>2. Brings(task'[x], s, v, Counts(s, v, f)')
      BY <2>2, <3>1
    <3>3. QED
      BY <3>2 DEF FieldFollows
  <2>3. QED
    BY <1>4, <2>1, <2>2 DEF FieldFollows
<1>5. QED
  BY <1>2, <1>3, <1>4

\* Who waits for an answer is not changed by a handler that is not about to give
\* one.
LEMMA SameAnswers ==
    ASSUME TypeOK, NEW t \in Threads, NEW next, Goes(t, next),
           task[t].at # "games", next.at # "games", NEW s, NEW v
    PROVE  /\ Asked(s, v)' = Asked(s, v)
           /\ Asked(s, v) => Answer(v)' = Answer(v)
           /\ \A f : Counts(s, v, f)' = Counts(s, v, f)
           /\ t = Http => ~Asked(s, v)
<1>1. task \in [Threads -> Task] /\ task' = [task EXCEPT ![t] = next] /\ Http \in Threads
  BY DEF TypeOK, Goes, Threads
<1>2. CASE t = Http
  BY <1>1, <1>2 DEF Asked, Counts
<1>3. CASE t # Http
  <2>1. task'[Http] = task[Http]
    BY <1>1, <1>3
  <2>2. QED
    BY <1>3, <2>1 DEF Asked, Answer, Counts
<1>4. QED
  BY <1>2, <1>3

\* What has to be shown of a step that changes no screen: the client will ask, or
\* nothing that it shows has become wrong.
LEMMA FollowsOn ==
    ASSUME TypeOK, NEW s \in Watchers, NEW v \in Users, NEW t \in Threads, NEW next, Goes(t, next),
           Follows(s, v), task[t].at # "games", next.at # "games",
           screen'[s][v] = screen[s][v],
           v \in due[s] => v \in due'[s],
           Signals(task[t], s, v) => Signals(next, s, v) \/ v \in due'[s],
           \/ Signals(next, s, v)
           \/ /\ Visible(v)' => Visible(v)
              /\ Registered(v) \/ v \in doubtful => Registered(v)' \/ v \in doubtful'
              /\ Compared(s, v)' => \A f \in Fields :
                    \/ Brings(next, s, v, Counts(s, v, f))
                    \/ /\ Compared(s, v) /\ ~Brings(task[t], s, v, Counts(s, v, f))
                       /\ clients'[v].detail[f] = clients[v].detail[f]
    PROVE  Follows(s, v)'
<1>1. CASE WillAsk(s, v) \/ Signals(next, s, v)
  BY <1>1, StillAsks DEF Follows
<1>2. CASE ~(WillAsk(s, v) \/ Signals(next, s, v))
  <2>1. /\ Asked(s, v)' = Asked(s, v)
        /\ Asked(s, v) => Answer(v)' = Answer(v)
        /\ \A f : Counts(s, v, f)' = Counts(s, v, f)
    BY SameAnswers
  <2>2. /\ ShowsOpenly(s, v)' = ShowsOpenly(s, v) /\ MayShow(s, v)' = MayShow(s, v)
        /\ DetailShown(s, v)' = DetailShown(s, v)
    BY <2>1 DEF ShowsOpenly, MayShow, DetailShown
  <2>3. /\ Visible(v) => ShowsOpenly(s, v)
        /\ MayShow(s, v) => Registered(v) \/ v \in doubtful
        /\ Compared(s, v) => \A f \in Fields : FieldFollows(s, v, f)
    BY <1>2 DEF Follows
  <2>4. ASSUME Compared(s, v)', NEW f \in Fields PROVE FieldFollows(s, v, f)'
    BY <1>2, <2>1, <2>2, <2>3, <2>4, FieldStill
  <2>5. QED
    BY <1>2, <2>2, <2>3, <2>4 DEF Follows
<1>3. QED
  BY <1>1, <1>2

---------------------------------------------------------------------------
(* Steps that change neither an entry nor a screen                         *)

\* They keep what is on its way.
LEMMA QuietStep ==
    ASSUME TypeOK, ScreenInv, NEW t \in Threads, NEW next, Goes(t, next),
           UNCHANGED <<clients, screen, due, doubtful>>,
           auth \subseteq auth', twins \subseteq twins',
           \A u, v \in Users : InSameGame(u, v)' => InSameGame(u, v),
           task[t].at # "games", next.at # "games",
           TaskSound(t, next)',
           \/ next.at \notin {"register", "uncount", "farewell"}
           \/ \A u \in DOMAIN clients : clients[u].session # t,
           OneForEach(next), TextsTrue(next)',
           \A s \in Watchers, v \in Users : Follower(s, v) =>
                /\ Signals(task[t], s, v) => Signals(next, s, v)
                /\ \A what : Compared(s, v) /\ Brings(task[t], s, v, what) =>
                        Brings(next, s, v, what)
    PROVE  ScreenInv'
<1>1. EntriesSound'
  BY EntriesStay DEF ScreenInv
<1>2. TextsRight'
  <2>1. TextsRight
    BY DEF ScreenInv
  <2>2. QED
    BY <2>1, TextsStay
<1>3. ASSUME NEW s \in Watchers, NEW v \in Users, Follower(s, v)'
      PROVE  Follows(s, v)'
  <2>1. Follower(s, v) /\ Follows(s, v) /\ UserOf[s] \in Users
    BY <1>3, UsersAssumption DEF Follower, Registered, ScreenInv, AllFollow
  <2>2. /\ Visible(v)' = Visible(v) /\ Registered(v)' = Registered(v)
        /\ Compared(s, v)' => Compared(s, v)
    BY <2>1 DEF Visible, Registered, Compared
  <2>3. Signals(task[t], s, v) => Signals(next, s, v)
    BY <2>1
  <2>4. \A f \in Fields : Compared(s, v) /\ Brings(task[t], s, v, Counts(s, v, f)) =>
            Brings(next, s, v, Counts(s, v, f))
    BY <2>1
  <2>5. QED
    BY <2>1, <2>2, <2>3, <2>4, FollowsOn
<1>4. QED
  BY <1>1, <1>2, <1>3 DEF ScreenInv, AllFollow

LEMMA UsageOnLoginFollows ==
    ASSUME IInv, ScreenInv, NEW s \in Sessions, UsageOnLogin(s)
    PROVE  ScreenInv'
<1>1. PICK next : Goes(s, next) /\ next = IF task[s].to = {} THEN Idle
                                         ELSE [task[s] EXCEPT !.at = "greet"]
  BY DEF UsageOnLogin
<1>2. /\ TypeOK /\ s \in Threads /\ task[s] \in Task /\ task[s].at = "count"
      /\ UNCHANGED <<clients, screen, due, doubtful, auth, twins, clientGame>>
  BY DEF IInv, TypeOK, UsageOnLogin, Threads, screens
<1>3. task[s].to # {} => next.at = "greet" /\ next.about = task[s].about /\ next.to = task[s].to
  BY <1>1, <1>2 DEF Task, Idle
<1>4. next.at \in {"idle", "greet"}
  BY <1>1, <1>3, IdleIsTask
<1>5. /\ OneForEach(next) /\ TextsTrue(next)' /\ TaskSound(s, next)'
  BY <1>4, NoTexts DEF Telling, TaskSound
<1>6. ASSUME NEW x, NEW v
      PROVE  /\ Signals(task[s], x, v) => Signals(next, x, v)
             /\ \A what : ~Brings(task[s], x, v, what)
  BY <1>2, <1>3 DEF Signals, Brings, OnTheWay
<1>7. \A u, v \in Users : InSameGame(u, v)' => InSameGame(u, v)
  BY <1>2 DEF InSameGame, Players
<1>8. QED
  BY <1>1, <1>2, <1>4, <1>5, <1>6, <1>7, QuietStep

LEMMA TitleFollows ==
    ASSUME IInv, ScreenInv, NEW s \in Sessions, EmitPresenceGameTitleInfo(s)
    PROVE  ScreenInv'
<1>1. PICK next : Goes(s, next) /\
          next = IF Hidden(UserOf[s]) THEN Idle
                 ELSE [at |-> "share", about |-> UserOf[s], news |-> {NewsOf("title")}, only |-> TRUE]
  BY DEF EmitPresenceGameTitleInfo
<1>2. /\ TypeOK /\ s \in Threads /\ task[s].at = "title" /\ task[s].about = UserOf[s]
      /\ UNCHANGED <<clients, screen, due, doubtful, auth, twins, clientGame>>
  BY DEF IInv, TypeOK, ScreenInv, EntriesSound, TaskSound, EmitPresenceGameTitleInfo, Threads,
         screens, usage
<1>3. next.at \in {"idle", "share"}
  BY <1>1, IdleIsTask
<1>4. OneForEach(next) /\ TextsTrue(next)' /\ TaskSound(s, next)'
  <2>1. next.at \notin Telling \/ \E what : next.news = {NewsOf(what)}
    BY <1>1, IdleIsTask DEF Telling
  <2>2. QED
    BY <1>3, <2>1, NoTexts DEF TaskSound
<1>5. ASSUME NEW x, NEW v
      PROVE  /\ ~Signals(task[s], x, v)
             /\ \A what : Compared(x, v) /\ Brings(task[s], x, v, what) => Brings(next, x, v, what)
  <2>1. Compared(x, v) => ~Hidden(v)
    BY DEF Compared, Visible, Hidden
  <2>2. QED
    BY <1>1, <1>2, <2>1 DEF Signals, Brings, OnTheWay, NewsOf
<1>6. \A u, v \in Users : InSameGame(u, v)' => InSameGame(u, v)
  BY <1>2 DEF InSameGame, Players
<1>7. QED
  BY <1>1, <1>2, <1>3, <1>4, <1>5, <1>6, QuietStep

LEMMA ShareFollows ==
    ASSUME IInv, ScreenInv, NEW t \in Threads, Share(t)
    PROVE  ScreenInv'
<1> DEFINE u == task[t].about
           known == clientGame[u] # NoGame
<1>1. PICK next : Goes(t, next) /\
          next = IF task[t].only /\ ~known THEN Idle
                 ELSE [at |-> "address", about |-> u, news |-> task[t].news, only |-> task[t].only,
                       among |-> IF ~known THEN Users ELSE Players(u)]
  BY DEF Share
<1>2. /\ TypeOK /\ task[t].at = "share"
      /\ UNCHANGED <<clients, screen, due, doubtful, auth, twins, clientGame>>
  BY DEF IInv, Share, screens, usage
<1>3. next.at \in {"idle", "address"}
  BY <1>1, IdleIsTask
<1>4. OneForEach(next) /\ TextsTrue(next)' /\ TaskSound(t, next)'
  <2>1. CASE next.at = "idle"
    BY <2>1, NoTexts DEF Telling, TaskSound
  <2>2. CASE next.at = "address"
    <3>1. next.about = task[t].about /\ next.news = task[t].news
      BY <1>1, <2>2, IdleIsTask
    <3>2. OneForEach(task[t]) /\ TextsTrue(task[t])
      BY DEF ScreenInv, TextsRight
    <3>3. QED
      BY <1>2, <2>2, <3>1, <3>2, FewerTexts DEF Telling, TaskSound
  <2>3. QED
    BY <1>3, <2>1, <2>2
<1>5. ASSUME NEW s \in Watchers, NEW v \in Users
      PROVE  /\ ~Signals(task[t], s, v)
             /\ \A what : Compared(s, v) /\ Brings(task[t], s, v, what) => Brings(next, s, v, what)
  <2>1. ~Signals(task[t], s, v)
    BY <1>2 DEF Signals
  <2>2. ASSUME NEW what, Compared(s, v), Brings(task[t], s, v, what)
        PROVE  Brings(next, s, v, what)
    <3>1. v = u /\ known /\ UserOf[s] \in Players(u)
      BY <1>2, <2>2 DEF Brings, Compared, InSameGame, Players
    <3>2. next.at = "address" /\ next.about = v /\ next.news = task[t].news
          /\ UserOf[s] \in next.among
      BY <1>1, <3>1
    <3>3. QED
      BY <1>2, <2>2, <3>2 DEF Brings, OnTheWay
  <2>3. QED
    BY <2>1, <2>2
<1>6. \A x, v \in Users : InSameGame(x, v)' => InSameGame(x, v)
  BY <1>2 DEF InSameGame, Players
<1>7. QED
  BY <1>1, <1>2, <1>3, <1>4, <1>5, <1>6, QuietStep

LEMMA AddressFollows ==
    ASSUME IInv, ScreenInv, NEW t \in Threads, Address(t)
    PROVE  ScreenInv'
<1> DEFINE u == task[t].about
           to == IF Registered(u) THEN FriendsOnline(u) \cap task[t].among ELSE {}
           push == [at |-> "push", about |-> u, news |-> task[t].news, to |-> to]
           post == [at |-> "post", about |-> u, news |-> task[t].news,
                    to |-> {clients[v].session : v \in to}]
<1>1. PICK next : /\ Goes(t, next)
                  /\ \/ next = Idle /\ to = {}
                     \/ next = push
                     \/ next = post
  BY DEF Address
<1>2. /\ TypeOK /\ task[t].at = "address"
      /\ UNCHANGED <<clients, screen, due, doubtful, auth, twins, clientGame>>
  BY DEF IInv, Address, screens, usage
<1>3. next.at \in {"idle", "push", "post"}
  BY <1>1, IdleIsTask
<1>4. OneForEach(next) /\ TextsTrue(next)' /\ TaskSound(t, next)'
  <2>1. CASE next.at = "idle"
    BY <2>1, NoTexts DEF Telling, TaskSound
  <2>2. CASE next.at \in {"push", "post"}
    <3>1. next.about = task[t].about /\ next.news = task[t].news
      BY <1>1, <2>2, IdleIsTask
    <3>2. OneForEach(task[t]) /\ TextsTrue(task[t])
      BY DEF ScreenInv, TextsRight
    <3>3. QED
      BY <1>2, <2>2, <3>1, <3>2, FewerTexts DEF Telling, TaskSound
  <2>3. QED
    BY <1>3, <2>1, <2>2
<1>5. ASSUME NEW s \in Watchers, NEW v \in Users, Follower(s, v)
      PROVE  /\ ~Signals(task[t], s, v)
             /\ \A what : Compared(s, v) /\ Brings(task[t], s, v, what) => Brings(next, s, v, what)
  <2>1. ~Signals(task[t], s, v)
    BY <1>2 DEF Signals
  <2>2. ASSUME NEW what, Compared(s, v), Brings(task[t], s, v, what)
        PROVE  Brings(next, s, v, what)
    <3>1. v = u /\ UserOf[s] \in task[t].among /\ Registered(v) /\ UserOf[s] \in Users
      BY <1>2, <2>2, UsersAssumption DEF Brings, OnTheWay, Compared, Visible
    <3>2. <<v, UserOf[s]>> \in Friendships
      BY <1>5, UsersAssumption DEF Follower, FriendsOf
    <3>3. UserOf[s] \in to
      BY <1>5, <3>1, <3>2 DEF Follower, FriendsOnline, FriendsOf
    <3>4. s \in {clients[x].session : x \in to}
      BY <1>5, <3>3 DEF Follower
    <3>5. \/ next.at = "push" /\ UserOf[s] \in next.to
          \/ next.at = "post" /\ s \in next.to
      BY <1>1, <3>3, <3>4
    <3>6. next.about = v /\ next.news = task[t].news
      BY <1>1, <3>1, <3>3
    <3>7. QED
      BY <1>2, <2>2, <3>5, <3>6 DEF Brings, OnTheWay
  <2>3. QED
    BY <2>1, <2>2
<1>6. \A x, v \in Users : InSameGame(x, v)' => InSameGame(x, v)
  BY <1>2 DEF InSameGame, Players
<1>7. QED
  BY <1>1, <1>2, <1>3, <1>4, <1>5, <1>6, QuietStep

LEMMA AnnounceDetailFollows ==
    ASSUME IInv, ScreenInv, NEW s \in Sessions, AnnounceDetail(s)
    PROVE  ScreenInv'
<1> DEFINE to == task[s].to \cap Players(UserOf[s])
<1>1. PICK next : Goes(s, next) /\
          next = IF to = {} \/ task[s].news = {} THEN Idle
                 ELSE [at |-> "display", about |-> task[s].about, news |-> task[s].news, to |-> to]
  BY DEF AnnounceDetail
<1>2. /\ TypeOK /\ s \in Threads /\ task[s].at = "toggle"
      /\ UNCHANGED <<clients, screen, due, doubtful, auth, twins, clientGame>>
  BY DEF IInv, TypeOK, AnnounceDetail, Threads, screens, usage
<1>3. next.at \in {"idle", "display"}
  BY <1>1, IdleIsTask
<1>4. OneForEach(next) /\ TextsTrue(next)' /\ TaskSound(s, next)'
  <2>1. CASE next.at = "idle"
    BY <2>1, NoTexts DEF Telling, TaskSound
  <2>2. CASE next.at = "display"
    <3>1. next.about = task[s].about /\ next.news = task[s].news
      BY <1>1, <2>2, IdleIsTask
    <3>2. OneForEach(task[s]) /\ TextsTrue(task[s])
      BY <1>2 DEF ScreenInv, TextsRight
    <3>3. QED
      BY <1>2, <2>2, <3>1, <3>2, FewerTexts DEF Telling, TaskSound
  <2>3. QED
    BY <1>3, <2>1, <2>2
<1>5. ASSUME NEW x, NEW v
      PROVE  ~Signals(task[s], x, v) /\ \A what : ~Brings(task[s], x, v, what)
  BY <1>2 DEF Signals, Brings, OnTheWay
<1>6. \A u, v \in Users : InSameGame(u, v)' => InSameGame(u, v)
  BY <1>2 DEF InSameGame, Players
<1>7. QED
  BY <1>1, <1>2, <1>3, <1>4, <1>5, <1>6, QuietStep

LEMMA UsageOnLogoutFollows ==
    ASSUME IInv, ScreenInv, NEW s \in Sessions, UsageOnLogout(s)
    PROVE  ScreenInv'
<1>1. PICK next : Goes(s, next) /\ next = [task[s] EXCEPT !.at = "farewell"]
  BY DEF UsageOnLogout
<1>2. /\ TypeOK /\ s \in Threads /\ task[s] \in Task /\ task[s].at = "uncount"
      /\ clientGame' = [clientGame EXCEPT ![UserOf[s]] = NoGame]
      /\ clientGame \in [Users -> Games \cup {NoGame}]
      /\ UNCHANGED <<clients, screen, due, doubtful, auth, twins>>
  BY DEF IInv, TypeOK, UsageOnLogout, Threads, screens
<1>3. next.at = "farewell" /\ next.about = task[s].about /\ next.to = task[s].to
  BY <1>1, <1>2 DEF Task, Idle
<1>4. OneForEach(next) /\ TextsTrue(next)' /\ TaskSound(s, next)'
  BY <1>3, NoTexts DEF Telling, TaskSound
<1>5. ASSUME NEW x, NEW v
      PROVE  /\ Signals(task[s], x, v) => Signals(next, x, v)
             /\ \A what : ~Brings(task[s], x, v, what)
  BY <1>2, <1>3 DEF Signals, Brings, OnTheWay
<1>6. \A u, v \in Users : InSameGame(u, v)' => InSameGame(u, v)
  BY <1>2 DEF InSameGame, Players
<1>7. \A u \in DOMAIN clients : clients[u].session # s
  BY <1>2 DEF ScreenInv, EntriesSound
<1>8. QED
  BY <1>1, <1>2, <1>3, <1>4, <1>5, <1>6, <1>7, QuietStep

\* A login not yet registered, and a deletion, of which nobody is told.
LEMMA SilentFollows ==
    ASSUME IInv, ScreenInv, NEW s \in Sessions,
           CmdDelete(s) \/ \E hidden \in BOOLEAN : CmdLogin(s, hidden)
    PROVE  ScreenInv'
<1>1. PICK next : /\ Goes(s, next) /\ next.at \in {"register", "unregister"}
                  /\ next.at = "register" => s \in auth' /\ s \notin auth
  <2>1. CASE CmdDelete(s)
    BY <2>1 DEF CmdDelete
  <2>2. ASSUME NEW hidden \in BOOLEAN, CmdLogin(s, hidden)
        PROVE  /\ Goes(s, [at |-> "register", about |-> UserOf[s], hidden |-> hidden])
               /\ s \in auth' /\ s \notin auth
    BY <2>2 DEF CmdLogin
  <2>3. QED
    BY <2>1, <2>2
<1>2. /\ TypeOK /\ s \in Threads /\ task[s].at = "idle"
      /\ auth \subseteq auth' /\ twins \subseteq twins'
      /\ UNCHANGED <<clients, screen, due, doubtful, clientGame>>
  BY IdleIsTask DEF IInv, TypeOK, CmdDelete, CmdLogin, Free, Threads, screens, usage
<1>3. OneForEach(next) /\ TextsTrue(next)' /\ TaskSound(s, next)'
  BY <1>1, NoTexts DEF Telling, TaskSound
<1>4. ASSUME NEW x, NEW v
      PROVE  ~Signals(task[s], x, v) /\ \A what : ~Brings(task[s], x, v, what)
  BY <1>2 DEF Signals, Brings, OnTheWay
<1>5. \A u, v \in Users : InSameGame(u, v)' => InSameGame(u, v)
  BY <1>2 DEF InSameGame, Players
<1>6. next.at = "register" => \A u \in DOMAIN clients : clients[u].session # s
  BY <1>1 DEF ScreenInv, EntriesSound
<1>7. QED
  BY <1>1, <1>2, <1>3, <1>4, <1>5, <1>6, QuietStep

---------------------------------------------------------------------------
(* Steps that tell news                                                    *)

\* What a client makes of news with one text for a field.
LEMMA ToldDetail ==
    ASSUME NEW view \in View, NEW news \in SUBSET News, NEW f \in Fields,
           \A n, m \in news : n.of = m.of => n = m
    PROVE  /\ Told(view, news).online = view.online
           /\ \A n \in news : n.of = f /\ n.body # Nothing => Told(view, news).detail[f] = n.body
           /\ (\A n \in news : n.of = f => n.body = Nothing) =>
                Told(view, news).detail[f] = view.detail[f]
<1> DEFINE detail == [x \in Fields |->
                IF \E n \in news : n.of = x /\ n.body # Nothing
                THEN (CHOOSE n \in news : n.of = x).body ELSE view.detail[x]]
<1>1. Told(view, news) = [view EXCEPT !.detail = detail]
  BY DEF Told, View
<1>2. Told(view, news).online = view.online /\ Told(view, news).detail = detail
  BY <1>1 DEF View
<1>3. ASSUME NEW n \in news, n.of = f, n.body # Nothing PROVE detail[f] = n.body
  <2>1. (CHOOSE m \in news : m.of = f) = n
    BY <1>3
  <2>2. QED
    BY <1>3, <2>1
<1>4. (\A n \in news : n.of = f => n.body = Nothing) => detail[f] = view.detail[f]
  OBVIOUS
<1> HIDE DEF detail
<1>5. QED
  BY <1>2, <1>3, <1>4

\* News of a user that says what its entry says keeps what is on its way, if it
\* reaches those that the handler was to tell.
LEMMA TellingStep ==
    ASSUME TypeOK, ScreenInv, NEW t \in Threads, NEW next, Goes(t, next),
           UNCHANGED <<clients, doubtful, auth, twins, clientGame>>,
           NEW S, NEW w \in Users, w = task[t].about, NEW news \in SUBSET News, Tell(S, w, news),
           task[t].at # "games", next.at \in {"idle", "toggle", "display"},
           \A n, m \in news : n.of = m.of => n = m,
           Registered(w) /\ w \notin doubtful =>
               \A n \in news : n.body # Nothing => clients[w].detail[n.of] = n.body,
           OneForEach(next), TextsTrue(next)',
           \A s \in Watchers, v \in Users : Follower(s, v) =>
                /\ Signals(task[t], s, v) => s \in S /\ \E n \in news : n.body = Nothing
                /\ \A what : Compared(s, v) /\ Brings(task[t], s, v, what) =>
                        s \in S /\ \E n \in news : n.body = Nothing \/ n.of \in what
    PROVE  ScreenInv'
<1>1. EntriesSound'
  BY EntriesStay DEF ScreenInv, TaskSound
<1>2. TextsRight'
  BY TextsStay DEF ScreenInv
<1>3. ASSUME NEW s \in Watchers, NEW v \in Users, Follower(s, v)'
      PROVE  Follows(s, v)'
  <2>1. Follower(s, v) /\ Follows(s, v) /\ UserOf[s] \in Users
    BY <1>3, UsersAssumption DEF Follower, Registered, ScreenInv, AllFollow
  <2>2. /\ Visible(v)' = Visible(v) /\ Registered(v)' = Registered(v)
        /\ Compared(s, v)' = Compared(s, v)
    BY DEF Visible, Registered, Compared, InSameGame, Players
  <2>3. /\ screen \in [Watchers -> [Users -> View]]
        /\ v \in due[s] => v \in due'[s]
        /\ s \in S /\ v = w /\ (\E n \in news : n.body = Nothing) => v \in due'[s]
        /\ s \in S => screen'[s] = [screen[s] EXCEPT ![w] = Told(@, news)]
        /\ s \notin S => screen'[s] = screen[s]
    BY DEF Tell, TypeOK
  <2>4. \A what : (Signals(task[t], s, v) \/ Brings(task[t], s, v, what)) => v = w
    BY DEF Signals, Brings
  <2>5. ~Signals(next, s, v) /\ next.at # "games"
    BY DEF Signals
  <2>6. CASE v # w \/ s \notin S
    <3>1. screen'[s][v] = screen[s][v]
      BY <2>3, <2>6
    <3>2. ~Signals(task[t], s, v) /\ \A what : Compared(s, v) => ~Brings(task[t], s, v, what)
      BY <2>1, <2>4, <2>6
    <3>3. QED
      BY <2>1, <2>2, <2>3, <2>5, <3>1, <3>2, FollowsOn
  <2>7. CASE v = w /\ s \in S /\ \E n \in news : n.body = Nothing
    BY <2>3, <2>7 DEF Follows, WillAsk
  <2>8. CASE v = w /\ s \in S /\ ~\E n \in news : n.body = Nothing
    <3>1. ~Signals(task[t], s, v)
      BY <2>1, <2>8
    <3>2. CASE WillAsk(s, v)
      BY <2>3, <3>1, <3>2, StillAsks DEF Follows
    <3>3. CASE ~WillAsk(s, v)
      <4>1. /\ Visible(v) => ShowsOpenly(s, v)
            /\ MayShow(s, v) => Registered(v) \/ v \in doubtful
            /\ Compared(s, v) => \A f \in Fields : FieldFollows(s, v, f)
        BY <2>1, <3>3 DEF Follows
      <4>2. /\ Asked(s, v)' = Asked(s, v)
            /\ Asked(s, v) => Answer(v)' = Answer(v)
            /\ \A f : Counts(s, v, f)' = Counts(s, v, f)
        BY <2>5, SameAnswers
      <4>3. screen[s][v] \in View /\ screen'[s][v] = Told(screen[s][v], news)
        BY <2>3, <2>8
      <4>4. screen'[s][v].online = screen[s][v].online
        <5>1. Told(screen[s][v], news).online = screen[s][v].online
          BY <4>3 DEF Told, View
        <5>2. QED
          BY <4>3, <5>1
      <4>5. ShowsOpenly(s, v)' = ShowsOpenly(s, v) /\ MayShow(s, v)' = MayShow(s, v)
        BY <4>2, <4>4 DEF ShowsOpenly, MayShow
      <4>6. ASSUME Compared(s, v)', NEW f \in Fields PROVE FieldFollows(s, v, f)'
        <5>1. Compared(s, v) /\ Registered(v) /\ v \notin doubtful /\ FieldFollows(s, v, f)
          BY <2>2, <4>1, <4>6 DEF Compared, Visible
        <5>2. clients'[v].detail[f] = clients[v].detail[f]
          OBVIOUS
        <5>3. CASE ~Asked(s, v) /\ \E n \in news : n.of = f
          <6>1. screen'[s][v].detail[f] = clients[v].detail[f]
            BY <2>8, <4>3, <5>1, <5>3, ToldDetail
          <6>2. DetailShown(s, v)'[f] = clients'[v].detail[f]
            BY <4>2, <5>2, <5>3, <6>1 DEF DetailShown
          <6>3. QED
            BY <4>2, <6>2, FieldStill
        <5>4. CASE ~Asked(s, v) /\ ~\E n \in news : n.of = f
          <6>1. screen'[s][v].detail[f] = screen[s][v].detail[f]
            BY <4>3, <5>4, ToldDetail
          <6>2. DetailShown(s, v)'[f] = DetailShown(s, v)[f]
            BY <4>2, <5>4, <6>1 DEF DetailShown
          <6>3. Counts(s, v, f) = {f}
            BY <5>4 DEF Counts
          <6>4. ~Brings(task[t], s, v, Counts(s, v, f))
            BY <2>1, <2>8, <5>1, <5>4, <6>3
          <6>5. QED
            BY <4>2, <5>1, <5>2, <6>2, <6>4, FieldStill
        <5>5. CASE Asked(s, v)
          <6>1. DetailShown(s, v)'[f] = DetailShown(s, v)[f]
            BY <4>2, <5>5 DEF DetailShown
          <6>2. Counts(s, v, f) = {}
            BY <5>5 DEF Counts
          <6>3. ~Brings(task[t], s, v, Counts(s, v, f))
            BY <2>1, <2>8, <5>1, <6>2
          <6>4. QED
            BY <4>2, <5>1, <5>2, <6>1, <6>3, FieldStill
        <5>6. QED
          BY <5>3, <5>4, <5>5
      <4>7. QED
        BY <2>2, <4>1, <4>5, <4>6 DEF Follows
    <3>4. QED
      BY <3>2, <3>3
  <2>9. QED
    BY <2>6, <2>7, <2>8
<1>4. QED
  BY <1>1, <1>2, <1>3 DEF ScreenInv, AllFollow

LEMMA GreetFollows ==
    ASSUME IInv, ScreenInv, NEW s \in Sessions, Greet(s)
    PROVE  ScreenInv'
<1>0. PICK S : S = task[s].to
  OBVIOUS
<1>1. PICK next : Goes(s, next) /\ next = Idle
  BY DEF Greet
<1>2. PICK w \in Users : w = task[s].about
  BY TaskHolds, IdleIsTask DEF IInv, TypeOK, Greet, Threads
<1>3. PICK news \in SUBSET News : news = {NewsOf("online")}
  BY NewsOfIsNews
<1>4. /\ TypeOK /\ s \in Threads /\ task[s].at = "greet"
      /\ Tell(S, w, news)
      /\ UNCHANGED <<clients, doubtful, auth, twins, clientGame>>
  BY <1>0, <1>2, <1>3 DEF IInv, TypeOK, Greet, Threads, usage
<1>5. /\ \A n, m \in news : n.of = m.of => n = m
      /\ \A n \in news : n.body = Nothing
      /\ Registered(w) /\ w \notin doubtful =>
            \A n \in news : n.body # Nothing => clients[w].detail[n.of] = n.body
  BY <1>3 DEF NewsOf
<1>6. next.at = "idle" /\ OneForEach(next) /\ TextsTrue(next)'
  BY <1>1, IdleIsTask, NoTexts DEF Telling
<1>7. ASSUME NEW x, NEW v
      PROVE  /\ Signals(task[s], x, v) => x \in S /\ \E n \in news : n.body = Nothing
             /\ \A what : ~Brings(task[s], x, v, what)
  BY <1>0, <1>3, <1>4, <1>5 DEF Signals, Brings, OnTheWay
<1>8. \A x \in Watchers, v \in Users : Follower(x, v) =>
          /\ Signals(task[s], x, v) => x \in S /\ \E n \in news : n.body = Nothing
          /\ \A what : Compared(x, v) /\ Brings(task[s], x, v, what) =>
                  x \in S /\ \E n \in news : n.body = Nothing \/ n.of \in what
  BY <1>7
<1>9. QED
  <2>1. /\ TypeOK /\ ScreenInv /\ s \in Threads /\ Goes(s, next)
        /\ task[s].at # "games" /\ next.at \in {"idle", "toggle", "display"}
    BY <1>1, <1>4, <1>6
  <2>2. w \in Users /\ w = task[s].about /\ news \in SUBSET News /\ Tell(S, w, news)
    BY <1>2, <1>3, <1>4
  <2>3. UNCHANGED <<clients, doubtful, auth, twins, clientGame>>
    BY <1>4
  <2>4. QED
    BY <2>1, <2>2, <2>3, <1>5, <1>6, <1>8, TellingStep

LEMMA AnnounceStatusFollows ==
    ASSUME IInv, ScreenInv, NEW s \in Sessions, AnnounceStatus(s)
    PROVE  ScreenInv'
<1>1. PICK next : Goes(s, next) /\ next = [task[s] EXCEPT !.at = "toggle"]
  BY DEF AnnounceStatus
<1>2. PICK w \in Users : w = task[s].about
  BY TaskHolds, IdleIsTask DEF IInv, TypeOK, AnnounceStatus, Threads
<1>3. PICK news \in SUBSET News : news = {NewsOf("online")}
  BY NewsOfIsNews
<1>0. PICK S : S = SessionsOf(task[s].to)
  OBVIOUS
<1>4. /\ TypeOK /\ s \in Threads /\ task[s] \in Task /\ task[s].at = "announce"
      /\ Tell(S, w, news)
      /\ UNCHANGED <<clients, doubtful, auth, twins, clientGame>>
  BY <1>0, <1>2, <1>3 DEF IInv, TypeOK, AnnounceStatus, Threads, usage
<1>5. /\ \A n, m \in news : n.of = m.of => n = m
      /\ \A n \in news : n.body = Nothing
      /\ Registered(w) /\ w \notin doubtful =>
            \A n \in news : n.body # Nothing => clients[w].detail[n.of] = n.body
  BY <1>3 DEF NewsOf
<1>6. next.at = "toggle" /\ next.about = task[s].about /\ next.news = task[s].news
  BY <1>1, <1>4 DEF Task, Idle
<1>7. OneForEach(next) /\ TextsTrue(next)'
  <2>1. OneForEach(task[s]) /\ TextsTrue(task[s])
    BY <1>4 DEF ScreenInv, TextsRight
  <2>2. QED
    BY <1>4, <1>6, <2>1, FewerTexts DEF Telling
<1>8. ASSUME NEW x \in Watchers, NEW v \in Users, Follower(x, v)
      PROVE  /\ Signals(task[s], x, v) =>
                    x \in S /\ \E n \in news : n.body = Nothing
             /\ \A what : ~Brings(task[s], x, v, what)
  <2>1. UserOf[x] \in task[s].to => x \in S
    BY <1>0, <1>8 DEF Follower, Registered, SessionsOf
  <2>2. QED
    BY <1>3, <1>4, <1>5, <2>1 DEF Signals, Brings, OnTheWay
<1>9. \A x \in Watchers, v \in Users : Follower(x, v) =>
          /\ Signals(task[s], x, v) => x \in S /\ \E n \in news : n.body = Nothing
          /\ \A what : Compared(x, v) /\ Brings(task[s], x, v, what) =>
                  x \in S /\ \E n \in news : n.body = Nothing \/ n.of \in what
  BY <1>8
<1>10. QED
  <2>1. /\ TypeOK /\ ScreenInv /\ s \in Threads /\ Goes(s, next)
        /\ task[s].at # "games" /\ next.at \in {"idle", "toggle", "display"}
    BY <1>1, <1>4, <1>6
  <2>2. w \in Users /\ w = task[s].about /\ news \in SUBSET News /\ Tell(S, w, news)
    BY <1>2, <1>3, <1>4
  <2>3. UNCHANGED <<clients, doubtful, auth, twins, clientGame>>
    BY <1>4
  <2>4. QED
    BY <2>1, <2>2, <2>3, <1>5, <1>7, <1>9, TellingStep

\* News that a handler has carried through.
LEMMA CarriedNews ==
    ASSUME IInv, ScreenInv, NEW t \in Threads, task[t].at \in {"push", "post", "display"}
    PROVE  /\ task[t].about \in Users /\ task[t].news \in SUBSET News
           /\ OneForEach(task[t]) /\ TextsTrue(task[t])
           /\ \A n, m \in task[t].news : n.of = m.of => n = m
           /\ Registered(task[t].about) /\ task[t].about \notin doubtful =>
                \A n \in task[t].news : n.body # Nothing => clients[task[t].about].detail[n.of] = n.body
<1>1. task[t] \in Task
  BY DEF IInv, TypeOK
<1>2. task[t].about \in Users /\ task[t].news \in SUBSET News
  BY <1>1, TaskHolds
<1>3. OneForEach(task[t]) /\ TextsTrue(task[t])
  BY DEF ScreenInv, TextsRight
<1>4. QED
  BY <1>2, <1>3 DEF OneForEach, TextsTrue, Texts, Telling

LEMMA PushFollows ==
    ASSUME IInv, ScreenInv, NEW s \in Sessions, Push(s)
    PROVE  ScreenInv'
<1>1. PICK next : Goes(s, next) /\ next = Idle
  BY DEF Push
<1>2. /\ TypeOK /\ s \in Threads /\ task[s].at = "push"
      /\ Tell(SessionsOf(task[s].to), task[s].about, task[s].news)
      /\ UNCHANGED <<clients, doubtful, auth, twins, clientGame>>
  BY DEF IInv, TypeOK, Push, Threads, usage
<1>3. PICK w \in Users, news \in SUBSET News : w = task[s].about /\ news = task[s].news
  BY <1>2, CarriedNews
<1>0. PICK S : S = SessionsOf(task[s].to)
  OBVIOUS
<1>4. Tell(S, w, news)
  BY <1>0, <1>2, <1>3 DEF Tell
<1>5. /\ \A n, m \in news : n.of = m.of => n = m
      /\ Registered(w) /\ w \notin doubtful =>
            \A n \in news : n.body # Nothing => clients[w].detail[n.of] = n.body
  BY <1>2, <1>3, CarriedNews
<1>6. next.at = "idle" /\ OneForEach(next) /\ TextsTrue(next)'
  BY <1>1, IdleIsTask, NoTexts DEF Telling
<1>7. ASSUME NEW x \in Watchers, NEW v \in Users, Follower(x, v)
      PROVE  /\ ~Signals(task[s], x, v)
             /\ \A what : Brings(task[s], x, v, what) =>
                  x \in S /\ \E n \in news : n.body = Nothing \/ n.of \in what
  <2>1. UserOf[x] \in task[s].to => x \in S
    BY <1>0, <1>7 DEF Follower, Registered, SessionsOf
  <2>2. QED
    BY <1>2, <1>3, <2>1 DEF Signals, Brings, OnTheWay
<1>8. QED
  BY <1>1, <1>2, <1>3, <1>4, <1>5, <1>6, <1>7, TellingStep, ZenonT(30)

LEMMA PostFollows ==
    ASSUME IInv, ScreenInv, NEW t \in Threads, Post(t)
    PROVE  ScreenInv'
<1>0. PICK S : S = task[t].to \cap auth
  OBVIOUS
<1>1. PICK next : Goes(t, next) /\ next = Idle
  BY DEF Post
<1>2. /\ TypeOK /\ task[t].at = "post"
      /\ Tell(task[t].to \cap auth, task[t].about, task[t].news)
      /\ UNCHANGED <<clients, doubtful, auth, twins, clientGame>>
  BY DEF IInv, Post, usage
<1>3. PICK w \in Users, news \in SUBSET News : w = task[t].about /\ news = task[t].news
  BY <1>2, CarriedNews
<1>4. Tell(S, w, news)
  BY <1>0, <1>2, <1>3 DEF Tell
<1>5. /\ \A n, m \in news : n.of = m.of => n = m
      /\ Registered(w) /\ w \notin doubtful =>
            \A n \in news : n.body # Nothing => clients[w].detail[n.of] = n.body
  BY <1>2, <1>3, CarriedNews
<1>6. next.at = "idle" /\ OneForEach(next) /\ TextsTrue(next)'
  BY <1>1, IdleIsTask, NoTexts DEF Telling
<1>7. ASSUME NEW x \in Watchers, NEW v \in Users, Follower(x, v)
      PROVE  /\ ~Signals(task[t], x, v)
             /\ \A what : Brings(task[t], x, v, what) =>
                  x \in S /\ \E n \in news : n.body = Nothing \/ n.of \in what
  <2>1. x \in auth
    BY <1>7 DEF Follower, Registered, ScreenInv, EntriesSound
  <2>2. QED
    BY <1>0, <1>2, <1>3, <2>1 DEF Signals, Brings, OnTheWay
<1>8. QED
  BY <1>1, <1>2, <1>3, <1>4, <1>5, <1>6, <1>7, TellingStep, ZenonT(30)

LEMMA DisplayFollows ==
    ASSUME IInv, ScreenInv, NEW s \in Sessions, Display(s)
    PROVE  ScreenInv'
<1> DEFINE title == {n \in task[s].news : n.of = "title"}
<1>1. PICK news : news = IF title = {} THEN task[s].news ELSE title
  OBVIOUS
<1>2. PICK next : Goes(s, next) /\
          next = IF news = task[s].news THEN Idle ELSE [task[s] EXCEPT !.news = task[s].news \ news]
  BY <1>1 DEF Display
<1>3. /\ TypeOK /\ s \in Threads /\ task[s] \in Task /\ task[s].at = "display"
      /\ Tell(SessionsOf(task[s].to), task[s].about, news)
      /\ UNCHANGED <<clients, doubtful, auth, twins, clientGame>>
  BY <1>1 DEF IInv, TypeOK, Display, Threads, usage
<1>4. PICK w \in Users : w = task[s].about
  BY <1>3, CarriedNews
<1>5. /\ news \in SUBSET News
      /\ \A n, m \in news : n.of = m.of => n = m
      /\ Registered(w) /\ w \notin doubtful =>
            \A n \in news : n.body # Nothing => clients[w].detail[n.of] = n.body
  <2>1. news \subseteq task[s].news
    BY <1>1
  <2>2. QED
    BY <1>3, <1>4, <2>1, CarriedNews
<1>6. next.at \in {"idle", "display"} /\ OneForEach(next) /\ TextsTrue(next)'
  <2>1. CASE next = Idle
    BY <2>1, IdleIsTask, NoTexts DEF Telling
  <2>2. CASE next # Idle
    <3>1. next.at = "display" /\ next.about = task[s].about /\ next.news = task[s].news \ news
      BY <1>2, <1>3, <2>2 DEF Task, Idle
    <3>2. OneForEach(task[s]) /\ TextsTrue(task[s])
      BY <1>3, CarriedNews
    <3>3. QED
      BY <1>3, <3>1, <3>2, FewerTexts DEF Telling
  <2>3. QED
    BY <2>1, <2>2
<1>7. ASSUME NEW x, NEW v
      PROVE  ~Signals(task[s], x, v) /\ \A what : ~Brings(task[s], x, v, what)
  BY <1>3 DEF Signals, Brings, OnTheWay
<1>0. PICK S : S = SessionsOf(task[s].to)
  OBVIOUS
<1>8. Tell(S, w, news)
  BY <1>0, <1>3, <1>4 DEF Tell
<1>9. QED
  BY <1>2, <1>3, <1>4, <1>5, <1>6, <1>7, <1>8, TellingStep, ZenonT(30)

---------------------------------------------------------------------------
(* Steps that change entries and games                                     *)

\* Texts of a user are what Carries looks for.
LEMMA TextsCarried ==
    ASSUME TypeOK, NEW x \in Threads, Texts(task[x]) # {}
    PROVE  Carries(task[x].about)
<1>1. task[x] \in Task /\ task[x].at \in Telling
  BY DEF TypeOK, Texts
<1>2. "news" \in DOMAIN task[x]
  BY <1>1 DEF Task, Telling, Idle
<1>3. QED
  BY <1>1, <1>2 DEF Carries, Texts

\* Texts stay right when only the entry of w changes, or goes, and w is doubted
\* from then on if any are on their way.
LEMMA TextsOfOthers ==
    ASSUME TypeOK, TextsRight, NEW t \in Threads, NEW next, Goes(t, next),
           OneForEach(next), TextsTrue(next)', NEW w,
           \A v : v # w => /\ v \in DOMAIN clients' => v \in DOMAIN clients /\ clients'[v] = clients[v]
                           /\ v \in doubtful => v \in doubtful',
           Carries(w) /\ w \in DOMAIN clients' => w \in doubtful'
                \/ (w \notin doubtful /\ w \in DOMAIN clients /\ clients'[w].detail = clients[w].detail)
    PROVE  TextsRight'
<1>1. ASSUME NEW x \in Threads, NEW v, v = task[x].about, Texts(task[x]) # {},
             v \in DOMAIN clients', v \notin doubtful'
      PROVE  v \in DOMAIN clients /\ v \notin doubtful /\ clients'[v].detail = clients[v].detail
  <2>1. CASE v # w
    BY <1>1, <2>1
  <2>2. CASE v = w
    BY <1>1, <2>2, TextsCarried
  <2>3. QED
    BY <2>1, <2>2
<1>2. QED
  BY <1>1, TextsStay

LEMMA RegisterFollows ==
    ASSUME IInv, ScreenInv, NEW x \in Sessions, Register(x)
    PROVE  ScreenInv'
<1>1. PICK w \in Users, hidden \in BOOLEAN : w = UserOf[x] /\ hidden = task[x].hidden
  BY UsersAssumption, TaskHolds DEF Register, IInv, TypeOK, Threads
<1>2. PICK next : /\ Goes(x, next)
                  /\ next = [at |-> "count", about |-> w,
                             to |-> IF hidden THEN {} ELSE {clients[v].session : v \in FriendsOnline(w)}]
  BY <1>1 DEF Register
<1>3. /\ TypeOK /\ x \in Threads /\ task[x].at = "register" /\ x \in auth
      /\ clients' = WithEntry(x, hidden) /\ due' = AsksAnew(x)
      /\ UNCHANGED <<screen, auth, twins, clientGame>>
      /\ due \in [Watchers -> SUBSET Users]
  BY <1>1 DEF Register, IInv, TypeOK, Threads, usage, ScreenInv, EntriesSound, TaskSound
<1>4. /\ DOMAIN clients' = DOMAIN clients \cup {w}
      /\ clients'[w].session = x /\ clients'[w].hidden = hidden
      /\ \A v : v # w /\ v \in DOMAIN clients => clients'[v] = clients[v]
  BY <1>1, <1>3 DEF WithEntry
<1>5. /\ \A v : v # w => (v \in doubtful <=> v \in doubtful')
      /\ Carries(w) => w \in doubtful'
      /\ hidden /\ w \in doubtful => w \in doubtful'
  BY <1>1 DEF Register
<1>6. next.at = "count" /\ next.about = w
  BY <1>2
<1>7. OneForEach(next) /\ TextsTrue(next)' /\ TaskSound(x, next)'
  BY <1>6, NoTexts DEF Telling, TaskSound
<1>8. EntriesSound'
  <2>1. ASSUME NEW u \in DOMAIN clients'
        PROVE  \/ u \in DOMAIN clients /\ clients'[u].session = clients[u].session
               \/ UserOf[clients'[u].session] = u /\ clients'[u].session \in auth'
                  /\ clients'[u].session = x
    BY <1>1, <1>3, <1>4
  <2>2. QED
    BY <1>2, <1>3, <1>6, <1>7, <2>1, EntriesStay DEF ScreenInv
<1>9. TextsRight'
  <2>1. TextsRight
    BY DEF ScreenInv
  <2>2. QED
    BY <1>2, <1>3, <1>4, <1>5, <1>7, <2>1, TextsOfOthers
<1>10. ASSUME NEW s \in Watchers, NEW v \in Users, Follower(s, v)'
       PROVE  Follows(s, v)'
  <2>1. UserOf[s] \in Users
    BY UsersAssumption
  <2>2. CASE s = x
    <3>1. v \in due'[s]
      BY <1>3, <1>10, <2>2 DEF AsksAnew, Follower, FriendsOf
    <3>2. QED
      BY <3>1 DEF Follows, WillAsk
  <2>3. CASE s # x
    <3>1. UserOf[s] # w
      BY <1>4, <1>10, <2>3 DEF Follower
    <3>2. Follower(s, v)
      BY <1>4, <1>10, <3>1 DEF Follower, Registered, FriendsOf
    <3>3. Follows(s, v) /\ due'[s] = due[s] /\ screen'[s][v] = screen[s][v]
      BY <1>3, <2>3, <3>2 DEF ScreenInv, AllFollow, AsksAnew
    <3>4. ~Signals(task[x], s, v) /\ \A what : ~Brings(task[x], s, v, what)
      BY <1>3 DEF Signals, Brings, OnTheWay
    <3>5. CASE v # w
      <4>1. /\ Visible(v)' = Visible(v) /\ Registered(v)' = Registered(v)
            /\ Compared(s, v)' => Compared(s, v)
            /\ Registered(v) => clients'[v] = clients[v]
        BY <1>3, <1>4, <1>5, <3>5 DEF Visible, Registered, Compared, InSameGame, Players
      <4>2. Compared(s, v)' => Registered(v)
        BY <4>1 DEF Compared, Visible
      <4>3. Registered(v) \/ v \in doubtful => Registered(v)' \/ v \in doubtful'
        BY <1>5, <3>5, <4>1
      <4>4. QED
        BY <1>2, <1>3, <1>6, <2>1, <3>3, <3>4, <4>1, <4>2, <4>3, FollowsOn
    <3>6. CASE v = w /\ hidden
      <4>1. ~Visible(v)' /\ Registered(v)' /\ ~Compared(s, v)'
        BY <1>4, <3>6 DEF Visible, Registered, Compared
      <4>2. QED
        BY <1>2, <1>3, <1>6, <3>3, <3>4, <4>1, FollowsOn
    <3>7. CASE v = w /\ ~hidden
      <4>1. <<UserOf[s], v>> \in Friendships /\ <<v, UserOf[s]>> \in Friendships
        BY <3>2, UsersAssumption DEF Follower, FriendsOf
      <4>2. UserOf[s] \in FriendsOnline(w)
        BY <2>1, <3>2, <3>7, <4>1 DEF FriendsOnline, FriendsOf, Follower
      <4>3. s \in {clients[u].session : u \in FriendsOnline(w)}
        BY <3>2, <4>2 DEF Follower
      <4>4. Signals(next, s, v)
        BY <1>2, <3>7, <4>3 DEF Signals
      <4>5. QED
        BY <1>2, <1>3, <1>6, <3>3, <3>4, <4>4, FollowsOn
    <3>8. QED
      BY <3>5, <3>6, <3>7
  <2>4. QED
    BY <2>2, <2>3
<1>11. QED
  BY <1>8, <1>9, <1>10 DEF ScreenInv, AllFollow

LEMMA AppearOfflineFollows ==
    ASSUME IInv, ScreenInv, NEW x \in Sessions, NEW hide \in BOOLEAN, CmdSetAppearOffline(x, hide)
    PROVE  ScreenInv'
<1>1. PICK w \in Users : w = UserOf[x]
  BY UsersAssumption
<1>2. PICK next : /\ Goes(x, next)
                  /\ next = [at |-> "announce", about |-> w, to |-> FriendsOnline(w),
                             news |-> TitleNews(w) \cup DetailNews(w, hide)]
  BY <1>1 DEF CmdSetAppearOffline
<1>3. /\ TypeOK /\ x \in Threads /\ task[x].at = "idle"
      /\ w \in DOMAIN clients /\ clients[w] \in Entry
      /\ clients' = [clients EXCEPT ![w].hidden = hide]
      /\ UNCHANGED <<screen, due, auth, twins, clientGame, doubtful>>
  BY <1>1, IdleIsTask
     DEF CmdSetAppearOffline, IInv, TypeOK, Threads, Free, Registered, usage, screens
<1>4. /\ DOMAIN clients' = DOMAIN clients
      /\ clients'[w].session = clients[w].session /\ clients'[w].detail = clients[w].detail
      /\ \A v \in DOMAIN clients : v # w => clients'[v] = clients[v]
  BY <1>3 DEF Entry
<1>5. next.at = "announce" /\ next.about = w
  BY <1>2
<1>6. \A n \in DetailNews(w, hide) :
          n.of \in Fields /\ (n.body = Nothing \/ n.body = clients[w].detail[n.of])
  BY DEF DetailNews
<1>7. OneForEach(next)
  <2>1. \A n, m \in DetailNews(w, hide) : n.of = m.of => n = m
    BY DEF DetailNews
  <2>2. \A n \in TitleNews(w) : n = NewsOf("title") /\ n.of = "title" /\ n.body = Nothing
    BY DEF TitleNews, NewsOf
  <2>3. "title" \notin Fields
    BY NamesAssumption
  <2>4. next.news = TitleNews(w) \cup DetailNews(w, hide)
    BY <1>2
  <2>5. \A n, m \in next.news : n.of = m.of => n = m
    BY <1>6, <2>1, <2>2, <2>3, <2>4
  <2>6. \A n \in Texts(next) : n.of \in Fields
    BY <1>6, <2>2, <2>4 DEF Texts
  <2>7. QED
    BY <2>5, <2>6 DEF OneForEach
<1>8. TextsTrue(next)' /\ TaskSound(x, next)'
  <2>1. \A n \in Texts(next) : n.body = clients[w].detail[n.of]
    BY <1>2, <1>6 DEF Texts, TitleNews, NewsOf
  <2>2. \A n \in Texts(next) : n.body = clients'[w].detail[n.of]
    BY <1>4, <2>1
  <2>3. QED
    BY <1>5, <2>2 DEF TextsTrue, TaskSound
<1>9. EntriesSound'
  <2>1. \A u \in DOMAIN clients' : u \in DOMAIN clients /\ clients'[u].session = clients[u].session
    BY <1>4
  <2>2. QED
    BY <1>2, <1>3, <1>5, <1>8, <2>1, EntriesStay DEF ScreenInv
<1>10. TextsRight'
  <2>1. TextsRight
    BY DEF ScreenInv
  <2>2. QED
    BY <1>2, <1>3, <1>4, <1>7, <1>8, <2>1, TextsOfOthers
<1>11. ASSUME NEW s \in Watchers, NEW v \in Users, Follower(s, v)'
       PROVE  Follows(s, v)'
  <2>1. Follower(s, v) /\ Follows(s, v) /\ UserOf[s] \in Users
    BY <1>4, <1>11, UsersAssumption DEF Follower, Registered, FriendsOf, ScreenInv, AllFollow
  <2>2. ~Signals(task[x], s, v) /\ \A what : ~Brings(task[x], s, v, what)
    BY <1>3 DEF Signals, Brings, OnTheWay
  <2>3. CASE v # w
    <3>1. /\ Visible(v)' = Visible(v) /\ Registered(v)' = Registered(v)
          /\ Compared(s, v)' => Compared(s, v) /\ Registered(v)
          /\ Registered(v) => clients'[v] = clients[v]
      BY <1>3, <1>4, <2>3 DEF Visible, Registered, Compared, InSameGame, Players
    <3>2. QED
      BY <1>2, <1>3, <1>5, <2>1, <2>2, <3>1, FollowsOn
  <2>4. CASE v = w
    <3>1. <<v, UserOf[s]>> \in Friendships
      BY <2>1, UsersAssumption DEF Follower, FriendsOf
    <3>2. UserOf[s] \in FriendsOnline(w)
      BY <2>1, <2>4, <3>1 DEF FriendsOnline, FriendsOf, Follower
    <3>3. Signals(next, s, v)
      BY <1>2, <2>4, <3>2 DEF Signals
    <3>4. QED
      BY <1>2, <1>3, <1>5, <2>1, <2>2, <3>3, FollowsOn
  <2>5. QED
    BY <2>3, <2>4
<1>12. QED
  BY <1>9, <1>10, <1>11 DEF ScreenInv, AllFollow

LEMMA CleanupFollows ==
    ASSUME IInv, ScreenInv, NEW x \in Sessions, CleanupOnDisconnect(x)
    PROVE  ScreenInv'
<1>1. PICK w \in Users : w = UserOf[x]
  BY UsersAssumption
<1>2. PICK next : /\ Goes(x, next)
                  /\ next = [at |-> "uncount", about |-> w,
                             to |-> IF Visible(w) THEN {clients[v].session : v \in FriendsOnline(w)}
                                    ELSE {}]
  BY <1>1 DEF CleanupOnDisconnect
<1>3. /\ TypeOK /\ x \in Threads /\ task[x].at = "idle"
      /\ clients' = [v \in DOMAIN clients \ {w} |-> clients[v]]
      /\ UNCHANGED <<screen, due, auth, twins, clientGame>>
  BY <1>1, IdleIsTask DEF CleanupOnDisconnect, IInv, TypeOK, Threads, Free, usage, screens
<1>4. /\ DOMAIN clients' = DOMAIN clients \ {w}
      /\ \A v \in DOMAIN clients' : clients'[v] = clients[v]
  BY <1>3
<1>5. /\ \A v : v # w => (v \in doubtful' <=> v \in doubtful)
      /\ w \in doubtful => w \in doubtful'
      /\ Hidden(w) => w \in doubtful'
  BY <1>1 DEF CleanupOnDisconnect
<1>6. next.at = "uncount" /\ next.about = w
  BY <1>2
<1>7. OneForEach(next) /\ TextsTrue(next)' /\ TaskSound(x, next)'
  BY <1>6, NoTexts DEF Telling, TaskSound
<1>8. EntriesSound'
  <2>1. \A u \in DOMAIN clients' : u \in DOMAIN clients /\ clients'[u].session = clients[u].session
    BY <1>4
  <2>2. \A u \in DOMAIN clients' : clients'[u].session # x
    BY <1>1, <1>4, <2>1 DEF ScreenInv, EntriesSound
  <2>3. QED
    BY <1>2, <1>3, <1>7, <2>1, <2>2, EntriesStay DEF ScreenInv
<1>9. TextsRight'
  <2>1. TextsRight
    BY DEF ScreenInv
  <2>2. QED
    BY <1>2, <1>3, <1>4, <1>5, <1>7, <2>1, TextsOfOthers
<1>10. ASSUME NEW s \in Watchers, NEW v \in Users, Follower(s, v)'
       PROVE  Follows(s, v)'
  <2>1. Follower(s, v) /\ Follows(s, v) /\ UserOf[s] \in Users
    BY <1>4, <1>10, UsersAssumption DEF Follower, Registered, FriendsOf, ScreenInv, AllFollow
  <2>2. ~Signals(task[x], s, v) /\ \A what : ~Brings(task[x], s, v, what)
    BY <1>3 DEF Signals, Brings, OnTheWay
  <2>3. CASE v # w
    <3>1. /\ Visible(v)' = Visible(v) /\ Registered(v)' = Registered(v)
          /\ Compared(s, v)' => Compared(s, v) /\ Registered(v)
          /\ Registered(v) => clients'[v] = clients[v]
          /\ v \in doubtful => v \in doubtful'
      BY <1>3, <1>4, <1>5, <2>3 DEF Visible, Registered, Compared, InSameGame, Players
    <3>2. QED
      BY <1>2, <1>3, <1>6, <2>1, <2>2, <3>1, FollowsOn
  <2>4. CASE v = w /\ ~Visible(w)
    <3>1. ~Visible(v)' /\ ~Compared(s, v)'
      BY <1>4, <2>4 DEF Visible, Registered, Compared
    <3>2. Registered(v) \/ v \in doubtful => v \in doubtful'
      BY <1>5, <2>4 DEF Visible, Hidden
    <3>3. QED
      BY <1>2, <1>3, <1>6, <2>1, <2>2, <3>1, <3>2, FollowsOn
  <2>5. CASE v = w /\ Visible(w)
    <3>1. <<v, UserOf[s]>> \in Friendships
      BY <2>1, UsersAssumption DEF Follower, FriendsOf
    <3>2. UserOf[s] \in FriendsOnline(w)
      BY <2>1, <2>5, <3>1 DEF FriendsOnline, FriendsOf, Follower
    <3>3. s \in {clients[u].session : u \in FriendsOnline(w)}
      BY <2>1, <3>2 DEF Follower
    <3>4. Signals(next, s, v)
      BY <1>2, <2>5, <3>3 DEF Signals
    <3>5. QED
      BY <1>2, <1>3, <1>6, <2>1, <2>2, <3>4, FollowsOn
  <2>6. QED
    BY <2>3, <2>4, <2>5
<1>11. QED
  BY <1>8, <1>9, <1>10 DEF ScreenInv, AllFollow

LEMMA TouchFollows ==
    ASSUME IInv, ScreenInv, NEW x \in Sessions, NEW game \in Games, TouchGame(x, game)
    PROVE  ScreenInv'
<1>1. PICK w \in Users : w = UserOf[x]
  BY UsersAssumption
<1>2. PICK next : Goes(x, next) /\ next = [at |-> "title", about |-> w]
  BY <1>1 DEF TouchGame
<1>3. /\ TypeOK /\ x \in Threads /\ task[x].at = "idle" /\ x \in auth
      /\ clientGame' = [clientGame EXCEPT ![w] = game] /\ due' = AsksAnew(x)
      /\ UNCHANGED <<clients, screen, auth, twins, doubtful>>
      /\ due \in [Watchers -> SUBSET Users]
  BY <1>1, IdleIsTask DEF TouchGame, UsageTouchGame, IInv, TypeOK, Threads, Free
<1>4. next.at = "title" /\ next.about = w
  BY <1>2
<1>5. OneForEach(next) /\ TextsTrue(next)' /\ TaskSound(x, next)'
  BY <1>1, <1>4, NoTexts DEF Telling, TaskSound
<1>6. EntriesSound'
  BY <1>2, <1>3, <1>4, <1>5, EntriesStay DEF ScreenInv
<1>7. TextsRight'
  BY <1>2, <1>3, <1>5, TextsStay DEF ScreenInv
<1>8. ASSUME NEW s \in Watchers, NEW v \in Users, Follower(s, v)'
      PROVE  Follows(s, v)'
  <2>1. Follower(s, v) /\ Follows(s, v) /\ UserOf[s] \in Users
    BY <1>3, <1>8, UsersAssumption DEF Follower, Registered, FriendsOf, ScreenInv, AllFollow
  <2>2. ~Signals(task[x], s, v) /\ \A what : ~Brings(task[x], s, v, what)
    BY <1>3 DEF Signals, Brings, OnTheWay
  <2>3. CASE s = x
    <3>1. v \in due'[s]
      BY <1>3, <2>1, <2>3 DEF AsksAnew, Follower
    <3>2. QED
      BY <3>1 DEF Follows, WillAsk
  <2>4. CASE s # x
    <3>1. due'[s] = due[s] /\ Visible(v)' = Visible(v) /\ Registered(v)' = Registered(v)
      BY <1>3, <2>4 DEF AsksAnew, Visible, Registered
    <3>2. CASE v = w
      <4>1. \A what : Brings(next, s, v, what)
        BY <1>4, <3>2 DEF Brings
      <4>2. QED
        BY <1>2, <1>3, <1>4, <2>1, <2>2, <3>1, <4>1, FollowsOn
    <3>3. CASE v # w /\ UserOf[s] # w
      <4>1. Compared(s, v)' => Compared(s, v)
        BY <1>3, <2>1, <3>3 DEF Compared, Visible, Registered, InSameGame, Players, IInv, TypeOK
      <4>2. QED
        BY <1>2, <1>3, <1>4, <2>1, <2>2, <3>1, <4>1, FollowsOn
    <3>4. CASE UserOf[s] = w
      <4>1. s \in auth
        BY <2>1 DEF Follower, Registered, ScreenInv, EntriesSound
      <4>2. w \in twins
        BY <1>1, <1>3, <2>4, <3>4, <4>1 DEF IInv, SessionsSound
      <4>3. ~Compared(s, v)'
        BY <1>3, <3>4, <4>2 DEF Compared
      <4>4. QED
        BY <1>2, <1>3, <1>4, <2>1, <2>2, <3>1, <4>3, FollowsOn
    <3>5. QED
      BY <3>2, <3>3, <3>4
  <2>5. QED
    BY <2>3, <2>4
<1>9. QED
  BY <1>6, <1>7, <1>8 DEF ScreenInv, AllFollow

---------------------------------------------------------------------------
(* Requests                                                                *)

\* A request that changes the entry of w to e tells of every field it changes.
TellsOfChanges(w, e, news) ==
    /\ clients' = IF Registered(w) THEN [clients EXCEPT ![w] = e] ELSE clients
    /\ Registered(w) =>
          /\ e.session = clients[w].session /\ e.hidden = clients[w].hidden
          /\ \A f \in Fields : e.detail[f] = clients[w].detail[f] \/ \E n \in news : n.of = f
    /\ \A n, m \in news : n.of = m.of => n = m
    /\ \A n \in news : n.body # Nothing =>
            n.of \in Fields /\ Registered(w) /\ e.detail[n.of] = n.body

LEMMA PublishFollows ==
    ASSUME IInv, ScreenInv, Free(Http), NEW w \in Users, NEW e, NEW news \in SUBSET News,
           TellsOfChanges(w, e, news),
           Goes(Http, Published(w, Hidden(w), news)),
           doubtful' = IF Carries(w) THEN doubtful \cup {w} ELSE doubtful,
           UNCHANGED <<screen, due, auth, twins, clientGame>>
    PROVE  ScreenInv'
<1>0. /\ clients' = IF Registered(w) THEN [clients EXCEPT ![w] = e] ELSE clients
      /\ Registered(w) =>
            /\ e.session = clients[w].session /\ e.hidden = clients[w].hidden
            /\ \A f \in Fields : e.detail[f] = clients[w].detail[f] \/ \E n \in news : n.of = f
      /\ \A n, m \in news : n.of = m.of => n = m
      /\ \A n \in news : n.body # Nothing =>
              n.of \in Fields /\ Registered(w) /\ e.detail[n.of] = n.body
  BY DEF TellsOfChanges
<1>1. PICK next : /\ Goes(Http, next)
                  /\ next = IF Hidden(w) \/ news = {} THEN Idle
                            ELSE [at |-> "share", about |-> w, news |-> news, only |-> FALSE]
  BY DEF Published
<1>2. /\ TypeOK /\ Http \in Threads /\ task[Http].at = "idle"
  BY IdleIsTask DEF IInv, Free, Threads
<1>3. /\ DOMAIN clients' = DOMAIN clients
      /\ Registered(w) => clients'[w] = e
      /\ \A v : v # w /\ v \in DOMAIN clients => clients'[v] = clients[v]
  BY <1>0 DEF Registered
<1>4. next.at \in {"idle", "share"}
  BY <1>1, IdleIsTask
<1>5. OneForEach(next) /\ TextsTrue(next)' /\ TaskSound(Http, next)'
  <2>1. CASE next = Idle
    BY <2>1, IdleIsTask, NoTexts DEF Telling, TaskSound
  <2>2. CASE next # Idle
    <3>1. next.at = "share" /\ next.about = w /\ next.news = news
      BY <1>1, <2>2
    <3>2. OneForEach(next)
      BY <1>0, <3>1 DEF OneForEach, Texts
    <3>3. \A n \in Texts(next) : clients'[w].detail[n.of] = n.body
      BY <1>0, <1>3, <3>1 DEF Texts
    <3>4. QED
      BY <3>1, <3>2, <3>3 DEF TextsTrue, TaskSound
  <2>3. QED
    BY <2>1, <2>2
<1>6. EntriesSound'
  <2>1. \A u \in DOMAIN clients' : u \in DOMAIN clients /\ clients'[u].session = clients[u].session
    BY <1>0, <1>3 DEF Registered
  <2>2. QED
    BY <1>1, <1>2, <1>4, <1>5, <2>1, EntriesStay DEF ScreenInv
<1>7. TextsRight'
  <2>1. TextsRight
    BY DEF ScreenInv
  <2>2. Carries(w) => w \in doubtful'
    OBVIOUS
  <2>3. \A v : v \in doubtful => v \in doubtful'
    OBVIOUS
  <2>4. QED
    BY <1>1, <1>2, <1>3, <1>5, <2>1, <2>2, <2>3, TextsOfOthers
<1>8. ASSUME NEW s \in Watchers, NEW v \in Users, Follower(s, v)'
      PROVE  Follows(s, v)'
  <2>1. Follower(s, v) /\ Follows(s, v)
    <3>1. UserOf[s] \in DOMAIN clients /\ clients[UserOf[s]].session = s
      BY <1>0, <1>3, <1>8 DEF Follower, Registered
    <3>2. QED
      BY <1>8, <3>1 DEF Follower, Registered, FriendsOf, ScreenInv, AllFollow
  <2>2. ~Signals(task[Http], s, v) /\ \A what : ~Brings(task[Http], s, v, what)
    BY <1>2 DEF Signals, Brings, OnTheWay
  <2>3. /\ Visible(v)' = Visible(v) /\ Registered(v)' = Registered(v)
        /\ v \in doubtful => v \in doubtful'
    BY <1>0, <1>3 DEF Visible, Registered
  <2>4. Compared(s, v)' => Compared(s, v) /\ Visible(v)
    BY <2>3 DEF Compared, InSameGame, Players
  <2>5. ASSUME Compared(s, v)', NEW f \in Fields
        PROVE  \/ Brings(next, s, v, Counts(s, v, f))
               \/ clients'[v].detail[f] = clients[v].detail[f]
    <3>1. CASE v # w
      BY <1>3, <2>4, <2>5, <3>1 DEF Visible, Registered
    <3>2. CASE v = w
      <4>1. Registered(w) /\ ~Hidden(w)
        BY <2>4, <2>5, <3>2 DEF Visible, Hidden
      <4>2. Counts(s, v, f) = {f}
        BY <1>2 DEF Counts, Asked
      <4>3. ASSUME NEW n \in news, n.of = f PROVE Brings(next, s, v, {f})
        BY <1>1, <3>2, <4>1, <4>3 DEF Brings, OnTheWay
      <4>4. CASE \E n \in news : n.of = f
        BY <4>2, <4>3, <4>4
      <4>5. CASE ~\E n \in news : n.of = f
        <5>1. e.detail[f] = clients[w].detail[f]
          BY <1>0, <4>1, <4>5
        <5>2. clients'[w] = e
          BY <1>3, <4>1
        <5>3. QED
          BY <3>2, <5>1, <5>2
      <4>6. QED
        BY <4>4, <4>5
    <3>3. QED
      BY <3>1, <3>2
  <2>6. QED
    BY <1>1, <1>2, <1>4, <2>1, <2>2, <2>3, <2>4, <2>5, FollowsOn
<1>9. QED
  BY <1>6, <1>7, <1>8 DEF ScreenInv, AllFollow

LEMMA WriteFollows ==
    ASSUME IInv, ScreenInv, NEW u \in Users, NEW new \in Bodies, NEW notify \in BOOLEAN,
           HandlePresenceWrite(u, new, notify)
    PROVE  ScreenInv'
<1>1. PICK e : e = Showing(clients[u], new, notify)
  OBVIOUS
<1>2. PICK W \in SUBSET Fields : new \in [W -> Values]
  BY DEF Bodies
<1>3. PICK texts \in BOOLEAN : texts = (Registered(u) /\ clients'[u].notify)
  <2>1. (Registered(u) /\ clients'[u].notify) \in BOOLEAN
    OBVIOUS
  <2>2. QED
    BY <2>1
<1>4. PICK news : news = {[of |-> f, body |-> IF texts THEN new[f] ELSE Nothing] : f \in DOMAIN new}
  OBVIOUS
<1>5. /\ Free(Http)
      /\ clients' = IF Registered(u) THEN [clients EXCEPT ![u] = e] ELSE clients
      /\ Goes(Http, Published(u, Hidden(u), news))
      /\ doubtful' = IF Carries(u) THEN doubtful \cup {u} ELSE doubtful
      /\ UNCHANGED <<screen, due, auth, twins, clientGame>>
  BY <1>1, <1>3, <1>4 DEF HandlePresenceWrite, usage, screens, Registered
<1>6. news \in SUBSET News
  BY <1>2, <1>4 DEF News, Text
<1>7. ASSUME Registered(u)
      PROVE  /\ e.session = clients[u].session /\ e.hidden = clients[u].hidden
             /\ \A f \in Fields : e.detail[f] = IF f \in DOMAIN new THEN new[f]
                                                ELSE clients[u].detail[f]
  <2>1. clients[u] \in Entry
    BY <1>7 DEF IInv, TypeOK, Registered
  <2>2. QED
    BY <1>1, <2>1 DEF Entry, Showing
<1>8. Registered(u) =>
          \A f \in Fields : e.detail[f] = clients[u].detail[f] \/ \E n \in news : n.of = f
  <2>1. ASSUME NEW f \in DOMAIN new PROVE \E n \in news : n.of = f
    <3>1. [of |-> f, body |-> IF texts THEN new[f] ELSE Nothing] \in news
      BY <1>4
    <3>2. QED
      BY <3>1
  <2>2. QED
    BY <1>7, <2>1
<1>9. \A n, m \in news : n.of = m.of => n = m
  BY <1>4
<1>10. \A n \in news : n.body # Nothing =>
          n.of \in Fields /\ Registered(u) /\ e.detail[n.of] = n.body
  <2>1. ASSUME NEW n \in news, n.body # Nothing
        PROVE  texts /\ n.of \in DOMAIN new /\ n.of \in Fields /\ n.body = new[n.of]
    BY <1>2, <1>4, <2>1
  <2>2. QED
    BY <1>3, <1>7, <2>1
<1>11. TellsOfChanges(u, e, news)
  BY <1>5, <1>7, <1>8, <1>9, <1>10 DEF TellsOfChanges
<1>12. QED
  BY <1>5, <1>6, <1>11, PublishFollows

LEMMA DeleteFollows ==
    ASSUME IInv, ScreenInv, NEW u \in Users, NEW f \in Fields, HandlePresenceDelete(u, f)
    PROVE  ScreenInv'
<1>1. PICK e : e = Dropping(clients[u], f)
  OBVIOUS
<1>2. PICK news : news = {NewsOf(f)}
  OBVIOUS
<1>3. /\ Free(Http)
      /\ clients' = IF Registered(u) THEN [clients EXCEPT ![u] = e] ELSE clients
      /\ Goes(Http, Published(u, Hidden(u), news))
      /\ doubtful' = IF Carries(u) THEN doubtful \cup {u} ELSE doubtful
      /\ UNCHANGED <<screen, due, auth, twins, clientGame>>
  BY <1>1, <1>2 DEF HandlePresenceDelete, usage, screens, Registered
<1>4. news \in SUBSET News
  BY <1>2, NewsOfIsNews
<1>5. ASSUME Registered(u)
      PROVE  /\ e.session = clients[u].session /\ e.hidden = clients[u].hidden
             /\ \A x \in Fields : e.detail[x] = IF x = f THEN Nothing ELSE clients[u].detail[x]
  <2>1. clients[u] \in Entry
    BY <1>5 DEF IInv, TypeOK, Registered
  <2>2. QED
    BY <1>1, <2>1 DEF Entry, Detail, Dropping
<1>6. Registered(u) =>
          \A x \in Fields : e.detail[x] = clients[u].detail[x] \/ \E n \in news : n.of = x
  BY <1>2, <1>5 DEF NewsOf
<1>7. /\ \A n, m \in news : n.of = m.of => n = m
      /\ \A n \in news : n.body = Nothing
  BY <1>2 DEF NewsOf
<1>8. \A n \in news : n.body # Nothing =>
          n.of \in Fields /\ Registered(u) /\ e.detail[n.of] = n.body
  BY <1>7
<1>9. TellsOfChanges(u, e, news)
  BY <1>3, <1>5, <1>6, <1>7, <1>8 DEF TellsOfChanges
<1>10. QED
  BY <1>3, <1>4, <1>9, PublishFollows

LEMMA EntryIsThere ==
    ASSUME NEW e \in Entry
    PROVE  e # NoEntry
<1>1. "session" \in DOMAIN e
  BY DEF Entry
<1>2. "session" \notin DOMAIN NoEntry
  BY DEF NoEntry
<1>3. QED
  BY <1>1, <1>2

\* What a request has just read is what there is; for the others nothing changes.
LEMMA AsksFollows ==
    ASSUME IInv, ScreenInv, NEW s0 \in Watchers, NEW V, Asks(s0, V)
    PROVE  ScreenInv'
<1>1. PICK read : read = [v \in V |-> IF Registered(v) THEN clients[v] ELSE NoEntry]
  OBVIOUS
<1>2. PICK next : /\ Goes(Http, next)
                  /\ next = [at |-> "games", about |-> UserOf[s0], for |-> s0, read |-> read]
  BY <1>1 DEF Asks
<1>3. /\ TypeOK /\ Http \in Threads /\ task[Http].at = "idle"
      /\ due' = [due EXCEPT ![s0] = @ \ V] /\ due \in [Watchers -> SUBSET Users]
      /\ UNCHANGED <<clients, screen, auth, twins, clientGame, doubtful>>
  BY IdleIsTask DEF Asks, IInv, TypeOK, Threads, Free, usage
<1>4. /\ next.at = "games" /\ next.about = UserOf[s0] /\ next.for = s0 /\ next.read = read
      /\ DOMAIN read = V
  BY <1>1, <1>2
<1>5. task'[Http] = next
  BY <1>2, <1>3 DEF TypeOK, Goes
<1>6. OneForEach(next) /\ TextsTrue(next)' /\ TaskSound(Http, next)'
  BY <1>4, NoTexts DEF Telling, TaskSound
<1>7. EntriesSound'
  BY <1>2, <1>3, <1>4, <1>6, EntriesStay DEF ScreenInv
<1>8. TextsRight'
  BY <1>2, <1>3, <1>6, TextsStay DEF ScreenInv
<1>9. ASSUME NEW s \in Watchers, NEW v \in Users, Follower(s, v)'
      PROVE  Follows(s, v)'
  <2>1. Follower(s, v) /\ Follows(s, v)
    BY <1>3, <1>9 DEF Follower, Registered, FriendsOf, ScreenInv, AllFollow
  <2>2. ~Signals(task[Http], s, v) /\ ~Signals(next, s, v) /\ \A what : ~Brings(task[Http], s, v, what)
    BY <1>3, <1>4 DEF Signals, Brings, OnTheWay
  <2>3. Visible(v)' = Visible(v) /\ Registered(v)' = Registered(v) /\ Compared(s, v)' = Compared(s, v)
    BY <1>3 DEF Visible, Registered, Compared, InSameGame, Players
  <2>4. CASE s = s0 /\ v \in V
    <3>1. Asked(s, v)' /\ Answer(v)' = IF Registered(v) THEN clients[v] ELSE NoEntry
      BY <1>1, <1>4, <1>5, <2>4 DEF Asked, Answer
    <3>2. Registered(v) => clients[v] # NoEntry
      BY <1>3, EntryIsThere DEF Registered, TypeOK
    <3>3. Visible(v) => ShowsOpenly(s, v)'
      BY <3>1, <3>2 DEF ShowsOpenly, Visible
    <3>4. MayShow(s, v)' => Registered(v)
      BY <3>1 DEF MayShow
    <3>5. Visible(v) => DetailShown(s, v)' = clients[v].detail
      BY <3>1 DEF DetailShown, Visible
    <3>6. \A f \in Fields : Visible(v) => FieldFollows(s, v, f)'
      BY <1>3, <3>5 DEF FieldFollows
    <3>7. QED
      BY <2>3, <3>3, <3>4, <3>6 DEF Follows, Compared
  <2>5. CASE ~(s = s0 /\ v \in V)
    <3>1. v \in due[s] => v \in due'[s]
      BY <1>3, <2>5
    <3>2. CASE WillAsk(s, v)
      BY <1>2, <1>3, <2>2, <3>1, <3>2, StillAsks DEF Follows
    <3>3. CASE ~WillAsk(s, v)
      <4>1. ~Asked(s, v) /\ ~Asked(s, v)'
        BY <1>3, <1>4, <1>5, <2>5 DEF Asked
      <4>2. /\ ShowsOpenly(s, v)' = ShowsOpenly(s, v) /\ MayShow(s, v)' = MayShow(s, v)
            /\ DetailShown(s, v)' = DetailShown(s, v)
            /\ \A f : Counts(s, v, f)' = Counts(s, v, f)
        BY <1>3, <4>1 DEF ShowsOpenly, MayShow, DetailShown, Counts
      <4>3. ASSUME Compared(s, v), NEW f \in Fields PROVE FieldFollows(s, v, f)'
        <5>1. FieldFollows(s, v, f)
          BY <2>1, <3>3, <4>3 DEF Follows
        <5>2. QED
          BY <1>2, <1>3, <2>2, <4>2, <5>1, FieldStill
      <4>4. QED
        BY <1>3, <2>1, <2>3, <3>3, <4>2, <4>3 DEF Follows
    <3>4. QED
      BY <3>2, <3>3
  <2>6. QED
    BY <2>4, <2>5
<1>10. QED
  BY <1>7, <1>8, <1>9 DEF ScreenInv, AllFollow

\* The answer was right when it was read; what has become of it since is on its
\* way.
LEMMA GetPresenceFollows ==
    ASSUME IInv, ScreenInv, GetPresence
    PROVE  ScreenInv'
<1>1. PICK s0, read : s0 = task[Http].for /\ read = task[Http].read
  OBVIOUS
<1>2. PICK next : Goes(Http, next) /\ next = Idle
  BY DEF GetPresence
<1>3. /\ TypeOK /\ Http \in Threads /\ task[Http].at = "games"
      /\ UNCHANGED <<clients, due, auth, twins, clientGame, doubtful>>
      /\ screen \in [Watchers -> [Users -> View]]
  BY DEF GetPresence, IInv, TypeOK, Threads, usage
<1>4. task[Http].about = UserOf[s0]
  BY <1>1, <1>3 DEF ScreenInv, EntriesSound, TaskSound
<1>5. screen' = [screen EXCEPT ![s0] =
          [v \in Users |-> IF v \in DOMAIN read
                           THEN Shown(read[v], InSameGame(UserOf[s0], v)) ELSE @[v]]]
  BY <1>1, <1>4 DEF GetPresence
<1>6. task'[Http] = next /\ next.at = "idle"
  BY <1>2, <1>3, IdleIsTask DEF TypeOK, Goes
<1>7. OneForEach(next) /\ TextsTrue(next)' /\ TaskSound(Http, next)'
  BY <1>6, NoTexts DEF Telling, TaskSound
<1>8. EntriesSound'
  BY <1>2, <1>3, <1>6, <1>7, EntriesStay DEF ScreenInv
<1>9. TextsRight'
  BY <1>2, <1>3, <1>7, TextsStay DEF ScreenInv
<1>10. ASSUME NEW s \in Watchers, NEW v \in Users, Follower(s, v)'
       PROVE  Follows(s, v)'
  <2>1. Follower(s, v) /\ Follows(s, v)
    BY <1>3, <1>10 DEF Follower, Registered, FriendsOf, ScreenInv, AllFollow
  <2>2. ~Signals(task[Http], s, v) /\ \A what : ~Brings(task[Http], s, v, what)
    BY <1>3 DEF Signals, Brings, OnTheWay
  <2>3. Visible(v)' = Visible(v) /\ Registered(v)' = Registered(v) /\ Compared(s, v)' = Compared(s, v)
    BY <1>3 DEF Visible, Registered, Compared, InSameGame, Players
  <2>4. CASE WillAsk(s, v)
    BY <1>2, <1>3, <2>2, <2>4, StillAsks DEF Follows
  <2>5. CASE ~WillAsk(s, v)
    <3>1. ~Asked(s, v)' /\ \A f : Counts(s, v, f)' = {f}
      BY <1>6 DEF Asked, Counts
    <3>2. /\ ShowsOpenly(s, v)' = screen'[s][v].online /\ MayShow(s, v)' = screen'[s][v].online
          /\ DetailShown(s, v)' = screen'[s][v].detail
      BY <3>1 DEF ShowsOpenly, MayShow, DetailShown
    <3>3. /\ Visible(v) => ShowsOpenly(s, v)
          /\ MayShow(s, v) => Registered(v) \/ v \in doubtful
          /\ Compared(s, v) => \A f \in Fields : FieldFollows(s, v, f)
      BY <2>1, <2>5 DEF Follows
    <3>4. CASE Asked(s, v)
      <4>1. s = s0 /\ v \in DOMAIN read /\ Answer(v) = read[v]
        BY <1>1, <3>4 DEF Asked, Answer
      <4>2. screen'[s][v] = Shown(Answer(v), InSameGame(UserOf[s], v))
        BY <1>3, <1>5, <4>1
      <4>7. screen'[s][v].online =
                (Answer(v) # NoEntry /\ (InSameGame(UserOf[s], v) \/ ~Answer(v).hidden))
        BY <4>2 DEF Shown
      <4>3. Visible(v) => screen'[s][v].online
        BY <3>3, <3>4, <4>7 DEF ShowsOpenly
      <4>4. screen'[s][v].online => Registered(v) \/ v \in doubtful
        BY <3>3, <3>4, <4>7 DEF MayShow
      <4>5. ASSUME Compared(s, v), NEW f \in Fields PROVE FieldFollows(s, v, f)'
        <5>1. Answer(v) # NoEntry /\ InSameGame(UserOf[s], v)
          BY <3>3, <3>4, <4>5 DEF ShowsOpenly, Compared
        <5>2. screen'[s][v].detail = DetailShown(s, v)
          BY <3>4, <4>2, <5>1 DEF Shown, DetailShown
        <5>3. Counts(s, v, f) = {}
          BY <3>4 DEF Counts
        <5>4. CASE DetailShown(s, v)[f] = clients[v].detail[f]
          BY <1>3, <3>2, <5>2, <5>4 DEF FieldFollows
        <5>5. ASSUME NEW x \in Threads, Brings(task[x], s, v, {}) PROVE FieldFollows(s, v, f)'
          <6>1. Brings(task[x], s, v, {f})
            BY <5>5 DEF Brings
          <6>2. task'[x] = task[x]
            BY <1>2, <1>3, <2>2, <5>5 DEF TypeOK, Goes
          <6>3. Brings(task'[x], s, v, Counts(s, v, f)')
            BY <3>1, <6>1, <6>2
          <6>4. QED
            BY <6>3 DEF FieldFollows
        <5>6. QED
          BY <3>3, <4>5, <5>3, <5>4, <5>5 DEF FieldFollows
      <4>6. QED
        BY <1>3, <2>3, <3>2, <4>3, <4>4, <4>5 DEF Follows
    <3>5. CASE ~Asked(s, v)
      <4>1. screen'[s][v] = screen[s][v]
        BY <1>1, <1>3, <1>5, <3>5 DEF Asked
      <4>2. /\ ShowsOpenly(s, v)' = ShowsOpenly(s, v) /\ MayShow(s, v)' = MayShow(s, v)
            /\ DetailShown(s, v)' = DetailShown(s, v)
            /\ \A f : Counts(s, v, f)' = Counts(s, v, f)
        BY <3>1, <3>2, <3>5, <4>1 DEF ShowsOpenly, MayShow, DetailShown, Counts
      <4>3. ASSUME Compared(s, v), NEW f \in Fields PROVE FieldFollows(s, v, f)'
        <5>1. FieldFollows(s, v, f)
          BY <3>3, <4>3
        <5>2. QED
          BY <1>2, <1>3, <2>2, <4>2, <5>1, FieldStill
      <4>4. QED
        BY <1>3, <2>3, <3>3, <4>2, <4>3 DEF Follows
    <3>6. QED
      BY <3>4, <3>5
  <2>6. QED
    BY <2>4, <2>5
<1>11. QED
  BY <1>8, <1>9, <1>10 DEF ScreenInv, AllFollow

---------------------------------------------------------------------------
(* Sessions that end                                                       *)

\* What becomes of a handler that has a session less to answer.
LEMMA WithoutLeaves ==
    ASSUME NEW x \in Sessions, NEW k \in Task, NEW next, next = Without(x, k)
    PROVE  \/ next = k /\ ~(k.at = "games" /\ k.for = x)
           \/ next = Idle /\ k.at = "games" /\ k.for = x
           \/ /\ next.at = k.at /\ next.about = k.about /\ next.to = k.to \ {x}
              /\ k.at \in {"count", "greet", "uncount", "farewell", "post"}
              /\ k.at = "post" => next.news = k.news
<1>1. CASE "for" \in DOMAIN k /\ k.for = x
  <2>1. k.at = "games"
    BY <1>1 DEF Task, Idle
  <2>2. QED
    BY <1>1, <2>1 DEF Without
<1>2. CASE ~("for" \in DOMAIN k /\ k.for = x)
           /\ k.at \in {"count", "greet", "uncount", "farewell", "post"}
  <2>1. next = [k EXCEPT !.to = @ \ {x}]
    BY <1>2 DEF Without
  <2>2. {"at", "about", "to"} \subseteq DOMAIN k
    BY <1>2 DEF Task, Idle
  <2>3. k.at = "post" => "news" \in DOMAIN k
    BY DEF Task, Idle
  <2>4. QED
    BY <1>2, <2>1, <2>2, <2>3
<1>3. CASE ~("for" \in DOMAIN k /\ k.for = x)
           /\ k.at \notin {"count", "greet", "uncount", "farewell", "post"}
  <2>1. k.at = "games" => "for" \in DOMAIN k
    BY DEF Task, Idle
  <2>2. QED
    BY <1>3, <2>1 DEF Without
<1>4. QED
  BY <1>1, <1>2, <1>3

\* What has to be shown of a step that ends a session: who was to hear of it
\* hears of it, and an entry that goes unannounced is doubted.
LEMMA GoneFollows ==
    ASSUME IInv, ScreenInv, NEW x \in Sessions, Gone(x),
           task[x].at \in {"farewell", "unregister"},
           DOMAIN clients' \subseteq DOMAIN clients,
           \A v \in DOMAIN clients' : clients'[v] = clients[v] /\ clients[v].session # x,
           \A v \in DOMAIN clients : v \notin DOMAIN clients' => v \in doubtful',
           \A v \in doubtful : v \in doubtful',
           UNCHANGED <<clientGame, twins>>,
           \A s \in Watchers : s # x => screen'[s] = screen[s] /\ due[s] \subseteq due'[s],
           \A s \in Watchers, v \in Users : s # x /\ Signals(task[x], s, v) => v \in due'[s]
    PROVE  ScreenInv'
<1>1. /\ TypeOK /\ task \in [Threads -> Task] /\ x \in Threads /\ Http \in Threads /\ x # Http
      /\ task'[x] = Idle /\ Idle.at = "idle" /\ auth' = auth \ {x}
      /\ \A t \in Threads : t # x => task'[t] = Without(x, task[t])
  BY IdleIsTask, NamesAssumption DEF IInv, TypeOK, Gone, Threads
<1>2. ASSUME NEW t \in Threads, t # x
      PROVE  \/ task'[t] = task[t] /\ ~(task[t].at = "games" /\ task[t].for = x)
             \/ task'[t] = Idle /\ task[t].at = "games" /\ task[t].for = x
             \/ /\ task'[t].at = task[t].at /\ task'[t].about = task[t].about
                /\ task'[t].to = task[t].to \ {x}
                /\ task[t].at \in {"count", "greet", "uncount", "farewell", "post"}
                /\ task[t].at = "post" => task'[t].news = task[t].news
  BY <1>1, <1>2, WithoutLeaves
<1>3. EntriesSound'
  <2>1. ASSUME NEW t \in Threads PROVE TaskSound(t, task[t])'
    <3>1. CASE t = x
      BY <1>1, <3>1 DEF TaskSound
    <3>2. CASE t # x
      BY <1>1, <1>2, <3>2 DEF TaskSound, ScreenInv, EntriesSound
    <3>3. QED
      BY <3>1, <3>2
  <2>2. ASSUME NEW u \in DOMAIN clients'
        PROVE  /\ UserOf[clients'[u].session] = u /\ clients'[u].session \in auth'
               /\ task'[clients'[u].session].at \notin {"register", "uncount", "farewell"}
    <3>1. PICK t \in Threads : t = clients[u].session /\ t # x /\ clients'[u] = clients[u]
                               /\ u \in DOMAIN clients
      BY <1>1 DEF TypeOK, Entry, Threads
    <3>2. UserOf[t] = u /\ t \in auth /\ task[t].at \notin {"register", "uncount", "farewell"}
      BY <3>1 DEF ScreenInv, EntriesSound
    <3>3. task'[t].at \notin {"register", "uncount", "farewell"}
      BY <1>1, <1>2, <3>1, <3>2
    <3>4. QED
      BY <1>1, <3>1, <3>2, <3>3
  <2>3. QED
    BY <2>1, <2>2 DEF EntriesSound
<1>4. TextsRight'
  <2>1. ASSUME NEW t \in Threads PROVE OneForEach(task[t])' /\ TextsTrue(task[t])'
    <3>1. CASE task'[t].at \notin Telling
      BY <3>1 DEF OneForEach, TextsTrue, Texts
    <3>2. CASE task'[t].at \in Telling
      <4>1. t # x
        BY <1>1, <3>2 DEF Telling
      <4>2. /\ task'[t].at = task[t].at /\ task'[t].about = task[t].about
            /\ task'[t].news = task[t].news
        BY <1>1, <1>2, <3>2, <4>1 DEF Telling
      <4>3. OneForEach(task[t]) /\ TextsTrue(task[t])
        BY DEF ScreenInv, TextsRight
      <4>4. Texts(task'[t]) = Texts(task[t])
        BY <4>2 DEF Texts
      <4>5. OneForEach(task'[t])
        BY <4>2, <4>3, <4>4 DEF OneForEach
      <4>6. PICK w : w = task[t].about
        OBVIOUS
      <4>7. ASSUME w \in DOMAIN clients', w \notin doubtful', NEW n \in Texts(task[t])
            PROVE  clients'[w].detail[n.of] = n.body
        BY <4>3, <4>6, <4>7 DEF TextsTrue, Registered
      <4>8. TextsTrue(task[t])'
        BY <4>2, <4>4, <4>6, <4>7 DEF TextsTrue, Registered
      <4>9. QED
        BY <4>5, <4>8
    <3>3. QED
      BY <3>1, <3>2
  <2>2. QED
    BY <2>1 DEF TextsRight
<1>5. ASSUME NEW s \in Watchers, NEW v \in Users, Follower(s, v)'
      PROVE  Follows(s, v)'
  <2>1. Follower(s, v) /\ Follows(s, v) /\ s # x
    <3>1. UserOf[s] \in DOMAIN clients' /\ clients'[UserOf[s]].session = s
      BY <1>5 DEF Follower, Registered
    <3>2. QED
      BY <1>5, <3>1 DEF Follower, Registered, FriendsOf, ScreenInv, AllFollow
  <2>2. screen'[s] = screen[s] /\ due[s] \subseteq due'[s]
    BY <2>1
  <2>3. ASSUME NEW t \in Threads, t # x
        PROVE  /\ Signals(task[t], s, v) => Signals(task'[t], s, v)
               /\ \A what : Brings(task[t], s, v, what) => Brings(task'[t], s, v, what)
    BY <1>2, <2>1, <2>3 DEF Signals, Brings, OnTheWay
  <2>4. CASE WillAsk(s, v)
    <3>1. CASE v \in due[s]
      BY <2>2, <3>1 DEF WillAsk, Follows
    <3>2. ASSUME NEW t \in Threads, Signals(task[t], s, v) PROVE Follows(s, v)'
      <4>1. CASE t = x
        BY <2>1, <3>2, <4>1 DEF WillAsk, Follows
      <4>2. CASE t # x
        <5>1. Signals(task'[t], s, v)
          BY <2>3, <3>2, <4>2
        <5>2. QED
          BY <5>1 DEF WillAsk, Follows
      <4>3. QED
        BY <4>1, <4>2
    <3>3. QED
      BY <2>4, <3>1, <3>2 DEF WillAsk
  <2>5. CASE ~WillAsk(s, v)
    <3>1. /\ Visible(v) => ShowsOpenly(s, v)
          /\ MayShow(s, v) => Registered(v) \/ v \in doubtful
          /\ Compared(s, v) => \A f \in Fields : FieldFollows(s, v, f)
      BY <2>1, <2>5 DEF Follows
    <3>2. Asked(s, v)' = Asked(s, v) /\ (Asked(s, v) => Answer(v)' = Answer(v))
      BY <1>1, <1>2, <2>1 DEF Asked, Answer
    <3>3. /\ ShowsOpenly(s, v)' = ShowsOpenly(s, v) /\ MayShow(s, v)' = MayShow(s, v)
          /\ DetailShown(s, v)' = DetailShown(s, v)
          /\ \A f : Counts(s, v, f)' = Counts(s, v, f)
      BY <2>2, <3>2 DEF ShowsOpenly, MayShow, DetailShown, Counts
    <3>4. /\ Visible(v)' => Visible(v)
          /\ Registered(v) \/ v \in doubtful => Registered(v)' \/ v \in doubtful'
          /\ Compared(s, v)' => Compared(s, v)
      BY DEF Visible, Registered, Compared, InSameGame, Players
    <3>5. ASSUME Compared(s, v)', NEW f \in Fields PROVE FieldFollows(s, v, f)'
      <4>1. clients'[v].detail[f] = clients[v].detail[f]
        BY <3>5 DEF Compared, Visible, Registered
      <4>2. CASE DetailShown(s, v)[f] = clients[v].detail[f]
        BY <3>3, <4>1, <4>2 DEF FieldFollows
      <4>3. ASSUME NEW t \in Threads, Brings(task[t], s, v, Counts(s, v, f))
            PROVE  FieldFollows(s, v, f)'
        <5>1. t # x
          BY <4>3 DEF Brings, OnTheWay
        <5>2. Brings(task'[t], s, v, Counts(s, v, f)')
          BY <2>3, <3>3, <4>3, <5>1
        <5>3. QED
          BY <5>2 DEF FieldFollows
      <4>4. QED
        BY <3>1, <3>4, <3>5, <4>2, <4>3 DEF FieldFollows
    <3>6. QED
      BY <3>1, <3>3, <3>4, <3>5 DEF Follows
  <2>6. QED
    BY <2>4, <2>5
<1>6. QED
  BY <1>3, <1>4, <1>5 DEF ScreenInv, AllFollow

LEMMA FarewellFollows ==
    ASSUME IInv, ScreenInv, NEW x \in Sessions, Farewell(x)
    PROVE  ScreenInv'
<1> DEFINE empty == [v \in Users |-> [online |-> FALSE, detail |-> Blank]]
<1>1. /\ TypeOK /\ task[x].at = "farewell" /\ Gone(x)
      /\ UNCHANGED <<clients, clientGame, twins, doubtful>>
      /\ screen' = [t \in Watchers |-> IF t = x THEN empty ELSE screen[t]]
      /\ due' = [t \in Watchers |-> IF t = x THEN {}
                                    ELSE IF t \in task[x].to THEN due[t] \cup {task[x].about}
                                    ELSE due[t]]
  BY DEF IInv, Farewell, usage
<1>2. \A v \in DOMAIN clients' : clients'[v] = clients[v] /\ clients[v].session # x
  BY <1>1 DEF ScreenInv, EntriesSound
<1>3. \A s \in Watchers : s # x => screen'[s] = screen[s] /\ due[s] \subseteq due'[s]
  BY <1>1
<1>4. \A s \in Watchers, v \in Users : s # x /\ Signals(task[x], s, v) => v \in due'[s]
  BY <1>1 DEF Signals
<1>5. QED
  BY <1>1, <1>2, <1>3, <1>4, GoneFollows

LEMMA UnregisterFollows ==
    ASSUME IInv, ScreenInv, NEW x \in Sessions, Unregister(x)
    PROVE  ScreenInv'
<1> DEFINE empty == [v \in Users |-> [online |-> FALSE, detail |-> Blank]]
<1>1. /\ TypeOK /\ task[x].at = "unregister" /\ Gone(x)
      /\ clients' = [v \in DOMAIN clients \ {UserOf[x]} |-> clients[v]]
      /\ doubtful' = doubtful \cup {UserOf[x]}
      /\ UNCHANGED <<clientGame, twins>>
      /\ screen' = [t \in Watchers |-> IF t = x THEN empty ELSE screen[t]]
      /\ due' = [t \in Watchers |-> IF t = x THEN {} ELSE due[t]]
  BY DEF IInv, Unregister, usage
<1>2. DOMAIN clients' = DOMAIN clients \ {UserOf[x]}
  BY <1>1
<1>3. \A v \in DOMAIN clients' : clients'[v] = clients[v] /\ clients[v].session # x
  BY <1>1 DEF ScreenInv, EntriesSound
<1>4. \A s \in Watchers : s # x => screen'[s] = screen[s] /\ due[s] \subseteq due'[s]
  BY <1>1
<1>5. \A s \in Watchers, v \in Users : ~Signals(task[x], s, v)
  BY <1>1 DEF Signals
<1>6. QED
  BY <1>1, <1>2, <1>3, <1>4, <1>5, GoneFollows

---------------------------------------------------------------------------
(* The screens                                                             *)

LEMMA ScreensInit == Init => ScreenInv
<1> SUFFICES ASSUME Init PROVE ScreenInv
  OBVIOUS
<1>1. DOMAIN clients = {} /\ \A t \in Threads : task[t] = Idle /\ task[t].at = "idle"
  BY IdleIsTask DEF Init
<1>2. EntriesSound
  BY <1>1 DEF EntriesSound, TaskSound
<1>3. TextsRight
  BY <1>1, NoTexts DEF TextsRight, Telling
<1>4. AllFollow
  BY <1>1 DEF AllFollow, Follower, Registered
<1>5. QED
  BY <1>2, <1>3, <1>4 DEF ScreenInv

LEMMA ScreensNext ==
    ASSUME IInv, ScreenInv, [Next]_vars
    PROVE  ScreenInv'
<1>1. CASE UNCHANGED vars
  <2>1. UNCHANGED <<clients, clientGame, auth, task, screen, due, twins, doubtful>>
    BY <1>1 DEF vars, usage, screens
  <2>2. EntriesSound'
    BY <2>1 DEF ScreenInv, EntriesSound, TaskSound
  <2>3. TextsRight'
    BY <2>1 DEF ScreenInv, TextsRight, TextsTrue, Registered
  <2>4. AllFollow'
    BY <2>1 DEF ScreenInv, AllFollow, Follower, Follows, WillAsk, Visible, Registered, ShowsOpenly,
                MayShow, Compared, InSameGame, Players, FieldFollows, DetailShown, Counts, Asked, Answer
  <2>5. QED
    BY <2>2, <2>3, <2>4 DEF ScreenInv
<1>2. ASSUME NEW s \in Sessions, SessionStep(s) PROVE ScreenInv'
  <2>1. CASE \E hidden \in BOOLEAN : CmdLogin(s, hidden) \/ CmdSetAppearOffline(s, hidden)
    BY <2>1, SilentFollows, AppearOfflineFollows
  <2>2. CASE \E g \in Games : TouchGame(s, g)
    BY <2>2, TouchFollows
  <2>3. CASE AnnounceStatus(s) \/ AnnounceDetail(s) \/ Display(s)
    BY <2>3, AnnounceStatusFollows, AnnounceDetailFollows, DisplayFollows
  <2>4. CASE CmdDelete(s)
    BY <2>4, SilentFollows
  <2>5. QED
    BY <1>2, <2>1, <2>2, <2>3, <2>4, RegisterFollows, UsageOnLoginFollows, GreetFollows,
       TitleFollows, PushFollows, CleanupFollows, UsageOnLogoutFollows, FarewellFollows,
       UnregisterFollows
       DEF SessionStep
<1>3. CASE Request
  <2>1. Http \in Threads
    BY DEF Threads
  <2>2. QED
    BY <1>3, <2>1, WriteFollows, DeleteFollows, AsksFollows, GetPresenceFollows, PostFollows
       DEF Request, FriendListSnap, PresenceSnap
<1>4. QED
  BY <1>1, <1>2, <1>3, ShareFollows, AddressFollows DEF Next

\* What the news on its way leaves to be wrong with a screen is kept by every
\* step of every handler.
THEOREM ScreensInvariance == Spec => []ScreenInv
<1>1. IInv /\ ScreenInv /\ [Next]_vars => ScreenInv'
  BY ScreensNext
<1>2. QED
  BY <1>1, ScreensInit, Invariance, PTL DEF Spec

\* However entries, games, details and Appear-Offline change, and in whatever
\* order the news of it is read, sent and asked about, a client that has asked
\* shows its friends as they are once no handler is at work.
THEOREM ScreensAlwaysFollow == Spec => []ScreensFollow
<1>1. IInv /\ ScreenInv => ScreensFollow
  <2> SUFFICES ASSUME IInv, ScreenInv, Settled, NEW s \in Watchers \cap auth, NEW v \in Users,
                      Registered(UserOf[s]), clients[UserOf[s]].session = s,
                      v \in FriendsOf(UserOf[s]) \ due[s]
               PROVE  /\ Visible(v) => screen[s][v].online
                      /\ /\ Visible(v) /\ InSameGame(UserOf[s], v)
                         /\ v \notin doubtful /\ UserOf[s] \notin twins
                         => screen[s][v].detail = clients[v].detail
                      /\ screen[s][v].online => Registered(v) \/ v \in doubtful
    BY DEF ScreensFollow
  <2>1. \A t \in Threads : task[t].at = "idle"
    BY IdleIsTask DEF Settled
  <2>2. ~WillAsk(s, v)
    BY <2>1 DEF WillAsk, Signals
  <2>3. ~Asked(s, v)
    BY <2>1 DEF Asked, Threads
  <2>4. Follows(s, v)
    BY DEF ScreenInv, AllFollow, Follower
  <2>5. /\ Visible(v) => screen[s][v].online
        /\ screen[s][v].online => Registered(v) \/ v \in doubtful
        /\ Compared(s, v) => \A f \in Fields : FieldFollows(s, v, f)
    BY <2>2, <2>3, <2>4 DEF Follows, ShowsOpenly, MayShow
  <2>6. ASSUME Compared(s, v) PROVE screen[s][v].detail = clients[v].detail
    <3>1. \A f \in Fields : screen[s][v].detail[f] = clients[v].detail[f]
      BY <2>1, <2>3, <2>5, <2>6 DEF FieldFollows, Brings, OnTheWay, DetailShown
    <3>2. screen[s][v].detail \in [Fields -> Text] /\ clients[v].detail \in [Fields -> Text]
      BY <2>6 DEF IInv, TypeOK, View, Entry, Detail, Compared, Visible, Registered
    <3>3. QED
      BY <3>1, <3>2
  <2>7. QED
    BY <2>5, <2>6 DEF Compared
<1>2. QED
  BY <1>1, Invariance, ScreensInvariance, PTL
================================================================================
