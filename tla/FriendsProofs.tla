----------------------------- MODULE FriendsProofs -----------------------------
(***************************************************************************)
(* Theorems about Friends, for any users, sessions and number of handlers  *)
(* under way: types, entries of connected sessions, blocks that end        *)
(* friendships, the count of those online, the cached friends, and what    *)
(* clients show.                                                           *)
(***************************************************************************)
EXTENDS Friends, FiniteSetTheorems, TLAPS

\* A row read leaves no friendship beside a block, and no request to add one.
SoundRow(command, row) ==
    "Blocked" \in row.mine \cup row.theirs =>
        "Friend" \notin row.mine \cup row.theirs /\ command # "add"

\* What a handler holds between its steps.
TasksSound ==
    \A s \in Sessions :
        /\ task[s].at # "idle" => LoggedIn(s)
        /\ task[s].at = "write" => SoundRow(task[s].command, task[s].read)
        /\ task[s].at = "farewell" => \A u \in DOMAIN clients : clients[u].session # s
        /\ task[s].at \in {"announce", "farewell"} =>
              \A t \in Sessions : t \in task[s].to => LoggedIn(t)

\* The inductive invariant.
IInv == TypeOK /\ BlockEndsFriendship /\ EntryIsConnected /\ TasksSound

---------------------------------------------------------------------------
(* The records a handler keeps                                             *)

\* What a task holds, by where its handler is.
LEMMA TaskHolds ==
    ASSUME NEW t \in Task
    PROVE  /\ t.at = "idle" => t = Idle
           /\ t.at \in {"relations", "flags", "register"} => t.hidden \in BOOLEAN
           /\ t.at \in {"flags", "register"} => t.friends \in SUBSET Users
           /\ t.at = "register" => t.online \in SUBSET Users
           /\ t.at \in {"announce", "farewell"} => t.to \in SUBSET Sessions
           /\ t.at \in {"write", "caches", "notify"} => t.command \in Commands /\ t.other \in Users
           /\ t.at = "write" => t.read \in Row
BY DEF Task, Idle

\* Forgetting a receiver keeps a task a task, at the same place.
LEMMA FewerReceivers ==
    ASSUME NEW t \in Task, NEW s \in Sessions, "to" \in DOMAIN t
    PROVE  LET new == [t EXCEPT !.to = @ \ {s}]
           IN  new \in Task /\ new.at = t.at /\ t.at \in {"announce", "farewell"}
BY DEF Task, Idle, Row, Flags, Commands

\* The row a command writes is a row, without a friendship beside a block.
LEMMA NewRowSound ==
    ASSUME NEW command \in Commands, NEW row \in Row, SoundRow(command, row)
    PROVE  LET new == NewRow(command, row)
           IN  /\ new \in Row
               /\ "Blocked" \in new.mine \cup new.theirs => "Friend" \notin new.mine \cup new.theirs
<1>1. CASE command = "add"
  BY <1>1 DEF NewRow, Add, Row, SoundRow, Flags
<1>2. CASE command = "remove"
  BY <1>2 DEF NewRow, Remove, Row, SoundRow, Flags
<1>3. CASE command = "block"
  BY <1>3 DEF NewRow, Block, Row, SoundRow, Flags
<1>4. CASE command = "unblock"
  BY <1>4 DEF NewRow, Unblock, Row, SoundRow, Flags
<1>5. QED
  BY <1>1, <1>2, <1>3, <1>4 DEF Commands

\* A doubt is about two users.
LEMMA DoubtsType ==
    ASSUME doubtful \subseteq SUBSET Users, NEW u \in Users, NEW W \in SUBSET Users, Doubts(u, W)
    PROVE  doubtful' \subseteq SUBSET Users
<1>1. \A w \in W : Couple(u, w) \in SUBSET Users
  BY DEF Couple
<1>2. QED
  BY <1>1 DEF Doubts

---------------------------------------------------------------------------
(* The invariant is inductive                                              *)

LEMMA InitHolds == Init => IInv
<1> SUFFICES ASSUME Init PROVE IInv
  OBVIOUS
<1>1. DOMAIN clients = {}
  BY DEF Init
<1>2. Idle \in Task /\ Idle.at = "idle"
  BY DEF Task, Idle
<1>3. TypeOK
  BY <1>1, <1>2 DEF Init, TypeOK, News
<1>4. BlockEndsFriendship
  BY DEF Init, BlockEndsFriendship, Pairs
<1>5. EntryIsConnected /\ TasksSound
  BY <1>1, <1>2 DEF Init, EntryIsConnected, TasksSound
<1>6. QED
  BY <1>3, <1>4, <1>5 DEF IInv

\* A step that only moves the handler of a session that is logged in on.
LEMMA HandlerMoves ==
    ASSUME IInv, NEW s \in Sessions, NEW next \in Task, LoggedIn(s)', Goes(s, next),
           auth' \in [Sessions -> Users \cup {NoUser, Closed}],
           \A t \in Sessions : LoggedIn(t) => auth'[t] = auth[t],
           next.at = "write" => SoundRow(next.command, next.read),
           next.at \notin {"announce", "farewell"},
           UNCHANGED <<tables, clients, usage, screens, history>>
    PROVE  IInv'
<1>1. TypeOK'
  BY DEF IInv, TypeOK, Goes, tables, screens, history
<1>2. BlockEndsFriendship'
  BY DEF IInv, BlockEndsFriendship, tables
<1>3. EntryIsConnected'
  BY DEF IInv, EntryIsConnected, TypeOK, LoggedIn, Entry
<1>4. TasksSound'
  BY DEF IInv, TypeOK, TasksSound, Goes, LoggedIn
<1>5. QED
  BY <1>1, <1>2, <1>3, <1>4 DEF IInv

LEMMA LoginKeeps ==
    ASSUME IInv, NEW s \in Sessions, NEW u \in Users, NEW hidden \in BOOLEAN,
           CmdLogin(s, u, hidden)
    PROVE  IInv'
<1> DEFINE next == [at |-> "relations", hidden |-> hidden]
<1>1. next \in Task
  BY DEF Task
<1>2. /\ auth' \in [Sessions -> Users \cup {NoUser, Closed}]
      /\ \A t \in Sessions : LoggedIn(t) => auth'[t] = auth[t]
      /\ LoggedIn(s)'
  BY UsersAssumption DEF CmdLogin, LoggedIn, IInv, TypeOK
<1>3. Goes(s, next) /\ UNCHANGED <<tables, clients, usage, screens, history>>
  BY DEF CmdLogin
<1>4. QED
  BY <1>1, <1>2, <1>3, HandlerMoves

LEMMA LookUpsKeep ==
    ASSUME IInv, NEW s \in Sessions, GetRelationships(s) \/ LookUpFriends(s)
    PROVE  IInv'
<1>1. /\ LoggedIn(s) /\ task[s] \in Task /\ UNCHANGED <<auth, tables, clients, usage, screens, history>>
      /\ auth' \in [Sessions -> Users \cup {NoUser, Closed}]
  BY DEF IInv, TypeOK, TasksSound, GetRelationships, LookUpFriends
<1>2. CASE GetRelationships(s)
  <2>1. PICK friends \in SUBSET FriendsOf(auth[s]) :
            Goes(s, [at |-> "flags", hidden |-> task[s].hidden, friends |-> friends])
    BY <1>2 DEF GetRelationships
  <2> DEFINE next == [at |-> "flags", hidden |-> task[s].hidden, friends |-> friends]
  <2>2. next \in Task
    BY <1>1, <1>2, TaskHolds DEF GetRelationships, FriendsOf, Task
  <2>3. QED
    BY <1>1, <2>1, <2>2, HandlerMoves DEF LoggedIn
<1>3. CASE LookUpFriends(s)
  <2> DEFINE next == [at |-> "register", hidden |-> task[s].hidden, friends |-> task[s].friends,
                      online |-> {v \in task[s].friends : Visible(v)}]
  <2>1. next \in Task
    BY <1>1, <1>3, TaskHolds DEF LookUpFriends, Task
  <2>2. QED
    BY <1>1, <1>3, <2>1, HandlerMoves DEF LookUpFriends, LoggedIn
<1>4. QED
  BY <1>2, <1>3

LEMMA ReadsKeep ==
    ASSUME IInv, NEW s \in Sessions, NEW v \in Users, NEW command \in Commands,
           NEW row \in {RowOf(auth[s], v), NoFlags}, Reads(s, command, v, row),
           command = "add" => "Blocked" \notin row.mine \cup row.theirs
    PROVE  IInv'
<1> DEFINE u == auth[s]
           next == [at |-> "write", command |-> command, other |-> v, read |-> row]
<1>1. /\ LoggedIn(s) /\ u \in Users /\ u # v /\ UNCHANGED <<auth, tables, clients, usage, screens, history>>
      /\ auth' \in [Sessions -> Users \cup {NoUser, Closed}]
  BY DEF IInv, TypeOK, Reads, LoggedIn
<1>2. <<u, v>> \in Pairs /\ <<v, u>> \in Pairs
  BY <1>1 DEF Pairs
<1>3. row \in Row
  <2>1. RowOf(u, v) \in Row
    BY <1>2 DEF RowOf, Row, IInv, TypeOK
  <2>2. NoFlags \in Row
    BY DEF NoFlags, Row
  <2>3. QED
    BY <2>1, <2>2
<1>4. SoundRow(command, row)
  <2>1. CASE row = RowOf(u, v)
    BY <1>2, <2>1 DEF SoundRow, RowOf, IInv, BlockEndsFriendship
  <2>2. CASE row = NoFlags
    BY <2>2 DEF SoundRow, NoFlags
  <2>3. QED
    BY <2>1, <2>2
<1>5. next \in Task
  BY <1>3, <1>1 DEF Task
<1>6. QED
  BY <1>1, <1>4, <1>5, HandlerMoves DEF Reads, LoggedIn

\* Every command begins by reading a row, or by finding it empty.
ReadsRow(s) == \E v \in Users, command \in Commands : \E row : Reads(s, command, v, row)

LEMMA CommandsRead ==
    ASSUME NEW s \in Sessions, NEW v \in Users,
           \/ CmdAddFriend(s, v) \/ CmdRemoveFriend(s, v)
           \/ CmdAddBlock(s, v) \/ CmdRemoveBlock(s, v)
    PROVE  ReadsRow(s)
BY DEF ReadsRow, CmdAddFriend, CmdRemoveFriend, CmdAddBlock, CmdRemoveBlock, Commands

LEMMA CommandsKeep ==
    ASSUME IInv, NEW s \in Sessions, NEW v \in Users,
           \/ CmdAddFriend(s, v) \/ CmdRemoveFriend(s, v)
           \/ CmdAddBlock(s, v) \/ CmdRemoveBlock(s, v)
    PROVE  IInv'
<1>1. CASE CmdAddFriend(s, v)
  BY <1>1, ReadsKeep DEF CmdAddFriend, Commands
<1>2. CASE CmdRemoveFriend(s, v)
  BY <1>2, ReadsKeep DEF CmdRemoveFriend, Commands
<1>3. CASE CmdAddBlock(s, v)
  <2>1. PICK row \in {RowOf(auth[s], v), NoFlags} : Reads(s, "block", v, row)
    BY <1>3 DEF CmdAddBlock
  <2>2. QED
    BY <2>1, ReadsKeep DEF Commands
<1>4. CASE CmdRemoveBlock(s, v)
  BY <1>4, ReadsKeep DEF CmdRemoveBlock, Commands
<1>5. QED
  BY <1>1, <1>2, <1>3, <1>4

LEMMA SetRelStatusKeeps ==
    ASSUME IInv, NEW s \in Sessions, SetRelStatus(s)
    PROVE  IInv'
<1> DEFINE u == auth[s]
           t == task[s]
           v == t.other
           new == NewRow(t.command, t.read)
<1>1. /\ t \in Task /\ t.at = "write" /\ u \in Users /\ v \in Users
      /\ t.command \in Commands /\ t.read \in Row
      /\ SoundRow(t.command, t.read)
      /\ UNCHANGED <<accounts, clients, usage, auth, screens, deletions>>
  BY TaskHolds DEF IInv, TypeOK, TasksSound, LoggedIn, SetRelStatus
<1>2. /\ new \in Row
      /\ "Blocked" \in new.mine \cup new.theirs => "Friend" \notin new.mine \cup new.theirs
  BY <1>1, NewRowSound
<1>3. PICK next \in Task :
          Goes(s, next) /\ (next.at = "caches" \/ next.at = "idle")
  <2> DEFINE caches == [at |-> "caches", command |-> t.command, other |-> v]
  <2>1. caches \in Task /\ caches.at = "caches" /\ Idle \in Task /\ Idle.at = "idle"
    BY <1>1 DEF Task, Idle
  <2>2. QED
    BY <2>1 DEF SetRelStatus
<1>4. /\ rel' \in [Pairs -> SUBSET Flags]
      /\ \A p \in Pairs :
            \/ rel'[p] = rel[p] /\ rel'[<<p[2], p[1]>>] = rel[<<p[2], p[1]>>]
            \/ rel'[p] = new.mine /\ rel'[<<p[2], p[1]>>] = new.theirs
            \/ rel'[p] = new.theirs /\ rel'[<<p[2], p[1]>>] = new.mine
  <2>1. new.mine \in SUBSET Flags /\ new.theirs \in SUBSET Flags /\ rel \in [Pairs -> SUBSET Flags]
    BY <1>2 DEF Row, IInv, TypeOK
  <2>2. CASE UNCHANGED rel
    BY <2>1, <2>2
  <2>3. CASE rel' = [rel EXCEPT ![<<u, v>>] = new.mine, ![<<v, u>>] = new.theirs]
    <3>1. CASE u = v
      <4>1. <<u, v>> \notin Pairs /\ <<v, u>> \notin Pairs
        BY <3>1 DEF Pairs
      <4>2. UNCHANGED rel
        BY <4>1, <2>1, <2>3
      <4>3. QED
        BY <2>1, <4>2
    <3>2. CASE u # v
      <4>1. <<u, v>> \in Pairs /\ <<v, u>> \in Pairs /\ <<u, v>> # <<v, u>>
        BY <1>1, <3>2 DEF Pairs
      <4>2. /\ rel'[<<u, v>>] = new.mine /\ rel'[<<v, u>>] = new.theirs
            /\ \A p \in Pairs \ {<<u, v>>, <<v, u>>} : rel'[p] = rel[p]
            /\ rel' \in [Pairs -> SUBSET Flags]
        BY <2>1, <2>3, <4>1
      <4>3. QED
        BY <4>2 DEF Pairs
    <3>3. QED
      BY <3>1, <3>2
  <2>4. QED
    BY <2>2, <2>3 DEF SetRelStatus
<1>5. doubtful' \subseteq SUBSET Users
  <2>1. PICK W \in SUBSET Users : Doubts(u, W) \/ UNCHANGED doubtful
    BY <1>1 DEF SetRelStatus
  <2>2. QED
    BY <1>1, <2>1, DoubtsType DEF IInv, TypeOK
<1>6. TypeOK'
  BY <1>1, <1>3, <1>4, <1>5 DEF IInv, TypeOK, Goes, screens
<1>7. BlockEndsFriendship'
  BY <1>2, <1>4 DEF IInv, BlockEndsFriendship
<1>8. EntryIsConnected' /\ TasksSound'
  BY <1>1, <1>3 DEF IInv, TypeOK, EntryIsConnected, TasksSound, Goes, LoggedIn
<1>9. QED
  BY <1>6, <1>7, <1>8 DEF IInv

LEMMA RegisterKeeps ==
    ASSUME IInv, NEW s \in Sessions, Register(s)
    PROVE  IInv'
<1> DEFINE u == auth[s]
           t == task[s]
           next == [at |-> "announce", to |-> IF t.hidden THEN {} ELSE FriendSessions(u, t.friends)]
<1>1. /\ t \in Task /\ t.at = "register" /\ u \in Users
      /\ t.hidden \in BOOLEAN /\ t.friends \in SUBSET Users /\ t.online \in SUBSET Users
      /\ UNCHANGED <<tables, usage, auth, pending, deletions>>
      /\ clients' = WithEntry(s, u, t) /\ shown' = [shown EXCEPT ![s] = t.online] /\ Goes(s, next)
  BY TaskHolds DEF IInv, TypeOK, TasksSound, LoggedIn, Register
<1>A. \A x \in FriendSessions(u, t.friends) : x \in Sessions /\ LoggedIn(x)
  BY DEF FriendSessions, IInv, TypeOK, Entry, EntryIsConnected, LoggedIn
<1>2. /\ DOMAIN clients' = DOMAIN clients \cup {u}
      /\ \A w \in DOMAIN clients' :
            /\ clients'[w] \in Entry
            /\ clients'[w].session = IF w = u THEN s ELSE clients[w].session
  BY <1>1 DEF WithEntry, IInv, TypeOK, Entry
<1>3. next \in Task
  BY <1>A DEF Task
<1>4. doubtful' \subseteq SUBSET Users
  BY <1>1 DEF IInv, TypeOK, Register, Doubts, Couple
<1>5. TypeOK'
  BY <1>1, <1>2, <1>3, <1>4 DEF IInv, TypeOK, Goes, tables
<1>6. BlockEndsFriendship'
  BY <1>1 DEF IInv, BlockEndsFriendship, tables
<1>7. EntryIsConnected'
  BY <1>1, <1>2 DEF IInv, EntryIsConnected
<1>8. TasksSound'
  BY <1>A, <1>1, <1>2, <1>3 DEF IInv, TypeOK, TasksSound, Goes, LoggedIn
<1>9. QED
  BY <1>5, <1>6, <1>7, <1>8 DEF IInv

LEMMA AnnounceKeeps ==
    ASSUME IInv, NEW s \in Sessions, Announce(s)
    PROVE  IInv'
<1> DEFINE u == auth[s]
           to == task[s].to
<1>1. /\ task[s] \in Task /\ task[s].at = "announce" /\ u \in Users /\ to \in SUBSET Sessions
      /\ UNCHANGED <<tables, clients, auth, shown, deletions>>
      /\ usage' = usage + 1 /\ pending' = QueuedTo(to, u, "online") /\ Goes(s, Idle)
  BY TaskHolds DEF IInv, TypeOK, TasksSound, LoggedIn, Announce
<1>2. Idle \in Task /\ Idle.at = "idle"
  BY DEF Task, Idle
<1>3. pending' \in [Sessions -> [Users -> News]]
  BY <1>1 DEF QueuedTo, News, IInv, TypeOK
<1>4. doubtful' \subseteq SUBSET Users
  <2> DEFINE W == {auth[t] : t \in {x \in to : ~Visible(u) \/ ~Mutual(u, auth[x])}}
  <2>1. W \subseteq Users
    BY <1>1 DEF IInv, TasksSound, LoggedIn
  <2>2. QED
    BY <1>1, <2>1 DEF IInv, TypeOK, Announce, Doubts, Couple
<1>5. TypeOK'
  BY <1>1, <1>2, <1>3, <1>4 DEF IInv, TypeOK, Goes, tables
<1>6. BlockEndsFriendship' /\ EntryIsConnected'
  BY <1>1 DEF IInv, BlockEndsFriendship, EntryIsConnected, tables
<1>7. TasksSound'
  BY <1>1, <1>2 DEF IInv, TypeOK, TasksSound, Goes, LoggedIn
<1>8. QED
  BY <1>5, <1>6, <1>7 DEF IInv

LEMMA UpdateCachesKeeps ==
    ASSUME IInv, NEW s \in Sessions, UpdateCaches(s)
    PROVE  IInv'
<1> DEFINE u == auth[s]
           v == task[s].other
           command == task[s].command
           next == [at |-> "notify", command |-> command, other |-> v, online |-> Registered(v)]
<1>1. /\ task[s] \in Task /\ task[s].at = "caches" /\ u \in Users /\ v \in Users /\ command \in Commands
      /\ UNCHANGED <<tables, usage, auth, screens, deletions>>
      /\ clients' = IF command = "add" THEN Befriend(u, v) ELSE Unfriend(u, v)
      /\ Goes(s, next)
  BY TaskHolds DEF IInv, TypeOK, TasksSound, LoggedIn, UpdateCaches
<1>2. /\ DOMAIN clients' = DOMAIN clients
      /\ \A w \in DOMAIN clients : clients'[w] \in Entry /\ clients'[w].session = clients[w].session
  <2>1. \A w \in DOMAIN clients : clients[w] \in Entry
    BY DEF IInv, TypeOK
  <2>2. CASE clients' = Befriend(u, v)
    BY <1>1, <2>1, <2>2 DEF Befriend, Entry
  <2>3. CASE clients' = Unfriend(u, v)
    BY <1>1, <2>1, <2>3 DEF Unfriend, Entry
  <2>4. QED
    BY <1>1, <2>2, <2>3
<1>3. next \in Task
  BY <1>1 DEF Task, Registered
<1>4. doubtful' \subseteq SUBSET Users
  <2>1. PICK W \in SUBSET Users : Doubts(u, W)
    BY <1>1 DEF UpdateCaches
  <2>2. QED
    BY <1>1, <2>1, DoubtsType DEF IInv, TypeOK
<1>5. TypeOK'
  BY <1>1, <1>2, <1>3, <1>4 DEF IInv, TypeOK, Goes, tables, screens
<1>6. BlockEndsFriendship' /\ EntryIsConnected'
  BY <1>1, <1>2 DEF IInv, BlockEndsFriendship, EntryIsConnected, tables
<1>7. TasksSound'
  <2>1. /\ task'[s].at = "notify" /\ auth' = auth
        /\ \A t \in Sessions \ {s} : task'[t] = task[t]
    BY <1>1 DEF IInv, TypeOK, Goes
  <2>2. \A w \in DOMAIN clients' : w \in DOMAIN clients /\ clients'[w].session = clients[w].session
    BY <1>2
  <2>3. LoggedIn(s)
    BY <1>1 DEF LoggedIn
  <2>4. QED
    BY <2>1, <2>2, <2>3 DEF IInv, TasksSound, LoggedIn
<1>8. QED
  BY <1>5, <1>6, <1>7 DEF IInv

LEMMA NotifyKeeps ==
    ASSUME IInv, NEW s \in Sessions, Notify(s)
    PROVE  IInv'
<1> DEFINE u == auth[s]
           v == task[s].other
<1>1. /\ task[s] \in Task /\ task[s].at = "notify" /\ u \in Users /\ v \in Users
      /\ UNCHANGED <<tables, clients, usage, auth, deletions>> /\ Goes(s, Idle)
  BY TaskHolds DEF IInv, TypeOK, TasksSound, LoggedIn, Notify
<1>2. Idle \in Task /\ Idle.at = "idle"
  BY DEF Task, Idle
<1>3. shown' \in [Sessions -> SUBSET Users]
  BY <1>1 DEF Notify, IInv, TypeOK
<1>4. pending' \in [Sessions -> [Users -> News]]
  <2>1. pending \in [Sessions -> [Users -> News]]
    BY DEF IInv, TypeOK
  <2>2. ASSUME NEW t \in Sessions, NEW news \in News PROVE Queued(t, u, news) \in [Sessions -> [Users -> News]]
    BY <1>1, <2>1 DEF Queued
  <2>3. PICK news \in News : pending' = IF Registered(v) THEN Queued(clients[v].session, u, news) ELSE pending
    BY DEF Notify, News
  <2>4. Registered(v) => clients[v].session \in Sessions
    BY DEF Registered, IInv, TypeOK, Entry
  <2>5. QED
    BY <2>1, <2>2, <2>3, <2>4
<1>5. doubtful' \subseteq SUBSET Users
  <2>1. PICK W \in SUBSET Users : Doubts(u, W)
    BY <1>1 DEF Notify
  <2>2. QED
    BY <1>1, <2>1, DoubtsType DEF IInv, TypeOK
<1>6. TypeOK'
  BY <1>1, <1>2, <1>3, <1>4, <1>5 DEF IInv, TypeOK, Goes, tables
<1>7. BlockEndsFriendship' /\ EntryIsConnected'
  BY <1>1 DEF IInv, BlockEndsFriendship, EntryIsConnected, tables
<1>8. TasksSound'
  BY <1>1, <1>2 DEF IInv, TypeOK, TasksSound, Goes, LoggedIn
<1>9. QED
  BY <1>6, <1>7, <1>8 DEF IInv

LEMMA DeliverKeeps ==
    ASSUME IInv, NEW s \in Sessions, Deliver(s)
    PROVE  IInv'
<1>1. UNCHANGED <<accounts, rel, clients, usage, auth, task, deletions, doubtful>>
  BY DEF Deliver, tables, history
<1>2. shown' \in [Sessions -> SUBSET Users] /\ pending' \in [Sessions -> [Users -> News]]
  BY DEF Deliver, News, IInv, TypeOK
<1>3. TypeOK'
  BY <1>1, <1>2 DEF IInv, TypeOK
<1>4. BlockEndsFriendship' /\ EntryIsConnected' /\ TasksSound'
  BY <1>1 DEF IInv, BlockEndsFriendship, EntryIsConnected, TasksSound, LoggedIn
<1>5. QED
  BY <1>3, <1>4 DEF IInv

LEMMA CleanupKeeps ==
    ASSUME IInv, NEW s \in Sessions, CleanupOnDisconnect(s)
    PROVE  IInv'
<1> DEFINE u == auth[s]
           next == [at |-> "farewell",
                    to |-> IF Visible(u) THEN FriendSessions(u, clients[u].friends) ELSE {}]
<1>1. /\ u \in Users /\ UNCHANGED <<tables, usage, auth, screens, history>> /\ Goes(s, next)
      /\ clients' = [w \in DOMAIN clients \ {u} |-> clients[w]]
  BY DEF CleanupOnDisconnect, LoggedIn
<1>2. \A x \in next.to : x \in Sessions /\ LoggedIn(x)
  BY DEF FriendSessions, IInv, TypeOK, Entry, EntryIsConnected, LoggedIn
<1>3. next \in Task
  BY <1>2 DEF Task
<1>4. \A w \in DOMAIN clients' : w \in DOMAIN clients /\ w # u /\ clients'[w] = clients[w]
  BY <1>1
<1>5. TypeOK'
  BY <1>1, <1>3, <1>4 DEF IInv, TypeOK, Goes, tables, screens, history
<1>6. BlockEndsFriendship' /\ EntryIsConnected'
  BY <1>1, <1>4 DEF IInv, BlockEndsFriendship, EntryIsConnected, tables
<1>7. \A w \in DOMAIN clients' : clients'[w].session # s
  BY <1>4 DEF IInv, EntryIsConnected
<1>8. TasksSound'
  BY <1>1, <1>2, <1>3, <1>4, <1>7 DEF IInv, TypeOK, TasksSound, Goes, LoggedIn
<1>9. QED
  BY <1>5, <1>6, <1>8 DEF IInv

\* What is left when a session object is gone.
LEMMA GoneLeaves ==
    ASSUME IInv, NEW s \in Sessions, Gone(s)
    PROVE  /\ task' \in [Sessions -> Task] /\ shown' \in [Sessions -> SUBSET Users]
           /\ auth' \in [Sessions -> Users \cup {NoUser, Closed}]
           /\ task'[s] = Idle /\ auth'[s] = Closed
           /\ \A t \in Sessions \ {s} :
                /\ task'[t].at = task[t].at /\ auth'[t] = auth[t]
                /\ task[t].at \notin {"announce", "farewell"} => task'[t] = task[t]
                /\ task[t].at \in {"announce", "farewell"} => task'[t].to = task[t].to \ {s}
<1>1. Idle \in Task /\ task \in [Sessions -> Task]
  BY DEF Task, IInv, TypeOK
<1>2. \A t \in Sessions : task[t].at \in {"announce", "farewell"} => "to" \in DOMAIN task[t]
  BY <1>1 DEF Task, Idle
<1>3. ASSUME NEW t \in Sessions \ {s}
      PROVE  /\ task'[t] \in Task /\ task'[t].at = task[t].at
             /\ task[t].at \notin {"announce", "farewell"} => task'[t] = task[t]
             /\ task[t].at \in {"announce", "farewell"} => task'[t].to = task[t].to \ {s}
  <2>1. CASE "to" \in DOMAIN task[t]
    <3>1. task'[t] = [task[t] EXCEPT !.to = @ \ {s}]
      BY <2>1 DEF Gone
    <3>2. QED
      BY <1>1, <2>1, <3>1, FewerReceivers
  <2>2. CASE "to" \notin DOMAIN task[t]
    BY <1>1, <1>2, <2>2 DEF Gone
  <2>3. QED
    BY <2>1, <2>2
<1>4. task'[s] = Idle /\ task' \in [Sessions -> Task]
  <2>1. task' = [t \in Sessions |-> task'[t]] /\ task'[s] = Idle
    BY DEF Gone
  <2>2. QED
    BY <1>1, <1>3, <2>1
<1>5. /\ auth' \in [Sessions -> Users \cup {NoUser, Closed}] /\ auth'[s] = Closed
      /\ \A t \in Sessions \ {s} : auth'[t] = auth[t]
      /\ shown' \in [Sessions -> SUBSET Users]
  BY DEF Gone, IInv, TypeOK
<1>6. QED
  BY <1>3, <1>4, <1>5

\* A session without entry may go.
LEMMA GoneKeeps ==
    ASSUME IInv, NEW s \in Sessions, Gone(s),
           DOMAIN clients' \subseteq DOMAIN clients,
           \A w \in DOMAIN clients' : clients'[w] = clients[w] /\ clients[w].session # s
    PROVE  EntryIsConnected' /\ TasksSound'
<1>1. EntryIsConnected'
  BY GoneLeaves DEF IInv, EntryIsConnected, TypeOK, Entry
<1>2. TasksSound'
  <2>1. Idle.at = "idle" /\ NoUser \notin Users /\ Closed \notin Users
    BY UsersAssumption DEF Idle
  <2>2. ASSUME NEW t \in Sessions, t # s
        PROVE  /\ task'[t].at # "idle" => LoggedIn(t)'
               /\ task'[t].at = "write" => SoundRow(task'[t].command, task'[t].read)
               /\ task'[t].at = "farewell" => \A u \in DOMAIN clients' : clients'[u].session # t
    BY <2>2, GoneLeaves DEF IInv, TasksSound, LoggedIn
  <2>3. ASSUME NEW t \in Sessions, t # s, task'[t].at \in {"announce", "farewell"},
               NEW x \in Sessions, x \in task'[t].to
        PROVE  LoggedIn(x)'
    BY <2>3, GoneLeaves DEF IInv, TasksSound, LoggedIn
  <2>4. QED
    BY <2>1, <2>2, <2>3, GoneLeaves DEF TasksSound
<1>3. QED
  BY <1>1, <1>2

LEMMA FarewellKeeps ==
    ASSUME IInv, NEW s \in Sessions, Farewell(s)
    PROVE  IInv'
<1> DEFINE u == auth[s]
           to == task[s].to
<1>1. /\ task[s] \in Task /\ task[s].at = "farewell" /\ u \in Users /\ to \in SUBSET Sessions
      /\ UNCHANGED <<accounts, rel, clients, deletions>> /\ Gone(s)
      /\ pending' = [QueuedTo(to, u, "offline") EXCEPT ![s] = [w \in Users |-> "none"]]
      /\ \A w \in DOMAIN clients : clients[w].session # s
  BY TaskHolds DEF IInv, TypeOK, TasksSound, LoggedIn, Farewell, tables
<1>2. usage' \in Nat
  BY DEF Farewell, IInv, TypeOK
<1>3. pending' \in [Sessions -> [Users -> News]]
  <2>1. QueuedTo(to, u, "offline") \in [Sessions -> [Users -> News]]
    BY <1>1 DEF QueuedTo, News, IInv, TypeOK
  <2>2. [w \in Users |-> "none"] \in [Users -> News]
    BY DEF News
  <2>3. QED
    BY <1>1, <2>1, <2>2
<1>4. doubtful' \subseteq SUBSET Users
  <2> DEFINE all == {auth[t] : t \in to}
  <2>1. all \in SUBSET Users
    BY <1>1 DEF IInv, TasksSound, LoggedIn
  <2>2. PICK W \in SUBSET Users : Doubts(u, W)
    BY <2>1 DEF Farewell
  <2>3. QED
    BY <1>1, <2>2, DoubtsType DEF IInv, TypeOK
<1>5. TypeOK'
  BY <1>1, <1>2, <1>3, <1>4, GoneLeaves DEF IInv, TypeOK
<1>6. BlockEndsFriendship'
  BY <1>1 DEF IInv, BlockEndsFriendship
<1>7. EntryIsConnected' /\ TasksSound'
  BY <1>1, GoneKeeps
<1>8. QED
  BY <1>5, <1>6, <1>7 DEF IInv

LEMMA UnregisterKeeps ==
    ASSUME IInv, NEW s \in Sessions, Unregister(s)
    PROVE  IInv'
<1>1. /\ UNCHANGED <<accounts, rel, usage, doubtful>> /\ Gone(s)
      /\ clients' = [w \in DOMAIN clients \ {auth[s]} |-> clients[w]]
      /\ pending' = [pending EXCEPT ![s] = [w \in Users |-> "none"]]
      /\ deletions' = deletions + 1
  BY DEF Unregister, tables
<1>2. pending' \in [Sessions -> [Users -> News]]
  BY <1>1 DEF News, IInv, TypeOK
<1>3. /\ DOMAIN clients' \subseteq DOMAIN clients
      /\ \A w \in DOMAIN clients' : clients'[w] = clients[w] /\ clients[w].session # s
  BY <1>1 DEF IInv, EntryIsConnected
<1>4. TypeOK'
  BY <1>1, <1>2, <1>3, GoneLeaves DEF IInv, TypeOK
<1>5. BlockEndsFriendship'
  BY <1>1 DEF IInv, BlockEndsFriendship
<1>6. EntryIsConnected' /\ TasksSound'
  BY <1>1, <1>3, GoneKeeps
<1>7. QED
  BY <1>4, <1>5, <1>6 DEF IInv

LEMMA DeleteKeeps ==
    ASSUME IInv, NEW s \in Sessions, NEW v \in Users, CmdDelete(s, v)
    PROVE  IInv'
<1> DEFINE next == [at |-> IF v = auth[s] THEN "unregister" ELSE "leave"]
<1>1. /\ LoggedIn(s) /\ UNCHANGED <<clients, usage, auth, screens, history>> /\ Goes(s, next)
      /\ accounts' = accounts \ {v}
      /\ rel' = [p \in Pairs |-> IF v \in {p[1], p[2]} THEN {} ELSE rel[p]]
  BY DEF CmdDelete
<1>2. next \in Task
  BY DEF Task
<1>3. TypeOK'
  BY <1>1, <1>2 DEF IInv, TypeOK, Goes, screens, history
<1>4. BlockEndsFriendship'
  BY <1>1 DEF IInv, BlockEndsFriendship, Pairs
<1>5. EntryIsConnected' /\ TasksSound'
  BY <1>1, <1>2 DEF IInv, TypeOK, EntryIsConnected, TasksSound, Goes, LoggedIn
<1>6. QED
  BY <1>3, <1>4, <1>5 DEF IInv

LEMMA NextKeeps == IInv /\ [Next]_vars => IInv'
<1> SUFFICES ASSUME IInv, [Next]_vars PROVE IInv'
  OBVIOUS
<1>1. CASE UNCHANGED vars
  BY <1>1 DEF vars, IInv, TypeOK, BlockEndsFriendship, EntryIsConnected, TasksSound, LoggedIn
<1>2. ASSUME NEW s \in Sessions, Step(s) PROVE IInv'
  <2>1. ASSUME NEW u \in Users, NEW hidden \in BOOLEAN, CmdLogin(s, u, hidden) PROVE IInv'
    BY <2>1, LoginKeeps
  <2>2. ASSUME NEW v \in Users,
               \/ CmdAddFriend(s, v) \/ CmdRemoveFriend(s, v)
               \/ CmdAddBlock(s, v) \/ CmdRemoveBlock(s, v)
        PROVE  IInv'
    BY <2>2, CommandsKeep
  <2>3. ASSUME NEW v \in Users, CmdDelete(s, v) PROVE IInv'
    BY <2>3, DeleteKeeps
  <2>4. QED
    BY <1>2, <2>1, <2>2, <2>3, LookUpsKeep, RegisterKeeps, AnnounceKeeps, SetRelStatusKeeps,
       UpdateCachesKeeps, NotifyKeeps, DeliverKeeps, CleanupKeeps, FarewellKeeps, UnregisterKeeps
       DEF Step
<1>3. QED
  BY <1>1, <1>2 DEF Next

\* The invariant holds in every reachable state of any server.
THEOREM Invariance == Spec => []IInv
BY InitHolds, NextKeeps, PTL DEF Spec

\* Every variable keeps its type, whatever the handlers race with.
THEOREM TypeCorrect == Spec => []TypeOK
BY Invariance, PTL DEF IInv

\* Of two users one of whom blocks the other neither holds the other for a
\* friend, though commands write rows over what has changed since they read them.
THEOREM BlocksEndFriendships == Spec => []BlockEndsFriendship
BY Invariance, PTL DEF IInv

\* The registry lists connected sessions only, each under its own user, however
\* many sessions of one user log in and go.
THEOREM EntriesAreConnected == Spec => []EntryIsConnected
BY Invariance, PTL DEF IInv

---------------------------------------------------------------------------
(* Blocks last                                                             *)

\* A command that had read the row as it is takes no block away but the one its
\* user lifts.
LEMMA WriteKeepsBlocks ==
    ASSUME NEW command \in Commands, NEW row \in Row
    PROVE  LET new == NewRow(command, row)
           IN  /\ "Blocked" \in row.theirs => "Blocked" \in new.theirs
               /\ "Blocked" \in row.mine /\ command # "unblock" => "Blocked" \in new.mine
<1>1. CASE command = "add"
  BY <1>1 DEF NewRow, Add, Row
<1>2. CASE command = "remove"
  BY <1>2 DEF NewRow, Remove, Row
<1>3. CASE command = "block"
  BY <1>3 DEF NewRow, Block, Row
<1>4. CASE command = "unblock"
  BY <1>4 DEF NewRow, Unblock, Row
<1>5. QED
  BY <1>1, <1>2, <1>3, <1>4 DEF Commands

\* What BlockLasts allows of one step.
BlocksStay ==
    \A p \in Pairs : "Blocked" \in rel[p] \ rel'[p] =>
        \/ ~({p[1], p[2]} \subseteq accounts')
        \/ \E s \in Sessions :
            /\ task[s].at = "write" /\ task'[s] # task[s]
            /\ \/ WritesUnread(s, p[1], p[2])
               \/ auth[s] = p[1] /\ task[s].command = "unblock" /\ task[s].other = p[2]

LEMMA WriteLetsBlocksStay ==
    ASSUME IInv, NEW s \in Sessions, SetRelStatus(s)
    PROVE  BlocksStay
<1> DEFINE u == auth[s]
           t == task[s]
           v == t.other
           new == NewRow(t.command, t.read)
<1>1. /\ t.at = "write" /\ u \in Users /\ v \in Users /\ t.command \in Commands /\ t.read \in Row
      /\ rel \in [Pairs -> SUBSET Flags] /\ task \in [Sessions -> Task]
  BY TaskHolds DEF IInv, TypeOK, TasksSound, LoggedIn, SetRelStatus
<1>2. rel' = [rel EXCEPT ![<<u, v>>] = new.mine, ![<<v, u>>] = new.theirs]
      \/ rel' = rel
  BY DEF SetRelStatus
<1>3. task'[s] # task[s]
  <2>1. PICK next : Goes(s, next) /\ next.at \in {"caches", "idle"}
    BY DEF SetRelStatus, Idle
  <2>2. QED
    BY <1>1, <2>1 DEF Goes
<1>4. SUFFICES ASSUME NEW p \in Pairs, "Blocked" \in rel[p], "Blocked" \notin rel'[p],
                      ~WritesUnread(s, p[1], p[2])
               PROVE  auth[s] = p[1] /\ task[s].command = "unblock" /\ task[s].other = p[2]
  BY <1>1, <1>3 DEF BlocksStay
<1>5. p \in {<<u, v>>, <<v, u>>} /\ u # v
  BY <1>1, <1>2, <1>4 DEF Pairs
<1>6. t.read = RowOf(u, v)
  <2>1. {u, v} = {p[1], p[2]}
    BY <1>5
  <2>2. QED
    BY <1>1, <1>4, <2>1 DEF WritesUnread
<1>7. t.read.mine = rel[<<u, v>>] /\ t.read.theirs = rel[<<v, u>>]
  BY <1>6 DEF RowOf
<1>8. <<u, v>> # <<v, u>> /\ rel'[<<u, v>>] = new.mine /\ rel'[<<v, u>>] = new.theirs
  <2>1. <<u, v>> \in Pairs /\ <<v, u>> \in Pairs
    BY <1>1, <1>5 DEF Pairs
  <2>2. QED
    BY <1>1, <1>2, <1>4, <1>5, <2>1
<1>9. QED
  BY <1>1, <1>4, <1>5, <1>7, <1>8, WriteKeepsBlocks

\* Only its owner lifts a block, or the end of one of the two accounts, for any
\* number of users and sessions, unless the command that writes had not read the
\* row it writes over: it has changed since, or its read has failed.
THEOREM BlocksLast == Spec => BlockLasts
<1>1. IInv /\ [Next]_vars => [BlocksStay]_vars
  <2> SUFFICES ASSUME IInv, Next PROVE BlocksStay
    OBVIOUS
  <2>1. PICK s \in Sessions : Step(s)
    BY DEF Next
  <2>2. CASE SetRelStatus(s)
    BY <2>2, WriteLetsBlocksStay
  <2>3. CASE \E v \in Users : CmdDelete(s, v)
    <3>1. PICK v \in Users : CmdDelete(s, v)
      BY <2>3
    <3>2. accounts' = accounts \ {v}
      BY <3>1 DEF CmdDelete
    <3>3. \A p \in Pairs : rel'[p] # rel[p] => v \in {p[1], p[2]}
      BY <3>1 DEF CmdDelete
    <3>4. QED
      BY <3>2, <3>3 DEF BlocksStay
  <2>4. CASE UNCHANGED rel
    BY <2>4 DEF BlocksStay
  <2>5. ReadsRow(s) => UNCHANGED rel
    BY DEF ReadsRow, Reads, tables
  <2>6. QED
    BY <2>1, <2>2, <2>3, <2>4, <2>5, CommandsRead DEF Step, CmdLogin, GetRelationships,
       LookUpFriends, Register, Announce, UpdateCaches, Notify, Deliver, CleanupOnDisconnect, Farewell, Unregister, tables
<1>2. Spec => [][BlocksStay]_vars
  BY <1>1, Invariance, PTL DEF Spec
<1>3. QED
  BY <1>2 DEF BlockLasts, BlocksStay

---------------------------------------------------------------------------
(* The count of those online                                               *)

CountedSessions == {s \in Sessions : Counted(s)}

LEMMA CountedAreFinite == IsFiniteSet(CountedSessions) /\ Cardinality(CountedSessions) \in Nat
BY SessionsAssumption, FS_Subset, FS_CardinalityType DEF CountedSessions

\* A step of a session that counts it no more than before.
LEMMA CountStays ==
    ASSUME UsageIsExact, UNCHANGED <<usage, deletions>>,
           \A t \in Sessions : Counted(t)' <=> Counted(t)
    PROVE  UsageIsExact'
<1>1. CountedSessions' = CountedSessions
  BY DEF CountedSessions
<1>2. QED
  BY <1>1 DEF UsageIsExact, CountedSessions

LEMMA CountOnLogin ==
    ASSUME IInv, UsageIsExact, NEW s \in Sessions, Announce(s)
    PROVE  UsageIsExact'
<1>1. /\ task[s].at = "announce" /\ LoggedIn(s) /\ task \in [Sessions -> Task]
      /\ UNCHANGED <<auth, deletions>> /\ usage' = usage + 1 /\ Goes(s, Idle)
  BY DEF IInv, TypeOK, TasksSound, Announce
<1>2. s \notin CountedSessions /\ CountedSessions' = CountedSessions \cup {s}
  BY <1>1 DEF CountedSessions, Counted, LoggedIn, Goes, Idle
<1>3. Cardinality(CountedSessions') = Cardinality(CountedSessions) + 1
  BY <1>2, CountedAreFinite, FS_AddElement
<1>4. QED
  BY <1>1, <1>3, CountedAreFinite DEF UsageIsExact, CountedSessions, IInv, TypeOK

\* The session that goes is one that was counted, and the only one that is not then.
LEMMA CountOfGone ==
    ASSUME IInv, NEW s \in Sessions, Gone(s), task[s].at \in {"farewell", "unregister"}
    PROVE  /\ Cardinality(CountedSessions) > 0
           /\ Cardinality(CountedSessions') = Cardinality(CountedSessions) - 1
<1>1. s \in CountedSessions
  BY DEF CountedSessions, Counted, IInv, TasksSound
<1>2. CountedSessions' = CountedSessions \ {s}
  BY GoneLeaves, UsersAssumption DEF CountedSessions, Counted, LoggedIn
<1>3. Cardinality(CountedSessions') = Cardinality(CountedSessions) - 1
  BY <1>1, <1>2, CountedAreFinite, FS_RemoveElement
<1>4. Cardinality(CountedSessions') \in Nat
  BY <1>2, CountedAreFinite, FS_RemoveElement, FS_CardinalityType
<1>5. QED
  BY <1>3, <1>4, CountedAreFinite

LEMMA CountIsKept == IInv /\ UsageIsExact /\ [Next]_vars => UsageIsExact'
<1> SUFFICES ASSUME IInv, UsageIsExact, [Next]_vars PROVE UsageIsExact'
  OBVIOUS
<1>1. task \in [Sessions -> Task] /\ auth \in [Sessions -> Users \cup {NoUser, Closed}]
  BY DEF IInv, TypeOK
<1>2. CASE UNCHANGED vars
  BY <1>2, CountStays DEF vars, Counted, LoggedIn
<1>3. ASSUME NEW s \in Sessions, Step(s) PROVE UsageIsExact'
  <2>1. ASSUME NEW u \in Users, NEW hidden \in BOOLEAN, CmdLogin(s, u, hidden) PROVE UsageIsExact'
    <3>1. ~LoggedIn(s) /\ UNCHANGED <<usage, deletions>>
      BY <2>1, UsersAssumption DEF CmdLogin, LoggedIn, history
    <3>2. \A t \in Sessions : Counted(t)' <=> Counted(t)
      BY <1>1, <2>1, <3>1 DEF CmdLogin, Counted, LoggedIn, Goes
    <3>3. QED
      BY <3>1, <3>2, CountStays
  <2>2. CASE \/ GetRelationships(s) \/ LookUpFriends(s) \/ Register(s)
    <3>1. /\ UNCHANGED <<usage, deletions, auth>>
          /\ task[s].at \in {"relations", "flags", "register"}
          /\ \E next : Goes(s, next) /\ next.at \in {"flags", "register", "announce"}
      <4>1. CASE GetRelationships(s)
        BY <4>1 DEF GetRelationships, history
      <4>2. CASE LookUpFriends(s) \/ Register(s)
        BY <4>2 DEF LookUpFriends, Register, history
      <4>3. QED
        BY <2>2, <4>1, <4>2
    <3>2. \A t \in Sessions : Counted(t)' <=> Counted(t)
      BY <1>1, <3>1 DEF Counted, LoggedIn, Goes
    <3>3. QED
      BY <3>1, <3>2, CountStays
  <2>3. CASE Announce(s)
    BY <2>3, CountOnLogin
  <2>4. ASSUME \/ \E v \in Users :
                    \/ CmdAddFriend(s, v) \/ CmdRemoveFriend(s, v)
                    \/ CmdAddBlock(s, v) \/ CmdRemoveBlock(s, v) \/ CmdDelete(s, v)
               \/ SetRelStatus(s) \/ UpdateCaches(s) \/ Notify(s) \/ CleanupOnDisconnect(s)
        PROVE  UsageIsExact'
    <3>1. /\ UNCHANGED <<usage, deletions, auth>>
          /\ task[s].at \in {"idle", "leave", "write", "caches", "notify"}
          /\ \E next : /\ Goes(s, next)
                      /\ next.at \in {"idle", "leave", "unregister", "write", "caches", "notify",
                                      "farewell"}
      <4>1. CASE ReadsRow(s)
        BY <4>1 DEF ReadsRow, Reads, Free, Idle, history
      <4>2. CASE \E v \in Users : CmdDelete(s, v)
        BY <4>2 DEF CmdDelete, Free, Idle, history
      <4>3. CASE SetRelStatus(s)
        <5>1. PICK next : Goes(s, next) /\ next.at \in {"caches", "idle"}
          BY <4>3 DEF SetRelStatus, Idle
        <5>2. QED
          BY <4>3, <5>1 DEF SetRelStatus
      <4>4. CASE UpdateCaches(s)
        BY <4>4 DEF UpdateCaches
      <4>5. CASE Notify(s)
        BY <4>5 DEF Notify, Idle
      <4>6. CASE CleanupOnDisconnect(s)
        BY <4>6 DEF CleanupOnDisconnect, Free, Idle, history
      <4>7. QED
        BY <2>4, <4>1, <4>2, <4>3, <4>4, <4>5, <4>6, CommandsRead
    <3>2. \A t \in Sessions : Counted(t)' <=> Counted(t)
      BY <1>1, <3>1 DEF Counted, LoggedIn, Goes
    <3>3. QED
      BY <3>1, <3>2, CountStays
  <2>5. CASE Deliver(s)
    BY <2>5, CountStays DEF Deliver, Counted, LoggedIn, history
  <2>6. CASE Farewell(s)
    <3>1. /\ Gone(s) /\ task[s].at = "farewell" /\ UNCHANGED deletions
          /\ usage' = IF usage > 0 THEN usage - 1 ELSE 0
      BY <2>6 DEF Farewell
    <3>2. /\ Cardinality(CountedSessions) > 0
          /\ Cardinality(CountedSessions') = Cardinality(CountedSessions) - 1
      BY <3>1, CountOfGone
    <3>3. usage = Cardinality(CountedSessions) + deletions
      BY DEF UsageIsExact, CountedSessions
    <3>4. usage' = Cardinality(CountedSessions') + deletions'
      BY <3>1, <3>2, <3>3, CountedAreFinite DEF IInv, TypeOK
    <3>5. QED
      BY <3>4 DEF UsageIsExact, CountedSessions
  <2>7. CASE Unregister(s)
    <3>1. /\ Gone(s) /\ task[s].at = "unregister" /\ UNCHANGED usage /\ deletions' = deletions + 1
      BY <2>7 DEF Unregister
    <3>2. /\ Cardinality(CountedSessions) > 0
          /\ Cardinality(CountedSessions') = Cardinality(CountedSessions) - 1
      BY <3>1, CountOfGone
    <3>3. usage = Cardinality(CountedSessions) + deletions
      BY DEF UsageIsExact, CountedSessions
    <3>4. usage' = Cardinality(CountedSessions') + deletions'
      BY <3>1, <3>2, <3>3, CountedAreFinite DEF IInv, TypeOK
    <3>5. QED
      BY <3>4 DEF UsageIsExact, CountedSessions
  <2>8. QED
    BY <1>3, <2>1, <2>2, <2>3, <2>4, <2>5, <2>6, <2>7 DEF Step
<1>4. QED
  BY <1>2, <1>3 DEF Next

\* The number of users shown online is always that of the sessions that have
\* logged in and not left, and of the accounts deleted while in use.
THEOREM UsageAlwaysExact == Spec => []UsageIsExact
<1>1. Init => UsageIsExact
  <2> SUFFICES ASSUME Init PROVE UsageIsExact
    OBVIOUS
  <2>1. CountedSessions = {}
    BY UsersAssumption DEF Init, CountedSessions, Counted, LoggedIn
  <2>2. Cardinality(CountedSessions) = 0
    BY <2>1, FS_EmptySet
  <2>3. QED
    BY <2>2 DEF Init, UsageIsExact, CountedSessions
<1>2. QED
  BY <1>1, CountIsKept, Invariance, PTL DEF Spec

---------------------------------------------------------------------------
(* The cached friends                                                      *)

\* Somebody is about to bring the caches of u and v up to date.
Updating(u, v) ==
    \E s \in Sessions : task[s].at = "caches" /\ Couple(auth[s], task[s].other) = Couple(u, v)

\* The cache of u tells whether v is a friend, or is about to.
Settled(u, v) ==
    Undoubted(u, v) => (v \in clients[u].friends <=> Mutual(u, v)) \/ Updating(u, v)

CachesFollow == \A u \in DOMAIN clients : \A v \in Users \ {u} : Settled(u, v)

\* Two users are the same two in either order.
LEMMA SameCouple ==
    ASSUME NEW u, NEW v, NEW w, NEW x, Couple(u, v) = Couple(w, x), w # x
    PROVE  (w = u /\ x = v) \/ (w = v /\ x = u)
<1>1. u \in {w, x} /\ v \in {w, x} /\ w \in {u, v} /\ x \in {u, v}
  BY DEF Couple
<1>2. QED
  BY <1>1

\* A handler other than s that is at the caches stays there.
OthersStay(s) ==
    \A t \in Sessions \ {s} :
        task[t].at = "caches" => task'[t] = task[t] /\ auth'[t] = auth[t]

LEMMA UpdatingStays ==
    ASSUME NEW s \in Sessions, OthersStay(s), NEW u \in Users, NEW v \in Users, Updating(u, v),
           task[s].at = "caches" => Couple(auth[s], task[s].other) # Couple(u, v)
    PROVE  Updating(u, v)'
<1>1. PICK t \in Sessions : task[t].at = "caches" /\ Couple(auth[t], task[t].other) = Couple(u, v)
  BY DEF Updating
<1>2. t \in Sessions \ {s} /\ task'[t] = task[t] /\ auth'[t] = auth[t]
  BY <1>1 DEF OthersStay
<1>3. QED
  BY <1>1, <1>2 DEF Updating, Couple

\* Accounts only go, and doubts only come.
LEMMA UndoubtedBefore ==
    ASSUME accounts' \subseteq accounts, doubtful \subseteq doubtful',
           NEW u \in Users, NEW v \in Users, Undoubted(u, v)'
    PROVE  Undoubted(u, v)
BY DEF Undoubted, Couple

\* A step of s that leaves the table and every entry that stays as it was.
LEMMA CachesStand ==
    ASSUME TypeOK, CachesFollow, NEW s \in Sessions, task[s].at # "caches", OthersStay(s),
           accounts' = accounts, doubtful \subseteq doubtful', UNCHANGED rel,
           DOMAIN clients' \subseteq DOMAIN clients,
           \A w \in DOMAIN clients' : clients'[w] = clients[w]
    PROVE  CachesFollow'
<1> SUFFICES ASSUME NEW u \in DOMAIN clients', NEW v \in Users \ {u}, Undoubted(u, v)'
             PROVE  ((v \in clients[u].friends <=> Mutual(u, v)) \/ Updating(u, v))'
  BY DEF CachesFollow, Settled
<1>1. u \in DOMAIN clients /\ u \in Users /\ Undoubted(u, v)
  BY UndoubtedBefore DEF TypeOK
<1>2. CASE Updating(u, v)
  BY <1>1, <1>2, UpdatingStays
<1>3. CASE v \in clients[u].friends <=> Mutual(u, v)
  BY <1>3 DEF Mutual
<1>4. QED
  BY <1>1, <1>2, <1>3 DEF CachesFollow, Settled

\* A command that does not go on to the caches leaves friendships as they were.
LEMMA UntouchedCaches ==
    ASSUME NEW command \in Commands, NEW row \in Row, ~TouchesCaches(command, row)
    PROVE  LET new == NewRow(command, row)
           IN  "Friend" \in new.mine /\ "Friend" \in new.theirs
                 <=> "Friend" \in row.mine /\ "Friend" \in row.theirs
<1>1. CASE command = "add"
  BY <1>1 DEF NewRow, Add, Row, TouchesCaches
<1>2. CASE command = "remove"
  BY <1>2 DEF TouchesCaches
<1>3. CASE command = "block"
  BY <1>3 DEF NewRow, Block, Row, TouchesCaches
<1>4. CASE command = "unblock"
  BY <1>4 DEF NewRow, Unblock, Row
<1>5. QED
  BY <1>1, <1>2, <1>3, <1>4 DEF Commands

\* A doubt about the two users a handler deals with.
LEMMA DoubtAbout ==
    ASSUME NEW u, NEW v, NEW W, u # v, Doubts(u, W), Couple(u, v) \notin doubtful'
    PROVE  v \notin W
BY DEF Doubts

LEMMA WriteSettles ==
    ASSUME IInv, CachesFollow, NEW s \in Sessions, SetRelStatus(s)
    PROVE  CachesFollow'
<1> DEFINE u == auth[s]
           t == task[s]
           v == t.other
           new == NewRow(t.command, t.read)
<1>1. /\ t \in Task /\ t.at = "write" /\ u \in Users /\ v \in Users
      /\ t.command \in Commands /\ t.read \in Row
      /\ UNCHANGED <<accounts, clients, auth>>
      /\ rel \in [Pairs -> SUBSET Flags] /\ task \in [Sessions -> Task]
      /\ DOMAIN clients \subseteq Users
  BY TaskHolds DEF IInv, TypeOK, TasksSound, LoggedIn, SetRelStatus, screens
<1>2. OthersStay(s) /\ doubtful \subseteq doubtful'
  BY <1>1 DEF SetRelStatus, OthersStay, Goes, Doubts
<1> SUFFICES ASSUME NEW w \in DOMAIN clients, NEW x \in Users \ {w}, Undoubted(w, x)'
             PROVE  ((x \in clients[w].friends <=> Mutual(w, x)) \/ Updating(w, x))'
  BY <1>1 DEF CachesFollow, Settled
<1>3. w \in Users /\ Undoubted(w, x)
  BY <1>1, <1>2, UndoubtedBefore
<1>4. CASE Updating(w, x)
  BY <1>1, <1>2, <1>3, <1>4, UpdatingStays
<1>5. CASE x \in clients[w].friends <=> Mutual(w, x)
  <2>1. CASE UNCHANGED rel
    BY <1>1, <1>5, <2>1 DEF Mutual
  <2>2. CASE /\ rel' = [rel EXCEPT ![<<u, v>>] = new.mine, ![<<v, u>>] = new.theirs]
             /\ Doubts(u, IF t.read # RowOf(u, v) THEN {v} ELSE {})
             /\ Goes(s, IF TouchesCaches(t.command, t.read)
                        THEN [at |-> "caches", command |-> t.command, other |-> v]
                        ELSE Idle)
    <3>1. CASE Couple(u, v) = Couple(w, x)
      <4>1. u # v /\ ((w = u /\ x = v) \/ (w = v /\ x = u))
        BY <3>1, SameCouple
      <4>2. Couple(u, v) \notin doubtful'
        BY <3>1 DEF Undoubted, Couple
      <4>3. t.read = RowOf(u, v)
        BY <2>2, <4>1, <4>2, DoubtAbout
      <4>4. CASE TouchesCaches(t.command, t.read)
        <5>1. /\ task'[s].at = "caches" /\ task'[s].other = v /\ auth'[s] = u
          BY <1>1, <2>2, <4>4 DEF Goes
        <5>2. QED
          BY <3>1, <5>1 DEF Updating, Couple
      <4>5. CASE ~TouchesCaches(t.command, t.read)
        <5>1. <<u, v>> \in Pairs /\ <<v, u>> \in Pairs /\ <<u, v>> # <<v, u>>
          BY <1>1, <4>1 DEF Pairs
        <5>2. rel'[<<u, v>>] = new.mine /\ rel'[<<v, u>>] = new.theirs
          BY <1>1, <2>2, <5>1
        <5>3. "Friend" \in rel'[<<u, v>>] /\ "Friend" \in rel'[<<v, u>>] <=> Mutual(u, v)
          <6>1. "Friend" \in new.mine /\ "Friend" \in new.theirs
                  <=> "Friend" \in t.read.mine /\ "Friend" \in t.read.theirs
            BY <1>1, <4>5, UntouchedCaches
          <6>2. QED
            BY <4>3, <5>2, <6>1 DEF Mutual, RowOf
        <5>4. Mutual(w, x)' <=> Mutual(w, x)
          BY <4>1, <5>3 DEF Mutual
        <5>5. QED
          BY <1>1, <1>5, <5>4
      <4>6. QED
        BY <4>4, <4>5
    <3>2. CASE Couple(u, v) # Couple(w, x)
      <4>1. /\ <<w, x>> \in Pairs \ {<<u, v>>, <<v, u>>}
            /\ <<x, w>> \in Pairs \ {<<u, v>>, <<v, u>>}
        BY <1>3, <3>2 DEF Pairs, Couple
      <4>2. rel'[<<w, x>>] = rel[<<w, x>>] /\ rel'[<<x, w>>] = rel[<<x, w>>]
        BY <1>1, <2>2, <4>1
      <4>3. QED
        BY <1>1, <1>5, <4>2 DEF Mutual
    <3>3. QED
      BY <3>1, <3>2
  <2>3. QED
    BY <2>1, <2>2 DEF SetRelStatus
<1>6. QED
  BY <1>3, <1>4, <1>5 DEF CachesFollow, Settled

LEMMA UpdateSettles ==
    ASSUME IInv, CachesFollow, NEW s \in Sessions, UpdateCaches(s)
    PROVE  CachesFollow'
<1> DEFINE u == auth[s]
           v == task[s].other
           command == task[s].command
<1>1. /\ task[s] \in Task /\ task[s].at = "caches" /\ u \in Users /\ v \in Users
      /\ command \in Commands
      /\ UNCHANGED <<accounts, rel, auth>>
      /\ clients' = IF command = "add" THEN Befriend(u, v) ELSE Unfriend(u, v)
      /\ Doubts(u, IF (command = "add" /\ Hides(v)) \/ Mutual(u, v) # (command = "add")
                   THEN {v} ELSE {})
      /\ DOMAIN clients \subseteq Users
      /\ \A w \in DOMAIN clients : clients[w] \in Entry
  BY TaskHolds DEF IInv, TypeOK, TasksSound, LoggedIn, UpdateCaches, tables
<1>2. OthersStay(s) /\ doubtful \subseteq doubtful'
  BY DEF UpdateCaches, OthersStay, Goes, Doubts, IInv, TypeOK
<1>3. DOMAIN clients' = DOMAIN clients
  BY <1>1 DEF Befriend, Unfriend
<1> SUFFICES ASSUME NEW w \in DOMAIN clients, NEW x \in Users \ {w}, Undoubted(w, x)'
             PROVE  ((x \in clients[w].friends <=> Mutual(w, x)) \/ Updating(w, x))'
  BY <1>3 DEF CachesFollow, Settled
<1>4. w \in Users /\ Undoubted(w, x) /\ (Mutual(w, x)' <=> Mutual(w, x))
  BY <1>1, <1>2, UndoubtedBefore DEF Mutual
<1>5. CASE Couple(u, v) = Couple(w, x)
  <2>1. u # v /\ ((w = u /\ x = v) \/ (w = v /\ x = u))
    BY <1>5, SameCouple
  <2>2. Couple(u, v) \notin doubtful'
    BY <1>5 DEF Undoubted, Couple
  <2>3. Mutual(u, v) <=> command = "add"
    <3>1. ~(Mutual(u, v) # (command = "add"))
      BY <1>1, <2>1, <2>2, DoubtAbout
    <3>2. QED
      BY <3>1 DEF Mutual
  <2>4. Mutual(w, x) <=> command = "add"
    BY <2>1, <2>3 DEF Mutual
  <2>5. x \in clients'[w].friends <=> command = "add"
    <3>1. CASE command = "add"
      BY <1>1, <2>1, <3>1 DEF Befriend, Entry
    <3>2. CASE command # "add"
      BY <1>1, <2>1, <3>2 DEF Unfriend, Entry
    <3>3. QED
      BY <3>1, <3>2
  <2>6. QED
    BY <1>4, <2>4, <2>5
<1>6. CASE Couple(u, v) # Couple(w, x)
  <2>1. x \in clients'[w].friends <=> x \in clients[w].friends
    <3>1. ~(w = u /\ x = v) /\ ~(w = v /\ x = u)
      BY <1>6 DEF Couple
    <3>2. CASE command = "add"
      BY <1>1, <3>1, <3>2 DEF Befriend, Entry
    <3>3. CASE command # "add"
      BY <1>1, <3>1, <3>3 DEF Unfriend, Entry
    <3>4. QED
      BY <3>2, <3>3
  <2>2. CASE Updating(w, x)
    BY <1>2, <1>4, <1>6, <2>2, UpdatingStays
  <2>3. CASE x \in clients[w].friends <=> Mutual(w, x)
    BY <1>4, <2>1, <2>3
  <2>4. QED
    BY <1>4, <2>2, <2>3 DEF CachesFollow, Settled
<1>7. QED
  BY <1>5, <1>6

LEMMA RegisterSettles ==
    ASSUME IInv, CachesFollow, NEW s \in Sessions, Register(s)
    PROVE  CachesFollow'
<1> DEFINE u == auth[s]
           t == task[s]
           changed == {v \in Users : \/ Registered(u)
                                     \/ (v \in t.friends) # (v \in FriendsOf(u))
                                     \/ v \in t.friends /\ (v \in t.online) # Visible(v)}
<1>1. /\ t \in Task /\ t.at = "register" /\ u \in Users /\ t.friends \in SUBSET Users
      /\ UNCHANGED <<accounts, rel, auth>>
      /\ clients' = WithEntry(s, u, t) /\ Doubts(u, changed)
      /\ DOMAIN clients \subseteq Users
      /\ \A w \in DOMAIN clients : clients[w] \in Entry
  BY TaskHolds DEF IInv, TypeOK, TasksSound, LoggedIn, Register, tables
<1>2. OthersStay(s) /\ doubtful \subseteq doubtful'
  BY DEF Register, OthersStay, Goes, Doubts, IInv, TypeOK
<1>3. DOMAIN clients' = DOMAIN clients \cup {u}
  BY <1>1 DEF WithEntry
\* Of whom nothing is in doubt, the friends looked up are the friends there are.
<1>4. ASSUME NEW v \in Users \ {u}, Couple(u, v) \notin doubtful'
      PROVE  ~Registered(u) /\ (v \in t.friends <=> Mutual(u, v))
  <2>1. v \notin changed
    BY <1>1, <1>4, DoubtAbout
  <2>2. ~Registered(u) /\ ~((v \in t.friends) # (v \in FriendsOf(u)))
    BY <2>1
  <2>3. QED
    BY <2>2 DEF FriendsOf
<1> SUFFICES ASSUME NEW w \in DOMAIN clients', NEW x \in Users \ {w}, Undoubted(w, x)'
             PROVE  ((x \in clients[w].friends <=> Mutual(w, x)) \/ Updating(w, x))'
  BY DEF CachesFollow, Settled
<1>5. /\ w \in Users /\ Undoubted(w, x) /\ (Mutual(w, x)' <=> Mutual(w, x))
      /\ Couple(w, x) \notin doubtful'
  BY <1>1, <1>2, <1>3, UndoubtedBefore DEF Mutual, Undoubted, Couple
<1>6. CASE w = u
  <2>1. clients'[w].friends = t.friends
    BY <1>1, <1>6 DEF WithEntry
  <2>2. QED
    BY <1>4, <1>5, <1>6, <2>1
<1>7. CASE w # u
  <2>1. w \in DOMAIN clients
    BY <1>3, <1>7
  <2>2. CASE x \in clients[w].friends <=> Mutual(w, x)
    <3>1. x # u => (x \in clients'[w].friends <=> x \in clients[w].friends)
      BY <1>1, <1>7, <2>1 DEF WithEntry, Entry
    <3>2. ASSUME x = u PROVE x \in clients'[w].friends <=> Mutual(w, x)
      <4>1. w \in t.friends <=> Mutual(w, x)
        <5>1. Couple(u, w) \notin doubtful'
          BY <1>5, <3>2 DEF Couple
        <5>2. w \in t.friends <=> Mutual(u, w)
          BY <1>4, <1>5, <1>7, <5>1
        <5>3. QED
          BY <3>2, <5>2 DEF Mutual
      <4>2. w \in t.friends => x \in clients'[w].friends
        BY <1>1, <1>7, <2>1, <3>2 DEF WithEntry, Entry
      <4>3. w \notin t.friends => clients'[w] = clients[w]
        BY <1>1, <1>7, <2>1 DEF WithEntry
      <4>4. QED
        BY <2>2, <4>1, <4>2, <4>3
    <3>3. QED
      BY <1>5, <2>2, <3>1, <3>2
  <2>3. CASE Updating(w, x)
    BY <1>1, <1>2, <1>5, <2>3, UpdatingStays
  <2>4. QED
    BY <1>5, <2>1, <2>2, <2>3 DEF CachesFollow, Settled
<1>8. QED
  BY <1>6, <1>7

\* The friendships of an account end with it, and nothing is said of it then.
LEMMA DeleteSettles ==
    ASSUME IInv, CachesFollow, NEW s \in Sessions, NEW v \in Users, CmdDelete(s, v)
    PROVE  CachesFollow'
<1>1. /\ accounts' = accounts \ {v} /\ UNCHANGED <<clients, auth, doubtful>>
      /\ rel' = [p \in Pairs |-> IF v \in {p[1], p[2]} THEN {} ELSE rel[p]]
      /\ DOMAIN clients \subseteq Users
      /\ task[s].at # "caches" /\ OthersStay(s)
  BY DEF CmdDelete, IInv, TypeOK, Free, Idle, Goes, OthersStay, screens, history
<1> SUFFICES ASSUME NEW w \in DOMAIN clients, NEW x \in Users \ {w}, Undoubted(w, x)'
             PROVE  ((x \in clients[w].friends <=> Mutual(w, x)) \/ Updating(w, x))'
  BY <1>1 DEF CachesFollow, Settled
<1>2. w \in Users /\ Undoubted(w, x) /\ w # v /\ x # v
  BY <1>1, UndoubtedBefore DEF Undoubted
<1>3. Mutual(w, x)' <=> Mutual(w, x)
  <2>1. <<w, x>> \in Pairs /\ <<x, w>> \in Pairs
    BY <1>2 DEF Pairs
  <2>2. QED
    BY <1>1, <1>2, <2>1 DEF Mutual
<1>4. CASE Updating(w, x)
  BY <1>1, <1>2, <1>4, UpdatingStays
<1>5. CASE x \in clients[w].friends <=> Mutual(w, x)
  BY <1>1, <1>3, <1>5
<1>6. QED
  BY <1>2, <1>4, <1>5 DEF CachesFollow, Settled

\* The ends of sessions.
LEMMA GoneSettles ==
    ASSUME IInv, CachesFollow, NEW s \in Sessions, Farewell(s) \/ Unregister(s)
    PROVE  CachesFollow'
<1>1. /\ Gone(s) /\ task[s].at \in {"farewell", "unregister"}
      /\ UNCHANGED <<accounts, rel>> /\ doubtful \subseteq doubtful'
      /\ DOMAIN clients' \subseteq DOMAIN clients
      /\ \A w \in DOMAIN clients' : clients'[w] = clients[w]
  BY DEF Farewell, Unregister, tables, Doubts
<1>2. OthersStay(s)
  BY <1>1, GoneLeaves DEF OthersStay
<1>3. QED
  BY <1>1, <1>2, CachesStand DEF IInv

LEMMA CachesKept == IInv /\ CachesFollow /\ [Next]_vars => CachesFollow'
<1> SUFFICES ASSUME IInv, CachesFollow, [Next]_vars PROVE CachesFollow'
  OBVIOUS
<1>1. CASE UNCHANGED vars
  BY <1>1 DEF vars, CachesFollow, Settled, Updating, Undoubted, Mutual, Couple
<1>2. ASSUME NEW s \in Sessions, Step(s) PROVE CachesFollow'
  <2>1. CASE \/ \E u \in Users, hidden \in BOOLEAN : CmdLogin(s, u, hidden)
             \/ GetRelationships(s) \/ LookUpFriends(s) \/ Announce(s)
             \/ ReadsRow(s)
             \/ Notify(s) \/ Deliver(s) \/ CleanupOnDisconnect(s)
    <3>1. /\ UNCHANGED <<accounts, rel>> /\ doubtful \subseteq doubtful'
          /\ DOMAIN clients' \subseteq DOMAIN clients
          /\ \A w \in DOMAIN clients' : clients'[w] = clients[w]
      BY <2>1 DEF CmdLogin, GetRelationships, LookUpFriends, Announce, ReadsRow, Reads, Notify,
         Deliver, CleanupOnDisconnect, tables, history, Doubts
    <3>2. task[s].at # "caches" /\ OthersStay(s)
      <4>1. task \in [Sessions -> Task] /\ Idle.at = "idle" /\ Idle \in Task
        BY DEF IInv, TypeOK, Idle, Task
      <4>2. CASE \E u \in Users, hidden \in BOOLEAN : CmdLogin(s, u, hidden)
        BY <4>1, <4>2 DEF CmdLogin, Free, Goes, OthersStay, IInv, TypeOK
      <4>3. CASE GetRelationships(s) \/ LookUpFriends(s)
        BY <4>1, <4>3 DEF GetRelationships, LookUpFriends, Goes, OthersStay
      <4>4. CASE Announce(s) \/ Notify(s)
        BY <4>1, <4>4 DEF Announce, Notify, Goes, OthersStay
      <4>5. CASE ReadsRow(s)
        BY <4>1, <4>5 DEF ReadsRow, Reads, Free, Goes, OthersStay
      <4>6. CASE Deliver(s)
        BY <4>1, <4>6 DEF Deliver, OthersStay
      <4>7. CASE CleanupOnDisconnect(s)
        BY <4>1, <4>7 DEF CleanupOnDisconnect, Free, Goes, OthersStay
      <4>8. QED
        BY <2>1, <4>2, <4>3, <4>4, <4>5, <4>6, <4>7
    <3>3. QED
      BY <3>1, <3>2, CachesStand DEF IInv
  <2>2. ASSUME NEW v \in Users, CmdDelete(s, v) PROVE CachesFollow'
    BY <2>2, DeleteSettles
  <2>3. QED
    BY <1>2, <2>1, <2>2, RegisterSettles, WriteSettles, UpdateSettles, GoneSettles, CommandsRead DEF Step
<1>3. QED
  BY <1>1, <1>2 DEF Next

\* Whenever nothing is under way, the cached friends are those of the table but
\* for pairs of whom something stale was used, for any number of sessions.
THEOREM CachesAlwaysAgree == Spec => []CachesAgree
<1>1. Init => CachesFollow
  BY DEF Init, CachesFollow
<1>2. CachesFollow => CachesAgree
  <2> SUFFICES ASSUME CachesFollow, Quiet, NEW u \in DOMAIN clients, NEW v \in Users \ {u},
                      Undoubted(u, v)
               PROVE  v \in clients[u].friends <=> Mutual(u, v)
    BY DEF CachesAgree
  <2>1. ~Updating(u, v)
    BY DEF Quiet, Updating, Idle
  <2>2. QED
    BY <2>1 DEF CachesFollow, Settled
<1>3. QED
  BY <1>1, <1>2, CachesKept, Invariance, PTL DEF Spec

---------------------------------------------------------------------------
(* Sessions that come and go                                               *)

\* A session that has an entry, or had one, and is not on its way out.
Established(s) ==
    LoggedIn(s) /\ task[s].at \in {"idle", "announce", "leave", "write", "caches", "notify"}

\* A session that nobody has heard of.
Fresh(s) == auth[s] = NoUser \/ task[s].at \in {"relations", "flags", "register"}

\* Who is established has the entry of its user, unless all is in doubt; of who
\* is fresh nobody knows; who looked its friends up has asked for them before,
\* and who unregisters has no account.
SessionSound(s) ==
    /\ Established(s) =>
          \A v \in Users \ {auth[s]} : Undoubted(auth[s], v) =>
              Registered(auth[s]) /\ clients[auth[s]].session = s
    /\ Fresh(s) =>
          /\ \A u \in DOMAIN clients : clients[u].session # s
          /\ \A t \in Sessions : task[t].at \in {"announce", "farewell"} => s \notin task[t].to
          /\ \A u \in Users : pending[s][u] = "none"
    /\ task[s].at = "register" => task[s].online \subseteq task[s].friends
    /\ task[s].at = "unregister" => auth[s] \notin accounts

SessionsSound == \A s \in Sessions : SessionSound(s)

\* What a step of s leaves of the handlers of others: a receiver is forgotten
\* only when it is gone.
OthersGoOn(s) ==
    \A t \in Sessions \ {s} :
        /\ task'[t].at = task[t].at /\ auth'[t] = auth[t]
        /\ task[t].at \notin {"announce", "farewell"} => task'[t] = task[t]
        /\ task[t].at \in {"announce", "farewell"} =>
              /\ task'[t].to \subseteq task[t].to
              /\ \A x \in task[t].to : LoggedIn(x)' => x \in task'[t].to

LEMMA StepsOfOne ==
    ASSUME IInv, NEW s \in Sessions, Step(s)
    PROVE  OthersGoOn(s) /\ accounts' \subseteq accounts /\ doubtful \subseteq doubtful'
<1>1. task \in [Sessions -> Task] /\ auth \in [Sessions -> Users \cup {NoUser, Closed}]
  BY DEF IInv, TypeOK
<1>2. ASSUME NEW next, Goes(s, next), \A t \in Sessions \ {s} : auth'[t] = auth[t]
      PROVE  OthersGoOn(s)
  BY <1>1, <1>2 DEF Goes, OthersGoOn
<1>3. CASE \E u \in Users, hidden \in BOOLEAN : CmdLogin(s, u, hidden)
  BY <1>1, <1>2, <1>3 DEF CmdLogin, tables, history
<1>4. CASE GetRelationships(s) \/ LookUpFriends(s)
  BY <1>2, <1>4 DEF GetRelationships, LookUpFriends, tables, history
<1>5. CASE Register(s) \/ Announce(s) \/ UpdateCaches(s) \/ Notify(s)
  BY <1>2, <1>5 DEF Register, Announce, UpdateCaches, Notify, tables, Doubts
<1>6. CASE ReadsRow(s)
  BY <1>2, <1>6 DEF ReadsRow, Reads, tables, history
<1>7. CASE \E v \in Users : CmdDelete(s, v)
  BY <1>2, <1>7 DEF CmdDelete, history
<1>8. CASE SetRelStatus(s)
  <2>1. PICK next : Goes(s, next)
    BY <1>8 DEF SetRelStatus
  <2>2. QED
    BY <1>2, <1>8, <2>1 DEF SetRelStatus, Doubts
<1>9. CASE Deliver(s)
  BY <1>9 DEF Deliver, OthersGoOn, tables, history
<1>10. CASE CleanupOnDisconnect(s)
  BY <1>2, <1>10 DEF CleanupOnDisconnect, tables, history
<1>11. CASE Farewell(s) \/ Unregister(s)
  <2>1. Gone(s) /\ accounts' \subseteq accounts /\ doubtful \subseteq doubtful'
    BY <1>11 DEF Farewell, Unregister, tables, Doubts
  <2>2. ~LoggedIn(s)'
    BY <2>1, GoneLeaves, UsersAssumption DEF LoggedIn
  <2>3. OthersGoOn(s)
    BY <2>1, <2>2, GoneLeaves DEF OthersGoOn
  <2>4. QED
    BY <2>1, <2>3
<1>12. QED
  BY <1>3, <1>4, <1>5, <1>6, <1>7, <1>8, <1>9, <1>10, <1>11, CommandsRead DEF Step

\* A step of s after which the entries belong to the sessions they did, and which
\* tells no session that is fresh.
LEMMA SessionsStay ==
    ASSUME IInv, SessionsSound, NEW s \in Sessions, Step(s),
           DOMAIN clients' = DOMAIN clients,
           \A w \in DOMAIN clients : clients'[w].session = clients[w].session,
           Established(s)' => Established(s) /\ auth'[s] = auth[s],
           Fresh(s)' => Fresh(s),
           task'[s].at \notin {"announce", "farewell"},
           task'[s].at = "register" => task'[s].online \subseteq task'[s].friends,
           task'[s].at = "unregister" => auth'[s] \notin accounts',
           \A x \in Sessions : Fresh(x) =>
               \A u \in Users : pending[x][u] = "none" => pending'[x][u] = "none"
    PROVE  SessionsSound'
<1>1. OthersGoOn(s) /\ accounts' \subseteq accounts /\ doubtful \subseteq doubtful'
  BY StepsOfOne
<1>2. auth' \in [Sessions -> Users \cup {NoUser, Closed}] /\ auth \in [Sessions -> Users \cup {NoUser, Closed}]
  BY NextKeeps DEF IInv, TypeOK, Next
<1> SUFFICES ASSUME NEW x \in Sessions PROVE SessionSound(x)'
  BY DEF SessionsSound
<1>3. SessionSound(x)
  BY DEF SessionsSound
<1>4. ASSUME Established(x)', NEW v \in Users \ {auth'[x]}, Undoubted(auth[x], v)'
      PROVE  Registered(auth[x])' /\ clients'[auth'[x]].session = x
  <2>1. Established(x) /\ auth'[x] = auth[x]
    BY <1>1, <1>4 DEF Established, LoggedIn, OthersGoOn
  <2>2. auth[x] \in Users /\ Undoubted(auth[x], v)
    BY <1>1, <1>4, <2>1 DEF Established, LoggedIn, Undoubted, Couple
  <2>3. Registered(auth[x]) /\ clients[auth[x]].session = x
    BY <1>3, <1>4, <2>1, <2>2 DEF SessionSound
  <2>4. QED
    BY <2>1, <2>3 DEF Registered
<1>5. ASSUME Fresh(x)'
      PROVE  /\ \A u \in DOMAIN clients' : clients'[u].session # x
             /\ \A t \in Sessions : task'[t].at \in {"announce", "farewell"} => x \notin task'[t].to
             /\ \A u \in Users : pending'[x][u] = "none"
  <2>1. Fresh(x)
    BY <1>1, <1>5 DEF Fresh, OthersGoOn
  <2>2. QED
    BY <1>1, <1>3, <2>1 DEF SessionSound, OthersGoOn
<1>6. /\ task'[x].at = "register" => task'[x].online \subseteq task'[x].friends
      /\ task'[x].at = "unregister" => auth'[x] \notin accounts'
  BY <1>1, <1>3 DEF SessionSound, OthersGoOn
<1>7. QED
  BY <1>4, <1>5, <1>6 DEF SessionSound

\* Of two sessions of a user at most one is sure to be established.
LEMMA OneEstablished ==
    ASSUME SessionsSound, NEW s \in Sessions, NEW t \in Sessions, s # t, auth[s] = auth[t],
           Established(s), Established(t), NEW v \in Users \ {auth[s]}
    PROVE  ~Undoubted(auth[s], v)
BY DEF SessionsSound, SessionSound

\* The sessions that are told of somebody have entries.
LEMMA ToldHaveEntries ==
    ASSUME NEW u, NEW friends, NEW x \in FriendSessions(u, friends)
    PROVE  \E w \in DOMAIN clients : clients[w].session = x
BY DEF FriendSessions

LEMMA RegisterKeepsSessions ==
    ASSUME IInv, SessionsSound, NEW s \in Sessions, Register(s)
    PROVE  SessionsSound'
<1> DEFINE u == auth[s]
           t == task[s]
           changed == {v \in Users : \/ Registered(u)
                                     \/ (v \in t.friends) # (v \in FriendsOf(u))
                                     \/ v \in t.friends /\ (v \in t.online) # Visible(v)}
           to == IF t.hidden THEN {} ELSE FriendSessions(u, t.friends)
<1>1. /\ t.at = "register" /\ u \in Users /\ auth' = auth /\ pending' = pending
      /\ clients' = WithEntry(s, u, t) /\ Doubts(u, changed)
      /\ Goes(s, [at |-> "announce", to |-> to])
      /\ task \in [Sessions -> Task]
      /\ \A w \in DOMAIN clients : clients[w] \in Entry
  BY DEF IInv, TypeOK, TasksSound, LoggedIn, Register
<1>2. OthersGoOn(s) /\ accounts' \subseteq accounts /\ doubtful \subseteq doubtful'
  BY StepsOfOne DEF Step
<1>3. /\ DOMAIN clients' = DOMAIN clients \cup {u}
      /\ \A w \in DOMAIN clients' : clients'[w].session = IF w = u THEN s ELSE clients[w].session
  BY <1>1 DEF WithEntry, Entry
<1>4. task'[s].at = "announce" /\ task'[s].to = to
  BY <1>1 DEF Goes
<1> SUFFICES ASSUME NEW x \in Sessions PROVE SessionSound(x)'
  BY DEF SessionsSound
<1>5. SessionSound(x)
  BY DEF SessionsSound
<1>6. ASSUME Established(x)', NEW v \in Users \ {auth[x]}, Undoubted(auth[x], v)'
      PROVE  Registered(auth[x])' /\ clients'[auth[x]].session = x
  <2>1. CASE x = s
    <3>1. u \in DOMAIN clients' /\ clients'[u].session = s
      BY <1>1, <1>3
    <3>2. QED
      BY <1>1, <2>1, <3>1 DEF Registered
  <2>2. CASE x # s
    <3>1. Established(x) /\ auth[x] \in Users /\ Undoubted(auth[x], v)
      BY <1>1, <1>2, <1>6, <2>2 DEF Established, LoggedIn, OthersGoOn, Undoubted, Couple
    <3>2. Registered(auth[x]) /\ clients[auth[x]].session = x
      BY <1>5, <1>6, <3>1 DEF SessionSound
    <3>3. auth[x] # u
      <4>1. SUFFICES ASSUME auth[x] = u PROVE FALSE
        OBVIOUS
      <4>2. Couple(u, v) \notin doubtful'
        BY <1>1, <1>6, <4>1 DEF Undoubted, Couple
      <4>3. v \notin changed
        BY <1>1, <1>6, <4>1, <4>2, DoubtAbout
      <4>4. QED
        BY <3>2, <4>1, <4>3
    <3>4. QED
      BY <1>1, <1>3, <3>2, <3>3 DEF Registered
  <2>3. QED
    BY <2>1, <2>2
<1>7. ASSUME Fresh(x)'
      PROVE  /\ \A w \in DOMAIN clients' : clients'[w].session # x
             /\ \A y \in Sessions : task'[y].at \in {"announce", "farewell"} => x \notin task'[y].to
             /\ \A w \in Users : pending'[x][w] = "none"
  <2>1. x # s
    BY <1>1, <1>4, <1>7, UsersAssumption DEF Fresh
  <2>2. Fresh(x)
    BY <1>1, <1>2, <1>7, <2>1 DEF Fresh, OthersGoOn
  <2>3. x \notin to
    BY <1>5, <2>2, ToldHaveEntries DEF SessionSound
  <2>4. QED
    BY <1>1, <1>2, <1>3, <1>4, <1>5, <2>1, <2>2, <2>3 DEF SessionSound, OthersGoOn
<1>8. /\ task'[x].at = "register" => task'[x].online \subseteq task'[x].friends
      /\ task'[x].at = "unregister" => auth'[x] \notin accounts'
  BY <1>1, <1>2, <1>4, <1>5 DEF SessionSound, OthersGoOn
<1>9. QED
  BY <1>1, <1>6, <1>7, <1>8 DEF SessionSound

LEMMA CleanupKeepsSessions ==
    ASSUME IInv, SessionsSound, NEW s \in Sessions, CleanupOnDisconnect(s)
    PROVE  SessionsSound'
<1> DEFINE u == auth[s]
           to == IF Visible(u) THEN FriendSessions(u, clients[u].friends) ELSE {}
<1>1. /\ u \in Users /\ auth' = auth /\ pending' = pending /\ Established(s)
      /\ clients' = [w \in DOMAIN clients \ {u} |-> clients[w]]
      /\ Goes(s, [at |-> "farewell", to |-> to])
      /\ task \in [Sessions -> Task]
  BY DEF IInv, TypeOK, LoggedIn, CleanupOnDisconnect, Established, Free, Idle, screens
<1>2. OthersGoOn(s) /\ accounts' \subseteq accounts /\ doubtful \subseteq doubtful'
  BY StepsOfOne DEF Step
<1>3. task'[s].at = "farewell" /\ task'[s].to = to
  BY <1>1 DEF Goes
<1> SUFFICES ASSUME NEW x \in Sessions PROVE SessionSound(x)'
  BY DEF SessionsSound
<1>4. SessionSound(x)
  BY DEF SessionsSound
<1>5. ASSUME Established(x)', NEW v \in Users \ {auth[x]}, Undoubted(auth[x], v)'
      PROVE  Registered(auth[x])' /\ clients'[auth[x]].session = x
  <2>1. x # s /\ Established(x) /\ auth[x] \in Users
    BY <1>1, <1>2, <1>3, <1>5 DEF Established, LoggedIn, OthersGoOn
  <2>2. Undoubted(auth[x], v)
    BY <1>1, <1>2, <1>5 DEF Undoubted, Couple
  <2>3. Registered(auth[x]) /\ clients[auth[x]].session = x
    BY <1>4, <1>5, <2>1, <2>2 DEF SessionSound
  <2>4. auth[x] # u
    BY <1>1, <1>5, <2>1, <2>2, OneEstablished
  <2>5. QED
    BY <1>1, <2>3, <2>4 DEF Registered
<1>6. ASSUME Fresh(x)'
      PROVE  /\ \A w \in DOMAIN clients' : clients'[w].session # x
             /\ \A y \in Sessions : task'[y].at \in {"announce", "farewell"} => x \notin task'[y].to
             /\ \A w \in Users : pending'[x][w] = "none"
  <2>1. x # s
    BY <1>1, <1>3, <1>6, UsersAssumption DEF Fresh
  <2>2. Fresh(x)
    BY <1>1, <1>2, <1>6, <2>1 DEF Fresh, OthersGoOn
  <2>3. x \notin to
    BY <1>4, <2>2, ToldHaveEntries DEF SessionSound
  <2>4. QED
    BY <1>1, <1>2, <1>3, <1>4, <2>1, <2>2, <2>3 DEF SessionSound, OthersGoOn
<1>7. /\ task'[x].at = "register" => task'[x].online \subseteq task'[x].friends
      /\ task'[x].at = "unregister" => auth'[x] \notin accounts'
  BY <1>1, <1>2, <1>3, <1>4 DEF SessionSound, OthersGoOn
<1>8. QED
  BY <1>1, <1>5, <1>6, <1>7 DEF SessionSound

LEMMA GoneKeepsSessions ==
    ASSUME IInv, SessionsSound, NEW s \in Sessions, Farewell(s) \/ Unregister(s)
    PROVE  SessionsSound'
<1> DEFINE u == auth[s]
<1>1. /\ Gone(s) /\ u \in Users /\ task[s].at \in {"farewell", "unregister"}
      /\ DOMAIN clients' \subseteq DOMAIN clients
      /\ \A w \in DOMAIN clients' : clients'[w] = clients[w]
      /\ \A w \in DOMAIN clients : w \in DOMAIN clients' \/ (w = u /\ u \notin accounts')
  <2>1. CASE Farewell(s)
    BY <2>1 DEF IInv, TasksSound, LoggedIn, Farewell
  <2>2. CASE Unregister(s)
    BY <2>2 DEF IInv, TasksSound, LoggedIn, Unregister, SessionsSound, SessionSound, tables
  <2>3. QED
    BY <2>1, <2>2
<1>2. OthersGoOn(s) /\ accounts' \subseteq accounts /\ doubtful \subseteq doubtful'
  BY StepsOfOne DEF Step
<1>3. task'[s] = Idle /\ auth'[s] = Closed /\ Closed \notin Users /\ Closed # NoUser /\ Idle.at = "idle"
  BY <1>1, GoneLeaves, UsersAssumption DEF Idle
<1>4. ASSUME NEW x \in Sessions \ {s}, NEW w \in Users, Fresh(x)
      PROVE  pending'[x][w] = "none"
  <2>1. pending[x][w] = "none" /\ (task[s].at = "farewell" => x \notin task[s].to)
    BY <1>4 DEF SessionsSound, SessionSound
  <2>2. pending \in [Sessions -> [Users -> News]]
    BY DEF IInv, TypeOK
  <2>3. CASE Farewell(s)
    BY <1>4, <2>1, <2>2, <2>3 DEF Farewell, QueuedTo
  <2>4. CASE Unregister(s)
    BY <1>4, <2>1, <2>2, <2>4 DEF Unregister
  <2>5. QED
    BY <2>3, <2>4
<1> SUFFICES ASSUME NEW x \in Sessions PROVE SessionSound(x)'
  BY DEF SessionsSound
<1>5. SessionSound(x)
  BY DEF SessionsSound
<1>6. ASSUME Established(x)', NEW v \in Users \ {auth'[x]}, Undoubted(auth[x], v)'
      PROVE  Registered(auth[x])' /\ clients'[auth'[x]].session = x
  <2>1. x # s /\ Established(x) /\ auth[x] \in Users /\ auth'[x] = auth[x]
    BY <1>2, <1>3, <1>6 DEF Established, LoggedIn, OthersGoOn
  <2>2. Undoubted(auth[x], v) /\ auth[x] \in accounts'
    BY <1>2, <1>6, <2>1 DEF Undoubted, Couple
  <2>3. Registered(auth[x]) /\ clients[auth[x]].session = x
    BY <1>5, <1>6, <2>1, <2>2 DEF SessionSound
  <2>4. QED
    BY <1>1, <2>1, <2>2, <2>3 DEF Registered
<1>7. ASSUME Fresh(x)'
      PROVE  /\ \A w \in DOMAIN clients' : clients'[w].session # x
             /\ \A y \in Sessions : task'[y].at \in {"announce", "farewell"} => x \notin task'[y].to
             /\ \A w \in Users : pending'[x][w] = "none"
  <2>1. x # s
    BY <1>3, <1>7 DEF Fresh
  <2>2. Fresh(x)
    BY <1>2, <1>7, <2>1 DEF Fresh, OthersGoOn
  <2>3. QED
    BY <1>1, <1>2, <1>3, <1>4, <1>5, <2>1, <2>2 DEF SessionSound, OthersGoOn
<1>8. /\ task'[x].at = "register" => task'[x].online \subseteq task'[x].friends
      /\ task'[x].at = "unregister" => auth'[x] \notin accounts'
  BY <1>2, <1>3, <1>5 DEF SessionSound, OthersGoOn
<1>9. QED
  BY <1>6, <1>7, <1>8 DEF SessionSound

LEMMA SessionsKept == IInv /\ SessionsSound /\ [Next]_vars => SessionsSound'
<1> SUFFICES ASSUME IInv, SessionsSound, [Next]_vars PROVE SessionsSound'
  OBVIOUS
<1>1. CASE UNCHANGED vars
  BY <1>1 DEF vars, SessionsSound, SessionSound, Established, Fresh, LoggedIn, Undoubted, Couple,
     Registered
<1>2. ASSUME NEW s \in Sessions, Step(s) PROVE SessionsSound'
  <2>1. /\ task \in [Sessions -> Task] /\ auth \in [Sessions -> Users \cup {NoUser, Closed}]
        /\ pending \in [Sessions -> [Users -> News]] /\ Idle.at = "idle"
        /\ DOMAIN clients \subseteq Users /\ \A w \in DOMAIN clients : clients[w] \in Entry
    BY DEF IInv, TypeOK, Idle
  <2>2. CASE \/ \E u \in Users, hidden \in BOOLEAN : CmdLogin(s, u, hidden)
             \/ GetRelationships(s) \/ LookUpFriends(s)
    <3>1. /\ UNCHANGED <<clients, pending>> /\ Fresh(s)
          /\ task'[s].at \in {"relations", "flags", "register"}
          /\ task'[s].at = "register" => task'[s].online \subseteq task'[s].friends
      <4>1. CASE \E u \in Users, hidden \in BOOLEAN : CmdLogin(s, u, hidden)
        BY <2>1, <4>1 DEF CmdLogin, Goes, Fresh, screens
      <4>2. CASE GetRelationships(s)
        BY <2>1, <4>2 DEF GetRelationships, Goes, Fresh, screens
      <4>3. CASE LookUpFriends(s)
        BY <2>1, <4>3 DEF LookUpFriends, Goes, Fresh, screens
      <4>4. QED
        BY <2>2, <4>1, <4>2, <4>3
    <3>2. QED
      BY <1>2, <3>1, SessionsStay DEF Established
  <2>3. CASE \/ ReadsRow(s)
             \/ SetRelStatus(s) \/ \E v \in Users : CmdDelete(s, v)
    <3>1. /\ UNCHANGED <<clients, pending, auth>> /\ Established(s)
          /\ task'[s].at \in {"idle", "write", "caches", "leave", "unregister"}
          /\ task'[s].at = "unregister" => auth[s] \notin accounts'
      <4>1. CASE ReadsRow(s)
        BY <2>1, <4>1 DEF ReadsRow, Reads, Goes, Free, Established, screens
      <4>2. CASE SetRelStatus(s)
        BY <2>1, <4>2 DEF SetRelStatus, Goes, Established, screens, IInv, TasksSound
      <4>3. CASE \E v \in Users : CmdDelete(s, v)
        BY <2>1, <4>3 DEF CmdDelete, Goes, Free, Established, screens
      <4>4. QED
        BY <2>3, <4>1, <4>2, <4>3
    <3>2. auth[s] \in Users /\ ~Fresh(s)'
      BY <3>1, UsersAssumption DEF Established, LoggedIn, Fresh
    <3>3. QED
      BY <1>2, <3>1, <3>2, SessionsStay
  <2>4. CASE Announce(s) \/ Notify(s) \/ UpdateCaches(s)
    <3>1. auth' = auth /\ Established(s) /\ LoggedIn(s) /\ task'[s].at \in {"idle", "notify"}
      BY <2>1, <2>4 DEF Announce, Notify, UpdateCaches, Goes, Established, IInv, TasksSound
    <3>2. ~Fresh(s)'
      BY <3>1, UsersAssumption DEF LoggedIn, Fresh
    <3>3. /\ DOMAIN clients' = DOMAIN clients
          /\ \A w \in DOMAIN clients : clients'[w].session = clients[w].session
      BY <2>1, <2>4 DEF Announce, Notify, UpdateCaches, Befriend, Unfriend, Entry
    <3>4. ASSUME NEW x \in Sessions, Fresh(x), NEW u \in Users, pending[x][u] = "none"
          PROVE  pending'[x][u] = "none"
      <4>1. /\ \A w \in DOMAIN clients : clients[w].session # x
            /\ task[s].at = "announce" => x \notin task[s].to
        BY <3>4 DEF SessionsSound, SessionSound
      <4>2. CASE Announce(s)
        BY <2>1, <3>4, <4>1, <4>2 DEF Announce, QueuedTo
      <4>3. CASE Notify(s)
        BY <2>1, <3>4, <4>1, <4>3 DEF Notify, Queued, Registered
      <4>4. CASE UpdateCaches(s)
        BY <3>4, <4>4 DEF UpdateCaches, screens
      <4>5. QED
        BY <2>4, <4>2, <4>3, <4>4
    <3>5. QED
      BY <1>2, <3>1, <3>2, <3>3, <3>4, SessionsStay
  <2>5. CASE Deliver(s)
    <3>1. UNCHANGED <<clients, auth, task>> /\ task[s].at = "idle"
      BY <2>1, <2>5 DEF Deliver
    <3>2. \A x \in Sessions, u \in Users : pending[x][u] = "none" => pending'[x][u] = "none"
      BY <2>1, <2>5 DEF Deliver
    <3>3. (Established(s)' => Established(s)) /\ (Fresh(s)' => Fresh(s))
      BY <3>1 DEF Established, Fresh, LoggedIn
    <3>4. QED
      BY <1>2, <3>1, <3>2, <3>3, SessionsStay
  <2>6. QED
    BY <1>2, <2>2, <2>3, <2>4, <2>5, RegisterKeepsSessions, CleanupKeepsSessions, GoneKeepsSessions, CommandsRead DEF Step
<1>3. QED
  BY <1>1, <1>2 DEF Next

---------------------------------------------------------------------------
(* What clients show                                                       *)

\* Word of v is on its way to the session S.
Reporting(v, S) ==
    \E t \in Sessions : task[t].at \in {"announce", "farewell"} /\ auth[t] = v /\ S \in task[t].to

\* A command about u and v is past the table.
Dealing(u, v) ==
    \E s \in Sessions :
        task[s].at \in {"caches", "notify"} /\ Couple(auth[s], task[s].other) = Couple(u, v)

\* What the client of S shows of v once it has all that is queued for it.
ShowsSoon(S, v) == pending[S][v] = "online" \/ (pending[S][v] = "none" /\ v \in shown[S])

FriendThere(u, v) == Mutual(u, v) /\ Visible(v)

\* The client of S, a session of u, shows what is true of v, or is about to.
Seen(S, u, v) ==
    (ShowsSoon(S, v) <=> FriendThere(u, v)) \/ Reporting(v, S) \/ Dealing(u, v)

Has(u, S) == Registered(u) /\ clients[u].session = S

AllSeen ==
    \A S \in Sessions, u \in Users : \A v \in Users \ {u} :
        Has(u, S) /\ Undoubted(u, v) => Seen(S, u, v)

Adding(s, u, v) ==
    /\ task[s].at \in {"caches", "notify"} /\ task[s].command = "add"
    /\ auth[s] = u /\ task[s].other = v

\* Who adds a friend has the friend's request still, or has lost the own one; and
\* knows whether the friend is there, or will hear of it.
AddSound(s, u, v) ==
    Adding(s, u, v) /\ Undoubted(u, v) =>
        /\ Mutual(u, v) \/ "Friend" \notin rel[<<u, v>>]
        /\ task[s].at = "notify" /\ Mutual(u, v) /\ pending[s][v] = "none" =>
              (task[s].online <=> Visible(v)) \/ Reporting(v, s)

AddsSound == \A s \in Sessions, u \in Users : \A v \in Users \ {u} : AddSound(s, u, v)

\* Word that is on its way is so after a step of another session.
LEMMA ReportingGoesOn ==
    ASSUME NEW s \in Sessions, OthersGoOn(s), NEW v \in Users, NEW S \in Sessions,
           Reporting(v, S), LoggedIn(S)',
           task[s].at \in {"announce", "farewell"} /\ auth[s] = v => S \notin task[s].to
    PROVE  Reporting(v, S)'
<1>1. PICK t \in Sessions :
          task[t].at \in {"announce", "farewell"} /\ auth[t] = v /\ S \in task[t].to
  BY DEF Reporting
<1>2. t \in Sessions \ {s}
  BY <1>1
<1>3. task'[t].at \in {"announce", "farewell"} /\ auth'[t] = v /\ S \in task'[t].to
  BY <1>1, <1>2 DEF OthersGoOn
<1>4. QED
  BY <1>3 DEF Reporting

LEMMA DealingGoesOn ==
    ASSUME NEW s \in Sessions, OthersGoOn(s), NEW u \in Users, NEW v \in Users, Dealing(u, v),
           task[s].at \in {"caches", "notify"} => Couple(auth[s], task[s].other) # Couple(u, v)
    PROVE  Dealing(u, v)'
<1>1. PICK t \in Sessions :
          task[t].at \in {"caches", "notify"} /\ Couple(auth[t], task[t].other) = Couple(u, v)
  BY DEF Dealing
<1>2. t \in Sessions \ {s} /\ task'[t] = task[t] /\ auth'[t] = auth[t]
  BY <1>1 DEF OthersGoOn
<1>3. QED
  BY <1>1, <1>2 DEF Dealing, Couple

\* A step of s that is not about u and v, nor word of v for S.
LEMMA SeenGoesOn ==
    ASSUME NEW s \in Sessions, OthersGoOn(s),
           NEW S \in Sessions, NEW u \in Users, NEW v \in Users, Seen(S, u, v), LoggedIn(S)',
           task[s].at \in {"announce", "farewell"} /\ auth[s] = v => S \notin task[s].to,
           task[s].at \in {"caches", "notify"} => Couple(auth[s], task[s].other) # Couple(u, v),
           ShowsSoon(S, v)' <=> ShowsSoon(S, v),
           FriendThere(u, v)' <=> FriendThere(u, v)
    PROVE  Seen(S, u, v)'
<1>1. CASE Reporting(v, S)
  BY <1>1, ReportingGoesOn DEF Seen
<1>2. CASE Dealing(u, v)
  BY <1>2, DealingGoesOn DEF Seen
<1>3. QED
  BY <1>1, <1>2 DEF Seen

\* A step of s, for another session x that adds v as a friend of u: v is as it
\* was, or x is told.
LEMMA AddGoesOn ==
    ASSUME NEW s \in Sessions, OthersGoOn(s), NEW x \in Sessions \ {s}, LoggedIn(x)',
           NEW u \in Users, NEW v \in Users, AddSound(x, u, v), Undoubted(u, v),
           rel'[<<u, v>>] = rel[<<u, v>>], rel'[<<v, u>>] = rel[<<v, u>>],
           task[x].at = "notify" /\ Mutual(u, v) /\ pending'[x][v] = "none" =>
              \/ Reporting(v, x)'
              \/ /\ pending[x][v] = "none" /\ (Visible(v)' <=> Visible(v))
                 /\ task[s].at \in {"announce", "farewell"} /\ auth[s] = v => x \notin task[s].to
    PROVE  AddSound(x, u, v)'
<1> SUFFICES ASSUME Adding(x, u, v)', Undoubted(u, v)'
             PROVE  /\ (Mutual(u, v) \/ "Friend" \notin rel[<<u, v>>])'
                    /\ task'[x].at = "notify" /\ Mutual(u, v)' /\ pending'[x][v] = "none" =>
                          (task'[x].online <=> Visible(v)') \/ Reporting(v, x)'
  BY DEF AddSound
<1>1. task'[x] = task[x] /\ auth'[x] = auth[x] /\ Adding(x, u, v) /\ (Mutual(u, v)' <=> Mutual(u, v))
  BY DEF Adding, OthersGoOn, Mutual
<1>2. Mutual(u, v) \/ "Friend" \notin rel[<<u, v>>]
  BY <1>1 DEF AddSound
<1>3. ASSUME task[x].at = "notify", Mutual(u, v), pending'[x][v] = "none", ~Reporting(v, x)'
      PROVE  task[x].online <=> Visible(v)'
  BY <1>1, <1>3, ReportingGoesOn DEF AddSound
<1>4. QED
  BY <1>1, <1>2, <1>3

\* What a step of s has to leave true.
LEMMA ScreensOfStep ==
    ASSUME IInv, AllSeen, AddsSound, NEW s \in Sessions, Step(s),
           task'[s].at \in {"caches", "notify"} =>
              \A u \in Users : \A v \in Users \ {u} : AddSound(s, u, v)',
           \A S \in Sessions, u \in Users : \A v \in Users \ {u} :
              /\ Has(u, S)' /\ auth'[S] = u /\ LoggedIn(S)' /\ Undoubted(u, v)' /\ Undoubted(u, v)
                   => Seen(S, u, v)'
              /\ S # s /\ Adding(S, u, v) /\ AddSound(S, u, v) /\ auth'[S] = u /\ LoggedIn(S)'
                   /\ Undoubted(u, v)' /\ Undoubted(u, v) => AddSound(S, u, v)'
    PROVE  AllSeen' /\ AddsSound'
<1>1. IInv' /\ OthersGoOn(s) /\ accounts' \subseteq accounts /\ doubtful \subseteq doubtful'
  BY NextKeeps, StepsOfOne DEF Next
<1>2. ASSUME NEW S \in Sessions, NEW u \in Users, NEW v \in Users \ {u}, Has(u, S)', Undoubted(u, v)'
      PROVE  Seen(S, u, v)'
  <2>1. Undoubted(u, v)
    BY <1>1, <1>2 DEF Undoubted, Couple
  <2>2. auth'[S] = u /\ LoggedIn(S)'
    BY <1>1, <1>2 DEF IInv, EntryIsConnected, Has, Registered, LoggedIn
  <2>3. QED
    BY <1>2, <2>1, <2>2
<1>3. ASSUME NEW x \in Sessions, NEW u \in Users, NEW v \in Users \ {u}, Adding(x, u, v)',
             Undoubted(u, v)'
      PROVE  AddSound(x, u, v)'
  <2>1. CASE x = s
    BY <1>3, <2>1 DEF Adding
  <2>2. CASE x # s
    <3>1. Undoubted(u, v)
      BY <1>1, <1>3 DEF Undoubted, Couple
    <3>2. Adding(x, u, v) /\ auth'[x] = u /\ LoggedIn(x)'
      BY <1>1, <1>3, <2>2 DEF Adding, OthersGoOn, LoggedIn
    <3>3. QED
      BY <1>3, <2>2, <3>1, <3>2 DEF AddsSound
  <2>3. QED
    BY <2>1, <2>2
<1>4. QED
  BY <1>2, <1>3 DEF AllSeen, AddsSound, AddSound

\* A step of s that leaves the entries, and what there is to tell others; rows go
\* with accounts only.
LEMMA ScreensStand ==
    ASSUME IInv, AllSeen, AddsSound, NEW s \in Sessions, Step(s),
           clients' = clients,
           \A p \in Pairs : {p[1], p[2]} \subseteq accounts' => rel'[p] = rel[p],
           \A S \in Sessions, v \in Users : ShowsSoon(S, v)' <=> ShowsSoon(S, v),
           \A S \in Sessions \ {s} : pending'[S] = pending[S],
           task[s].at \notin {"announce", "farewell", "caches", "notify"},
           task'[s].at \notin {"caches", "notify"}
    PROVE  AllSeen' /\ AddsSound'
<1>1. OthersGoOn(s)
  BY StepsOfOne
<1>2. ASSUME NEW u \in Users, NEW v \in Users \ {u}, Undoubted(u, v)'
      PROVE  /\ rel'[<<u, v>>] = rel[<<u, v>>] /\ rel'[<<v, u>>] = rel[<<v, u>>]
             /\ FriendThere(u, v)' <=> FriendThere(u, v)
  <2>1. <<u, v>> \in Pairs /\ <<v, u>> \in Pairs /\ {u, v} \subseteq accounts'
    BY <1>2 DEF Pairs, Undoubted
  <2>2. rel'[<<u, v>>] = rel[<<u, v>>] /\ rel'[<<v, u>>] = rel[<<v, u>>]
    BY <2>1
  <2>3. QED
    BY <2>2 DEF FriendThere, Mutual, Visible, Registered
<1>3. ASSUME NEW S \in Sessions, NEW u \in Users, NEW v \in Users \ {u},
             Has(u, S)', LoggedIn(S)', Undoubted(u, v)', Undoubted(u, v)
      PROVE  Seen(S, u, v)'
  <2>1. Seen(S, u, v)
    BY <1>3 DEF AllSeen, Has, Registered
  <2>2. QED
    BY <1>1, <1>2, <1>3, <2>1, SeenGoesOn
<1>4. ASSUME NEW x \in Sessions \ {s}, NEW u \in Users, NEW v \in Users \ {u}, AddSound(x, u, v),
             LoggedIn(x)', Undoubted(u, v)', Undoubted(u, v)
      PROVE  AddSound(x, u, v)'
  <2>1. pending'[x] = pending[x] /\ (Visible(v)' <=> Visible(v))
    BY <1>4 DEF Visible, Registered
  <2>2. QED
    BY <1>1, <1>2, <1>4, <2>1, AddGoesOn
<1>5. QED
  BY <1>3, <1>4, ScreensOfStep

\* A row that is written over what was read: the other side's friendship is not
\* made, and what is left of it is answered as before.
LEMMA TheirsFollow ==
    ASSUME NEW command \in Commands, NEW row \in Row
    PROVE  LET new == NewRow(command, row)
           IN  "Friend" \in new.theirs =>
                  "Friend" \in row.theirs /\ ("Friend" \in row.mine => "Friend" \in new.mine)
<1>1. CASE command = "add"
  BY <1>1 DEF NewRow, Add, Row
<1>2. CASE command = "remove"
  BY <1>2 DEF NewRow, Remove, Row
<1>3. CASE command = "block"
  BY <1>3 DEF NewRow, Block, Row
<1>4. CASE command = "unblock"
  BY <1>4 DEF NewRow, Unblock, Row
<1>5. QED
  BY <1>1, <1>2, <1>3, <1>4 DEF Commands

\* What SetRelStatus does to the rows of two users whose couple is not in doubt.
LEMMA WriteFacts ==
    ASSUME IInv, NEW s \in Sessions, SetRelStatus(s),
           NEW w \in Users, NEW x \in Users \ {w}, Undoubted(w, x)'
    PROVE  LET u == auth[s]
               t == task[s]
               v == t.other
               new == NewRow(t.command, t.read)
           IN  /\ UNCHANGED <<accounts, clients, auth, pending, shown>>
               /\ t.at = "write" /\ t.command \in Commands /\ t.read \in Row
               /\ task'[s].at \in {"idle", "caches"}
               /\ task'[s].at = "caches" =>
                     task'[s].command = t.command /\ task'[s].other = v
               /\ \/ /\ rel'[<<w, x>>] = rel[<<w, x>>] /\ rel'[<<x, w>>] = rel[<<x, w>>]
                     /\ Couple(u, v) = Couple(w, x) => task'[s].at # "caches"
                  \/ /\ Couple(u, v) = Couple(w, x) /\ u # v
                     /\ t.read = RowOf(u, v)
                     /\ rel'[<<u, v>>] = new.mine /\ rel'[<<v, u>>] = new.theirs
                     /\ task'[s].at = "caches" <=> TouchesCaches(t.command, t.read)
<1> DEFINE u == auth[s]
           t == task[s]
           v == t.other
           new == NewRow(t.command, t.read)
<1>1. /\ t \in Task /\ t.at = "write" /\ u \in Users /\ v \in Users
      /\ t.command \in Commands /\ t.read \in Row
      /\ UNCHANGED <<accounts, clients, auth, pending, shown>>
      /\ rel \in [Pairs -> SUBSET Flags] /\ task \in [Sessions -> Task]
  BY TaskHolds DEF IInv, TypeOK, TasksSound, LoggedIn, SetRelStatus, screens
<1>2. CASE Goes(s, Idle) /\ UNCHANGED rel
  BY <1>1, <1>2 DEF Goes, Idle
<1>3. CASE /\ rel' = [rel EXCEPT ![<<u, v>>] = new.mine, ![<<v, u>>] = new.theirs]
           /\ Doubts(u, IF t.read # RowOf(u, v) THEN {v} ELSE {})
           /\ Goes(s, IF TouchesCaches(t.command, t.read)
                      THEN [at |-> "caches", command |-> t.command, other |-> v]
                      ELSE Idle)
  <2>1. /\ task'[s].at = "caches" <=> TouchesCaches(t.command, t.read)
        /\ task'[s].at \in {"idle", "caches"}
        /\ task'[s].at = "caches" => task'[s].command = t.command /\ task'[s].other = v
    BY <1>1, <1>3 DEF Goes, Idle
  <2>2. CASE Couple(u, v) = Couple(w, x)
    <3>1. u # v /\ ((w = u /\ x = v) \/ (w = v /\ x = u))
      BY <2>2, SameCouple
    <3>2. Couple(u, v) \notin doubtful'
      BY <2>2 DEF Undoubted, Couple
    <3>3. t.read = RowOf(u, v)
      BY <1>3, <3>1, <3>2, DoubtAbout
    <3>4. <<u, v>> \in Pairs /\ <<v, u>> \in Pairs /\ <<u, v>> # <<v, u>>
      BY <1>1, <3>1 DEF Pairs
    <3>5. rel'[<<u, v>>] = new.mine /\ rel'[<<v, u>>] = new.theirs
      BY <1>1, <1>3, <3>4
    <3>6. QED
      BY <1>1, <2>1, <2>2, <3>1, <3>3, <3>5
  <2>3. CASE Couple(u, v) # Couple(w, x)
    <3>1. /\ <<w, x>> \in Pairs \ {<<u, v>>, <<v, u>>}
          /\ <<x, w>> \in Pairs \ {<<u, v>>, <<v, u>>}
      BY <2>3 DEF Pairs, Couple
    <3>2. rel'[<<w, x>>] = rel[<<w, x>>] /\ rel'[<<x, w>>] = rel[<<x, w>>]
      BY <1>1, <1>3, <3>1
    <3>3. QED
      BY <1>1, <2>1, <2>3, <3>2
  <2>4. QED
    BY <2>2, <2>3
<1>4. QED
  BY <1>2, <1>3 DEF SetRelStatus

LEMMA WriteKeepsScreens ==
    ASSUME IInv, SessionsSound, AllSeen, AddsSound, NEW s \in Sessions, SetRelStatus(s)
    PROVE  AllSeen' /\ AddsSound'
<1> DEFINE t == task[s]
           new == NewRow(t.command, t.read)
<1>1. OthersGoOn(s) /\ t.at = "write" /\ auth[s] \in Users
  BY StepsOfOne DEF Step, SetRelStatus, IInv, TasksSound, LoggedIn
<1>2. ASSUME NEW S \in Sessions, NEW u \in Users, NEW v \in Users \ {u},
             Has(u, S)', LoggedIn(S)', Undoubted(u, v)', Undoubted(u, v)
      PROVE  Seen(S, u, v)'
  <2>1. UNCHANGED <<clients, auth, pending, shown>> /\ (ShowsSoon(S, v)' <=> ShowsSoon(S, v))
    BY <1>2, WriteFacts DEF ShowsSoon
  <2>2. Seen(S, u, v) /\ (Visible(v)' <=> Visible(v))
    BY <1>2, <2>1 DEF AllSeen, Has, Registered, Visible
  <2>3. CASE Mutual(u, v)' <=> Mutual(u, v)
    BY <1>1, <1>2, <2>1, <2>2, <2>3, SeenGoesOn DEF FriendThere
  <2>4. CASE ~(Mutual(u, v)' <=> Mutual(u, v))
    <3>1. ~(rel'[<<u, v>>] = rel[<<u, v>>] /\ rel'[<<v, u>>] = rel[<<v, u>>])
      BY <2>4 DEF Mutual
    <3>2. /\ Couple(auth[s], t.other) = Couple(u, v) /\ auth[s] # t.other
          /\ t.read = RowOf(auth[s], t.other) /\ t.command \in Commands /\ t.read \in Row
          /\ rel'[<<auth[s], t.other>>] = new.mine /\ rel'[<<t.other, auth[s]>>] = new.theirs
          /\ task'[s].at = "caches" <=> TouchesCaches(t.command, t.read)
          /\ task'[s].at = "caches" => task'[s].other = t.other
      BY <1>2, <3>1, WriteFacts
    <3>3. TouchesCaches(t.command, t.read)
      <4>1. (u = auth[s] /\ v = t.other) \/ (v = auth[s] /\ u = t.other)
        BY <3>2, SameCouple
      <4>2. ("Friend" \in new.mine /\ "Friend" \in new.theirs <=> Mutual(u, v)')
        BY <3>2, <4>1 DEF Mutual
      <4>3. ("Friend" \in t.read.mine /\ "Friend" \in t.read.theirs <=> Mutual(u, v))
        BY <3>2, <4>1 DEF Mutual, RowOf
      <4>4. QED
        BY <2>4, <3>2, <4>2, <4>3, UntouchedCaches
    <3>4. task'[s].at = "caches" /\ task'[s].other = t.other /\ auth'[s] = auth[s]
      BY <2>1, <3>2, <3>3
    <3>5. QED
      BY <3>2, <3>4 DEF Seen, Dealing, Couple
  <2>5. QED
    BY <2>3, <2>4
<1>3. ASSUME NEW x \in Sessions \ {s}, NEW u \in Users, NEW v \in Users \ {u}, AddSound(x, u, v),
             Adding(x, u, v), LoggedIn(x)', Undoubted(u, v)', Undoubted(u, v)
      PROVE  AddSound(x, u, v)'
  <2>1. /\ UNCHANGED <<clients, auth, pending, shown>> /\ (Visible(v)' <=> Visible(v))
        /\ task'[x] = task[x]
    BY <1>1, <1>3, WriteFacts DEF Visible, Registered, OthersGoOn, Adding
  <2>2. CASE rel'[<<u, v>>] = rel[<<u, v>>] /\ rel'[<<v, u>>] = rel[<<v, u>>]
    BY <1>1, <1>3, <2>1, <2>2, AddGoesOn
  <2>3. CASE ~(rel'[<<u, v>>] = rel[<<u, v>>] /\ rel'[<<v, u>>] = rel[<<v, u>>])
    <3>1. /\ Couple(auth[s], t.other) = Couple(u, v) /\ auth[s] # t.other
          /\ t.read = RowOf(auth[s], t.other) /\ t.command \in Commands /\ t.read \in Row
          /\ rel'[<<auth[s], t.other>>] = new.mine /\ rel'[<<t.other, auth[s]>>] = new.theirs
      BY <1>3, <2>3, WriteFacts
    <3>2. auth[s] # u
      BY <1>1, <1>3, OneEstablished DEF Established, LoggedIn, Adding
    <3>3. auth[s] = v /\ t.other = u
      BY <3>1, <3>2, SameCouple
    <3>4. /\ rel'[<<v, u>>] = new.mine /\ rel'[<<u, v>>] = new.theirs
          /\ t.read.mine = rel[<<v, u>>] /\ t.read.theirs = rel[<<u, v>>]
      BY <3>1, <3>3 DEF RowOf
    <3>5. "Friend" \in rel'[<<u, v>>] =>
              "Friend" \in rel[<<u, v>>] /\ ("Friend" \in rel[<<v, u>>] => "Friend" \in rel'[<<v, u>>])
      BY <3>1, <3>4, TheirsFollow
    <3>6. Mutual(u, v) \/ "Friend" \notin rel[<<u, v>>]
      BY <1>3 DEF AddSound
    <3>7. (Mutual(u, v)' => Mutual(u, v)) /\ (Mutual(u, v)' \/ "Friend" \notin rel'[<<u, v>>])
      BY <3>5, <3>6 DEF Mutual
    <3>8. Reporting(v, x) => Reporting(v, x)'
      BY <1>1, <1>3, ReportingGoesOn
    <3>9. QED
      BY <1>3, <2>1, <3>7, <3>8 DEF AddSound
  <2>4. QED
    BY <2>2, <2>3
<1>4. ASSUME task'[s].at \in {"caches", "notify"}, NEW u \in Users, NEW v \in Users \ {u}
      PROVE  AddSound(s, u, v)'
  <2> SUFFICES ASSUME Adding(s, u, v)', Undoubted(u, v)'
               PROVE  Mutual(u, v)' /\ task'[s].at = "caches"
    BY DEF AddSound
  <2>1. /\ auth' = auth /\ task'[s].at = "caches" /\ task'[s].command = t.command
        /\ t.command = "add" /\ t.other = v /\ auth[s] = u /\ t.read \in Row
    BY <1>4, WriteFacts DEF Adding
  <2>2. /\ TouchesCaches(t.command, t.read)
        /\ rel'[<<u, v>>] = new.mine /\ rel'[<<v, u>>] = new.theirs
    BY <2>1, WriteFacts
  <2>3. "Friend" \in new.mine /\ "Friend" \in new.theirs
    BY <2>1, <2>2 DEF TouchesCaches, NewRow, Add, Row
  <2>4. QED
    BY <2>1, <2>2, <2>3 DEF Mutual
<1>5. QED
  BY <1>2, <1>3, <1>4, ScreensOfStep DEF Step

LEMMA UpdateKeepsScreens ==
    ASSUME IInv, AllSeen, AddsSound, NEW s \in Sessions, UpdateCaches(s)
    PROVE  AllSeen' /\ AddsSound'
<1> DEFINE y == task[s].other
           command == task[s].command
<1>1. /\ OthersGoOn(s) /\ task[s].at = "caches" /\ auth[s] \in Users /\ y \in Users
      /\ UNCHANGED <<rel, auth, pending, shown>>
      /\ task'[s] = [at |-> "notify", command |-> command, other |-> y, online |-> Registered(y)]
      /\ Doubts(auth[s], IF (command = "add" /\ Hides(y)) \/ Mutual(auth[s], y) # (command = "add")
                         THEN {y} ELSE {})
  BY StepsOfOne, TaskHolds
     DEF Step, UpdateCaches, IInv, TypeOK, TasksSound, LoggedIn, tables, screens, Goes
<1>2. /\ DOMAIN clients' = DOMAIN clients
      /\ \A w \in DOMAIN clients : /\ clients'[w].session = clients[w].session
                                   /\ clients'[w].hidden = clients[w].hidden
  BY DEF UpdateCaches, Befriend, Unfriend, Entry, IInv, TypeOK
<1>3. \A v \in Users : Visible(v)' <=> Visible(v)
  BY <1>2 DEF Visible, Registered
<1>4. ASSUME NEW S \in Sessions, NEW u \in Users, NEW v \in Users \ {u},
             Has(u, S)', LoggedIn(S)', Undoubted(u, v)', Undoubted(u, v)
      PROVE  Seen(S, u, v)'
  <2>1. CASE Couple(auth[s], y) = Couple(u, v)
    <3>1. task'[s].at = "notify" /\ task'[s].other = y /\ auth'[s] = auth[s]
      BY <1>1
    <3>2. QED
      BY <2>1, <3>1 DEF Seen, Dealing, Couple
  <2>2. CASE Couple(auth[s], y) # Couple(u, v)
    <3>1. Seen(S, u, v)
      BY <1>2, <1>4 DEF AllSeen, Has, Registered
    <3>2. (ShowsSoon(S, v)' <=> ShowsSoon(S, v)) /\ (FriendThere(u, v)' <=> FriendThere(u, v))
      BY <1>1, <1>3 DEF ShowsSoon, FriendThere, Mutual
    <3>3. QED
      BY <1>1, <1>4, <2>2, <3>1, <3>2, SeenGoesOn
  <2>3. QED
    BY <2>1, <2>2
<1>5. ASSUME NEW x \in Sessions \ {s}, NEW u \in Users, NEW v \in Users \ {u}, AddSound(x, u, v),
             LoggedIn(x)', Undoubted(u, v)', Undoubted(u, v)
      PROVE  AddSound(x, u, v)'
  BY <1>1, <1>3, <1>5, AddGoesOn
<1>6. ASSUME NEW u \in Users, NEW v \in Users \ {u}, AddSound(s, u, v), Adding(s, u, v)',
             Undoubted(u, v)', Undoubted(u, v)
      PROVE  AddSound(s, u, v)'
  <2>1. Adding(s, u, v) /\ y = v /\ auth[s] = u /\ command = "add"
    BY <1>1, <1>6 DEF Adding
  <2>2. Couple(u, v) \notin doubtful'
    BY <1>6 DEF Undoubted, Couple
  <2>3. ~Hides(v)
    BY <1>1, <2>1, <2>2, DoubtAbout
  <2>4. task'[s].online <=> Visible(v)
    BY <1>1, <2>1, <2>3 DEF Hides, Visible
  <2>5. (Mutual(u, v) \/ "Friend" \notin rel[<<u, v>>])'
    BY <1>1, <1>6, <2>1 DEF AddSound, Mutual
  <2>6. QED
    BY <1>3, <2>4, <2>5 DEF AddSound
<1>7. UNCHANGED accounts /\ doubtful \subseteq doubtful'
  BY DEF UpdateCaches, Doubts, tables
<1>8. ASSUME NEW u \in Users, NEW v \in Users \ {u} PROVE AddSound(s, u, v)'
  <2>1. SUFFICES ASSUME Adding(s, u, v)', Undoubted(u, v)' PROVE AddSound(s, u, v)'
    BY DEF AddSound
  <2>2. Undoubted(u, v) /\ AddSound(s, u, v)
    BY <1>7, <2>1 DEF Undoubted, Couple, AddsSound
  <2>3. QED
    BY <1>6, <2>1, <2>2
<1>9. QED
  BY <1>4, <1>5, <1>8, ScreensOfStep DEF Step

LEMMA NotifyKeepsScreens ==
    ASSUME IInv, SessionsSound, AllSeen, AddsSound, NEW s \in Sessions, Notify(s)
    PROVE  AllSeen' /\ AddsSound'
<1> DEFINE y == task[s].other
           new == task[s].command = "add"
           doubt == \/ Mutual(auth[s], y) # new
                    \/ pending[s][y] # "none"
                    \/ (new /\ Hides(auth[s]))
<1>1. /\ OthersGoOn(s) /\ task[s].at = "notify" /\ auth[s] \in Users /\ y \in Users
      /\ UNCHANGED <<rel, clients, auth>> /\ task'[s].at = "idle"
      /\ shown' = [shown EXCEPT ![s] = IF new /\ task[s].online THEN @ \cup {y} ELSE @ \ {y}]
      /\ pending' = IF Registered(y)
                    THEN Queued(clients[y].session, auth[s], IF new THEN "online" ELSE "offline")
                    ELSE pending
      /\ Doubts(auth[s], IF doubt THEN {y} ELSE {})
  BY StepsOfOne, TaskHolds
     DEF Step, Notify, IInv, TypeOK, TasksSound, LoggedIn, tables, Goes, Idle
<1>2. /\ shown \in [Sessions -> SUBSET Users] /\ pending \in [Sessions -> [Users -> News]]
      /\ \A w \in DOMAIN clients : clients[w].session \in Sessions /\ auth[clients[w].session] = w
  BY DEF IInv, TypeOK, EntryIsConnected, Entry
<1>3. ASSUME NEW v \in Users PROVE Visible(v)' <=> Visible(v)
  BY <1>1 DEF Visible, Registered
<1>4. ASSUME NEW S \in Sessions, NEW v \in Users, ~(S = s /\ v = y),
             ~(Has(y, S) /\ v = auth[s])
      PROVE  pending'[S][v] = pending[S][v] /\ (ShowsSoon(S, v)' <=> ShowsSoon(S, v))
  <2>1. pending'[S][v] = pending[S][v]
    BY <1>1, <1>2, <1>4 DEF Queued, Has
  <2>2. v \in shown'[S] <=> v \in shown[S]
    BY <1>1, <1>2, <1>4
  <2>3. QED
    BY <2>1, <2>2 DEF ShowsSoon
<1>5. ASSUME NEW S \in Sessions, NEW u \in Users, NEW v \in Users \ {u},
             Has(u, S)', LoggedIn(S)', Undoubted(u, v)', Undoubted(u, v)
      PROVE  Seen(S, u, v)'
  <2>1. Has(u, S) /\ auth[S] = u
    BY <1>1, <1>2, <1>5 DEF Has, Registered
  <2>2. CASE Couple(auth[s], y) # Couple(u, v)
    <3>1. ~(S = s /\ v = y) /\ ~(Has(y, S) /\ v = auth[s])
      BY <1>1, <1>2, <2>1, <2>2 DEF Couple, Has, Registered
    <3>2. FriendThere(u, v)' <=> FriendThere(u, v)
      BY <1>1, <1>3 DEF FriendThere, Mutual
    <3>3. QED
      BY <1>1, <1>4, <1>5, <2>1, <2>2, <3>1, <3>2, SeenGoesOn DEF AllSeen
  <2>3. CASE Couple(auth[s], y) = Couple(u, v)
    <3>1. (u = auth[s] /\ v = y) \/ (v = auth[s] /\ u = y)
      BY <2>3, SameCouple
    <3>2. Couple(auth[s], y) \notin doubtful' /\ auth[s] # y /\ Undoubted(auth[s], y)
      BY <1>5, <2>3, <3>1 DEF Undoubted, Couple
    <3>3. ~doubt
      BY <1>1, <3>2, DoubtAbout
    <3>4. /\ Mutual(u, v) <=> new
          /\ pending[s][y] = "none" /\ (new => ~Hides(auth[s]))
      BY <3>1, <3>3 DEF Mutual
    <3>5. Has(auth[s], s)
      BY <1>1, <3>2 DEF SessionsSound, SessionSound, Established, LoggedIn, Has
    <3>6. CASE u = auth[s] /\ v = y
      <4>1. S = s
        BY <2>1, <3>5, <3>6 DEF Has
      <4>2. pending'[s][v] = "none"
        BY <1>1, <1>2, <3>4, <3>6 DEF Queued, Registered
      <4>3. ShowsSoon(s, v)' <=> new /\ task[s].online
        BY <1>1, <1>2, <3>6, <4>2 DEF ShowsSoon
      <4>4. CASE ~new
        BY <1>1, <3>4, <4>1, <4>3, <4>4 DEF Seen, FriendThere, Mutual
      <4>5. CASE new
        <5>1. Adding(s, u, v) /\ AddSound(s, u, v)
          BY <1>1, <3>6, <4>5 DEF Adding, AddsSound
        <5>2. (task[s].online <=> Visible(v)) \/ Reporting(v, s)
          BY <1>1, <1>5, <3>4, <3>6, <4>5, <5>1 DEF AddSound
        <5>3. CASE Reporting(v, s)
          BY <1>1, <1>5, <4>1, <5>3, ReportingGoesOn DEF Seen
        <5>4. CASE task[s].online <=> Visible(v)
          BY <1>1, <1>3, <3>4, <4>1, <4>3, <4>5, <5>4 DEF Seen, FriendThere, Mutual
        <5>5. QED
          BY <5>2, <5>3, <5>4
      <4>6. QED
        BY <4>4, <4>5
    <3>7. CASE v = auth[s] /\ u = y
      <4>1. Registered(y) /\ clients[y].session = S
        BY <2>1, <3>7 DEF Has
      <4>2. pending'[S][v] = IF new THEN "online" ELSE "offline"
        BY <1>1, <1>2, <3>7, <4>1 DEF Queued
      <4>3. new => Visible(v)
        BY <3>4, <3>5, <3>7 DEF Has, Hides, Visible
      <4>4. (ShowsSoon(S, v) <=> FriendThere(u, v))'
        BY <1>1, <1>3, <3>4, <4>2, <4>3 DEF ShowsSoon, FriendThere, Mutual
      <4>5. QED
        BY <4>4 DEF Seen
    <3>8. QED
      BY <3>1, <3>6, <3>7
  <2>4. QED
    BY <2>2, <2>3
<1>6. ASSUME NEW x \in Sessions \ {s}, NEW u \in Users, NEW v \in Users \ {u}, AddSound(x, u, v),
             LoggedIn(x)', Undoubted(u, v)', Undoubted(u, v)
      PROVE  AddSound(x, u, v)'
  <2>1. pending'[x][v] = "none" => pending[x][v] = "none"
    BY <1>1, <1>2 DEF Queued
  <2>2. QED
    BY <1>1, <1>3, <1>6, <2>1, AddGoesOn
<1>7. QED
  BY <1>1, <1>5, <1>6, ScreensOfStep DEF Step

LEMMA AnnounceKeepsScreens ==
    ASSUME IInv, AllSeen, AddsSound, NEW s \in Sessions, Announce(s)
    PROVE  AllSeen' /\ AddsSound'
<1> DEFINE y == auth[s]
           to == task[s].to
           W == {auth[t] : t \in {x \in to : ~Visible(y) \/ ~Mutual(y, auth[x])}}
<1>1. /\ OthersGoOn(s) /\ task[s].at = "announce" /\ y \in Users
      /\ UNCHANGED <<rel, clients, auth, shown>> /\ task'[s].at = "idle"
      /\ pending' = QueuedTo(to, y, "online") /\ Doubts(y, W)
      /\ pending \in [Sessions -> [Users -> News]]
  BY StepsOfOne DEF Step, Announce, IInv, TypeOK, TasksSound, LoggedIn, tables, Goes, Idle
<1>2. ASSUME NEW u \in Users, NEW v \in Users
      PROVE  (Visible(v)' <=> Visible(v)) /\ (FriendThere(u, v)' <=> FriendThere(u, v))
  BY <1>1 DEF Visible, Registered, FriendThere, Mutual
<1>3. ASSUME NEW S \in Sessions, NEW v \in Users, ~(S \in to /\ v = y)
      PROVE  pending'[S][v] = pending[S][v]
  BY <1>1, <1>3 DEF QueuedTo
<1>4. ASSUME NEW S \in Sessions, S \in to
      PROVE  pending'[S][y] = "online"
  BY <1>1, <1>4 DEF QueuedTo
<1>5. ASSUME NEW S \in Sessions, NEW u \in Users, NEW v \in Users \ {u},
             Has(u, S)', auth'[S] = u, LoggedIn(S)', Undoubted(u, v)', Undoubted(u, v)
      PROVE  Seen(S, u, v)'
  <2>1. CASE S \in to /\ v = y
    <3>1. Couple(y, u) \notin doubtful' /\ y # u
      BY <1>5, <2>1 DEF Undoubted, Couple
    <3>2. u \notin W
      <4> HIDE DEF W
      <4> QED
        BY <1>1, <3>1, DoubtAbout
    <3>3. Visible(y) /\ Mutual(y, u)
      BY <1>1, <1>5, <2>1, <3>2
    <3>4. ShowsSoon(S, v)' /\ FriendThere(u, v)'
      BY <1>2, <1>4, <2>1, <3>3 DEF ShowsSoon, FriendThere, Mutual
    <3>5. QED
      BY <3>4 DEF Seen
  <2>2. CASE ~(S \in to /\ v = y)
    <3>1. Seen(S, u, v)
      BY <1>1, <1>5 DEF AllSeen, Has, Registered
    <3>2. ShowsSoon(S, v)' <=> ShowsSoon(S, v)
      BY <1>1, <1>3, <2>2 DEF ShowsSoon
    <3>3. QED
      BY <1>1, <1>2, <1>5, <2>2, <3>1, <3>2, SeenGoesOn
  <2>3. QED
    BY <2>1, <2>2
<1>6. ASSUME NEW x \in Sessions \ {s}, NEW u \in Users, NEW v \in Users \ {u}, AddSound(x, u, v),
             LoggedIn(x)', Undoubted(u, v)', Undoubted(u, v)
      PROVE  AddSound(x, u, v)'
  <2>1. CASE x \in to /\ v = y
    BY <1>1, <1>4, <1>6, <2>1, AddGoesOn
  <2>2. CASE ~(x \in to /\ v = y)
    BY <1>1, <1>2, <1>3, <1>6, <2>2, AddGoesOn
  <2>3. QED
    BY <2>1, <2>2
<1>7. QED
  BY <1>1, <1>5, <1>6, ScreensOfStep DEF Step

LEMMA FarewellKeepsScreens ==
    ASSUME IInv, AllSeen, AddsSound, NEW s \in Sessions, Farewell(s)
    PROVE  AllSeen' /\ AddsSound'
<1> DEFINE y == auth[s]
           to == task[s].to
           W == IF Visible(y) THEN {auth[t] : t \in to} ELSE {}
<1>1. /\ OthersGoOn(s) /\ task[s].at = "farewell" /\ y \in Users
      /\ UNCHANGED <<rel, clients>> /\ Gone(s) /\ Doubts(y, W)
      /\ pending' = [QueuedTo(to, y, "offline") EXCEPT ![s] = [w \in Users |-> "none"]]
      /\ pending \in [Sessions -> [Users -> News]] /\ shown \in [Sessions -> SUBSET Users]
      /\ \A w \in DOMAIN clients : clients[w].session # s
  BY StepsOfOne DEF Step, Farewell, IInv, TypeOK, TasksSound, LoggedIn, tables
<1>2. /\ \A S \in Sessions \ {s} : auth'[S] = auth[S] /\ shown'[S] = shown[S]
      /\ task'[s].at = "idle"
  BY <1>1, GoneLeaves DEF Gone, Idle, IInv, TypeOK
<1>3. ASSUME NEW u \in Users, NEW v \in Users
      PROVE  (Visible(v)' <=> Visible(v)) /\ (FriendThere(u, v)' <=> FriendThere(u, v))
  BY <1>1 DEF Visible, Registered, FriendThere, Mutual
<1>4. ASSUME NEW S \in Sessions \ {s}, NEW v \in Users, ~(S \in to /\ v = y)
      PROVE  pending'[S][v] = pending[S][v]
  BY <1>1, <1>4 DEF QueuedTo
<1>5. ASSUME NEW S \in Sessions \ {s}, S \in to
      PROVE  pending'[S][y] = "offline"
  BY <1>1, <1>5 DEF QueuedTo
<1>6. ASSUME NEW S \in Sessions, NEW u \in Users, NEW v \in Users \ {u},
             Has(u, S)', auth'[S] = u, LoggedIn(S)', Undoubted(u, v)', Undoubted(u, v)
      PROVE  Seen(S, u, v)'
  <2>1. Has(u, S) /\ S # s /\ auth[S] = u
    BY <1>1, <1>2, <1>6 DEF Has, Registered
  <2>2. CASE S \in to /\ v = y
    <3>1. Couple(y, u) \notin doubtful' /\ y # u
      BY <1>6, <2>2 DEF Undoubted, Couple
    <3>2. u \notin W
      <4> HIDE DEF W
      <4> QED
        BY <1>1, <3>1, DoubtAbout
    <3>3. ~Visible(y)
      BY <2>1, <2>2, <3>2
    <3>4. ~ShowsSoon(S, v)' /\ ~FriendThere(u, v)'
      BY <1>3, <1>5, <2>1, <2>2, <3>3 DEF ShowsSoon, FriendThere
    <3>5. QED
      BY <3>4 DEF Seen
  <2>3. CASE ~(S \in to /\ v = y)
    <3>1. Seen(S, u, v)
      BY <1>6, <2>1 DEF AllSeen
    <3>2. ShowsSoon(S, v)' <=> ShowsSoon(S, v)
      BY <1>2, <1>4, <2>1, <2>3 DEF ShowsSoon
    <3>3. QED
      BY <1>1, <1>3, <1>6, <2>3, <3>1, <3>2, SeenGoesOn
  <2>4. QED
    BY <2>2, <2>3
<1>7. ASSUME NEW x \in Sessions \ {s}, NEW u \in Users, NEW v \in Users \ {u}, AddSound(x, u, v),
             LoggedIn(x)', Undoubted(u, v)', Undoubted(u, v)
      PROVE  AddSound(x, u, v)'
  <2>1. CASE x \in to /\ v = y
    BY <1>1, <1>5, <1>7, <2>1, AddGoesOn
  <2>2. CASE ~(x \in to /\ v = y)
    BY <1>1, <1>3, <1>4, <1>7, <2>2, AddGoesOn
  <2>3. QED
    BY <2>1, <2>2
<1>8. QED
  BY <1>2, <1>6, <1>7, ScreensOfStep DEF Step

LEMMA UnregisterKeepsScreens ==
    ASSUME IInv, SessionsSound, AllSeen, AddsSound, NEW s \in Sessions, Unregister(s)
    PROVE  AllSeen' /\ AddsSound'
<1> DEFINE y == auth[s]
<1>1. /\ OthersGoOn(s) /\ task[s].at = "unregister" /\ y \notin accounts
      /\ UNCHANGED rel /\ Gone(s)
      /\ clients' = [w \in DOMAIN clients \ {y} |-> clients[w]]
      /\ pending' = [pending EXCEPT ![s] = [w \in Users |-> "none"]]
      /\ pending \in [Sessions -> [Users -> News]] /\ shown \in [Sessions -> SUBSET Users]
  BY StepsOfOne DEF Step, Unregister, IInv, TypeOK, tables, SessionsSound, SessionSound
<1>2. /\ \A S \in Sessions \ {s} :
            auth'[S] = auth[S] /\ shown'[S] = shown[S] /\ pending'[S] = pending[S]
      /\ task'[s].at = "idle" /\ auth'[s] = Closed
  BY <1>1, GoneLeaves DEF Gone, Idle, IInv, TypeOK
<1>3. ASSUME NEW u \in Users, NEW v \in Users, Undoubted(u, v)
      PROVE  (Visible(v)' <=> Visible(v)) /\ (FriendThere(u, v)' <=> FriendThere(u, v))
  <2>1. v # y
    BY <1>1, <1>3 DEF Undoubted
  <2>2. QED
    BY <1>1, <2>1 DEF Visible, Registered, FriendThere, Mutual
<1>4. ASSUME NEW S \in Sessions, NEW u \in Users, NEW v \in Users \ {u},
             Has(u, S)', LoggedIn(S)', Undoubted(u, v)', Undoubted(u, v)
      PROVE  Seen(S, u, v)'
  <2>1. Has(u, S) /\ S # s
    BY <1>1, <1>2, <1>4, UsersAssumption DEF Has, Registered, LoggedIn
  <2>2. Seen(S, u, v) /\ (ShowsSoon(S, v)' <=> ShowsSoon(S, v))
    BY <1>2, <1>4, <2>1 DEF AllSeen, ShowsSoon
  <2>3. QED
    BY <1>1, <1>3, <1>4, <2>2, SeenGoesOn
<1>5. ASSUME NEW x \in Sessions \ {s}, NEW u \in Users, NEW v \in Users \ {u}, AddSound(x, u, v),
             LoggedIn(x)', Undoubted(u, v)', Undoubted(u, v)
      PROVE  AddSound(x, u, v)'
  BY <1>1, <1>2, <1>3, <1>5, AddGoesOn
<1>6. QED
  BY <1>2, <1>4, <1>5, ScreensOfStep DEF Step

LEMMA RegisterKeepsScreens ==
    ASSUME IInv, SessionsSound, AllSeen, AddsSound, NEW s \in Sessions, Register(s)
    PROVE  AllSeen' /\ AddsSound'
<1>0. PICK y \in Users : y = auth[s]
  BY DEF Register, IInv, TasksSound, LoggedIn
<1> DEFINE t == task[s]
           changed == {v \in Users : \/ Registered(y)
                                     \/ (v \in t.friends) # (v \in FriendsOf(y))
                                     \/ v \in t.friends /\ (v \in t.online) # Visible(v)}
           to == IF t.hidden THEN {} ELSE FriendSessions(y, t.friends)
<1>1. /\ OthersGoOn(s) /\ t.at = "register" /\ auth[s] = y
      /\ UNCHANGED <<rel, auth, pending>>
      /\ clients' = WithEntry(s, y, t) /\ shown' = [shown EXCEPT ![s] = t.online]
      /\ task'[s] = [at |-> "announce", to |-> to] /\ Doubts(y, changed)
      /\ shown \in [Sessions -> SUBSET Users]
      /\ \A w \in DOMAIN clients : clients[w] \in Entry
  BY <1>0, StepsOfOne DEF Step, Register, IInv, TypeOK, TasksSound, LoggedIn, tables, Goes
<1>2. /\ DOMAIN clients' = DOMAIN clients \cup {y}
      /\ clients'[y].session = s /\ clients'[y].hidden = t.hidden
      /\ \A w \in DOMAIN clients \ {y} : /\ clients'[w].session = clients[w].session
                                         /\ clients'[w].hidden = clients[w].hidden
  BY <1>1 DEF WithEntry, Entry
<1>3. /\ t.online \subseteq t.friends
      /\ \A v \in Users : pending[s][v] = "none"
      /\ \A w \in DOMAIN clients : clients[w].session # s
  BY <1>1 DEF SessionsSound, SessionSound, Fresh
<1>4. ASSUME NEW v \in Users, v # y
      PROVE  Visible(v)' <=> Visible(v)
  BY <1>2, <1>4 DEF Visible, Registered
<1>5. Visible(y)' <=> ~t.hidden
  BY <1>2 DEF Visible, Registered
<1>6. ASSUME NEW v \in Users \ {y}, Undoubted(y, v)'
      PROVE  /\ ~Registered(y) /\ ~Visible(y)
             /\ v \in t.friends <=> Mutual(y, v)
             /\ v \in t.friends => (v \in t.online <=> Visible(v))
  <2>1. Couple(y, v) \notin doubtful'
    BY <1>1, <1>6 DEF Undoubted, Couple
  <2>2. v \notin changed
    <3> HIDE DEF changed
    <3> QED
      BY <1>1, <1>6, <2>1, DoubtAbout
  <2>3. QED
    BY <2>2 DEF FriendsOf, Visible
\* Who is a friend, has an entry and is undoubted will hear of y, unless y hides.
<1>7. ASSUME NEW S \in Sessions, NEW u \in Users \ {y}, Has(u, S), Undoubted(y, u)',
             Mutual(u, y), ~t.hidden
      PROVE  Reporting(y, S)'
  <2>1. u \in t.friends
    BY <1>6, <1>7 DEF Mutual
  <2>2. S \in to
    BY <1>7, <2>1 DEF FriendSessions, Has, Registered
  <2>3. task'[s].at = "announce" /\ auth'[s] = y /\ S \in task'[s].to
    BY <1>1, <2>2
  <2>4. QED
    BY <2>3 DEF Reporting
<1>8. ASSUME NEW S \in Sessions, NEW u \in Users, NEW v \in Users \ {u},
             Has(u, S)', LoggedIn(S)', Undoubted(u, v)', Undoubted(u, v)
      PROVE  Seen(S, u, v)'
  <2>1. CASE u = y
    <3>1. S = s
      BY <1>2, <1>8, <2>1 DEF Has
    <3>2. ShowsSoon(S, v)' <=> v \in t.online
      BY <1>1, <1>3, <3>1 DEF ShowsSoon
    <3>3. v \in t.online <=> FriendThere(u, v)
      BY <1>3, <1>6, <1>8, <2>1 DEF FriendThere
    <3>4. QED
      BY <1>1, <1>4, <2>1, <3>2, <3>3 DEF Seen, FriendThere, Mutual
  <2>2. CASE u # y
    <3>1. Has(u, S) /\ S # s
      BY <1>2, <1>3, <1>8, <2>2 DEF Has, Registered
    <3>2. Seen(S, u, v) /\ (ShowsSoon(S, v)' <=> ShowsSoon(S, v))
      BY <1>1, <1>8, <3>1 DEF AllSeen, ShowsSoon
    <3>3. CASE v # y
      BY <1>1, <1>4, <1>8, <3>2, <3>3, SeenGoesOn DEF FriendThere, Mutual
    <3>4. CASE v = y
      <4>1. Undoubted(y, u)'
        BY <1>1, <1>8, <3>4 DEF Undoubted, Couple
      <4>2. CASE Mutual(u, y) /\ ~t.hidden
        BY <1>7, <2>2, <3>1, <3>4, <4>1, <4>2 DEF Seen
      <4>3. CASE ~(Mutual(u, y) /\ ~t.hidden)
        <5>1. ~FriendThere(u, v) /\ ~FriendThere(u, v)'
          BY <1>1, <1>5, <1>6, <2>2, <3>4, <4>1, <4>3 DEF FriendThere, Mutual
        <5>2. QED
          BY <1>1, <1>8, <3>2, <5>1, SeenGoesOn
      <4>4. QED
        BY <4>2, <4>3
    <3>5. QED
      BY <3>3, <3>4
  <2>3. QED
    BY <2>1, <2>2
<1>9. ASSUME NEW x \in Sessions \ {s}, NEW u \in Users, NEW v \in Users \ {u}, AddSound(x, u, v),
             Adding(x, u, v), LoggedIn(x)', Undoubted(u, v)', Undoubted(u, v)
      PROVE  AddSound(x, u, v)'
  <2>1. CASE v # y
    BY <1>1, <1>4, <1>9, <2>1, AddGoesOn
  <2>2. CASE v = y
    <3>1. Undoubted(y, u)'
      BY <1>1, <1>9, <2>2 DEF Undoubted, Couple
    <3>2. Has(u, x)
      BY <1>9 DEF SessionsSound, SessionSound, Established, LoggedIn, Adding, Has
    <3>3. CASE Mutual(u, y) /\ ~t.hidden
      BY <1>1, <1>7, <1>9, <2>2, <3>1, <3>2, <3>3, AddGoesOn
    <3>4. CASE ~(Mutual(u, y) /\ ~t.hidden)
      <4>1. Mutual(u, v) => (Visible(v)' <=> Visible(v))
        BY <1>5, <1>6, <1>9, <2>2, <3>1, <3>4
      <4>2. QED
        BY <1>1, <1>9, <4>1, AddGoesOn
    <3>5. QED
      BY <3>3, <3>4
  <2>3. QED
    BY <2>1, <2>2
<1>10. QED
  BY <1>1, <1>8, <1>9, ScreensOfStep DEF Step

LEMMA CleanupKeepsScreens ==
    ASSUME IInv, CachesFollow, SessionsSound, AllSeen, AddsSound,
           NEW s \in Sessions, CleanupOnDisconnect(s)
    PROVE  AllSeen' /\ AddsSound'
<1>0. PICK y \in Users : y = auth[s]
  BY DEF CleanupOnDisconnect, LoggedIn
<1> DEFINE to == IF Visible(y) THEN FriendSessions(y, clients[y].friends) ELSE {}
<1>1. /\ OthersGoOn(s) /\ Established(s) /\ task[s].at \in {"idle", "leave"} /\ auth[s] = y
      /\ UNCHANGED <<rel, auth, pending, shown>>
      /\ clients' = [w \in DOMAIN clients \ {y} |-> clients[w]]
      /\ task'[s] = [at |-> "farewell", to |-> to]
  <2>1. OthersGoOn(s) /\ task \in [Sessions -> Task]
    BY StepsOfOne DEF Step, IInv, TypeOK
  <2>2. Established(s) /\ task[s].at \in {"idle", "leave"}
    BY DEF CleanupOnDisconnect, LoggedIn, Established, Free, Idle
  <2>3. QED
    BY <1>0, <2>1, <2>2 DEF CleanupOnDisconnect, tables, screens, Goes
<1>2. /\ ~Visible(y)'
      /\ \A v \in Users \ {y} : Visible(v)' <=> Visible(v)
  BY <1>1 DEF Visible, Registered
\* The friends that the cache of y lists will hear of it.
<1>3. ASSUME NEW S \in Sessions, NEW u \in Users \ {y}, Has(u, S), Visible(y),
             u \in clients[y].friends
      PROVE  Reporting(y, S)'
  <2>1. S \in to
    BY <1>3 DEF FriendSessions, Has, Registered
  <2>2. task'[s].at = "farewell" /\ auth'[s] = y /\ S \in task'[s].to
    BY <1>1, <2>1
  <2>3. QED
    BY <2>2 DEF Reporting
<1>4. ASSUME NEW u \in Users \ {y}, Undoubted(u, y), Visible(y), Mutual(u, y),
             u \notin clients[y].friends
      PROVE  Updating(y, u)
  BY <1>1, <1>4 DEF CachesFollow, Settled, Undoubted, Couple, Mutual, Visible, Registered
<1>5. ASSUME NEW S \in Sessions, NEW u \in Users, NEW v \in Users \ {u},
             Has(u, S)', LoggedIn(S)', Undoubted(u, v)', Undoubted(u, v)
      PROVE  Seen(S, u, v)'
  <2>1. u # y /\ Has(u, S)
    BY <1>1, <1>5 DEF Has, Registered
  <2>2. Seen(S, u, v) /\ (ShowsSoon(S, v)' <=> ShowsSoon(S, v))
    BY <1>1, <1>5, <2>1 DEF AllSeen, ShowsSoon
  <2>3. CASE v = y /\ Visible(y) /\ Mutual(u, y)
    <3>1. CASE u \in clients[y].friends
      BY <1>3, <2>1, <2>3, <3>1 DEF Seen
    <3>2. CASE u \notin clients[y].friends
      <4>1. Dealing(u, v)
        BY <1>4, <1>5, <2>1, <2>3, <3>2 DEF Updating, Dealing, Couple
      <4>2. QED
        BY <1>1, <4>1, DealingGoesOn DEF Seen
    <3>3. QED
      BY <3>1, <3>2
  <2>4. CASE ~(v = y /\ Visible(y) /\ Mutual(u, y))
    <3>1. FriendThere(u, v)' <=> FriendThere(u, v)
      BY <1>1, <1>2, <2>4 DEF FriendThere, Mutual
    <3>2. QED
      BY <1>1, <1>5, <2>2, <3>1, SeenGoesOn
  <2>5. QED
    BY <2>3, <2>4
<1>6. ASSUME NEW x \in Sessions \ {s}, NEW u \in Users, NEW v \in Users \ {u}, AddSound(x, u, v),
             Adding(x, u, v), LoggedIn(x)', Undoubted(u, v)', Undoubted(u, v)
      PROVE  AddSound(x, u, v)'
  <2>1. auth[x] = u /\ Established(x)
    BY <1>6 DEF Adding, Established, LoggedIn
  <2>2. u # y /\ Has(u, x)
    BY <1>1, <1>6, <2>1, OneEstablished DEF SessionsSound, SessionSound, Has
  <2>3. CASE task[x].at = "notify" /\ v = y /\ Visible(y) /\ Mutual(u, y)
    <3>1. u \in clients[y].friends
      <4>1. SUFFICES ASSUME u \notin clients[y].friends PROVE FALSE
        OBVIOUS
      <4>2. PICK z \in Sessions :
                task[z].at = "caches" /\ Couple(auth[z], task[z].other) = Couple(y, u)
        BY <1>4, <1>6, <2>2, <2>3, <4>1 DEF Updating
      <4>3. auth[z] \in {y, u} /\ z # x /\ z # s
        BY <1>1, <2>3, <4>2 DEF Couple
      <4>4. Established(z) /\ Undoubted(y, u) /\ y \in Users \ {u}
        BY <1>1, <1>6, <2>2, <2>3, <4>2, <4>3 DEF Established, LoggedIn, Undoubted, Couple
      <4>5. CASE auth[z] = u
        BY <1>6, <2>1, <4>3, <4>4, <4>5, OneEstablished
      <4>6. CASE auth[z] = y
        BY <1>1, <1>6, <2>2, <4>3, <4>4, <4>6, OneEstablished
      <4>7. QED
        BY <4>3, <4>5, <4>6
    <3>2. Reporting(v, x)'
      BY <1>3, <2>2, <2>3, <3>1
    <3>3. QED
      BY <1>1, <1>6, <3>2, AddGoesOn
  <2>4. CASE ~(task[x].at = "notify" /\ v = y /\ Visible(y) /\ Mutual(u, y))
    <3>1. task[x].at = "notify" /\ Mutual(u, v) => (Visible(v)' <=> Visible(v))
      BY <1>2, <2>4
    <3>2. QED
      BY <1>1, <1>6, <3>1, AddGoesOn
  <2>5. QED
    BY <2>3, <2>4
<1>7. QED
  BY <1>1, <1>5, <1>6, ScreensOfStep DEF Step

LEMMA ScreensKept ==
    IInv /\ CachesFollow /\ SessionsSound /\ AllSeen /\ AddsSound /\ [Next]_vars
        => AllSeen' /\ AddsSound'
<1> SUFFICES ASSUME IInv, CachesFollow, SessionsSound, AllSeen, AddsSound, [Next]_vars
             PROVE  AllSeen' /\ AddsSound'
  OBVIOUS
<1>1. CASE UNCHANGED vars
  <2>1. AllSeen'
    BY <1>1 DEF vars, AllSeen, Has, Registered, Undoubted, Couple, Seen, ShowsSoon,
       FriendThere, Mutual, Visible, Reporting, Dealing
  <2>2. AddsSound'
    BY <1>1 DEF vars, AddsSound, AddSound, Adding, Registered, Undoubted, Couple, Mutual,
       Visible, Reporting
  <2>3. QED
    BY <2>1, <2>2
<1>2. ASSUME NEW s \in Sessions, Step(s) PROVE AllSeen' /\ AddsSound'
  <2>1. /\ task \in [Sessions -> Task] /\ Idle.at = "idle"
        /\ pending \in [Sessions -> [Users -> News]] /\ shown \in [Sessions -> SUBSET Users]
        /\ rel \in [Pairs -> SUBSET Flags]
    BY DEF IInv, TypeOK, Idle
  <2>2. CASE \/ \E u \in Users, hidden \in BOOLEAN : CmdLogin(s, u, hidden)
             \/ GetRelationships(s) \/ LookUpFriends(s)
             \/ ReadsRow(s)
    <3>1. /\ UNCHANGED <<clients, rel, pending, shown>>
          /\ task[s].at \in {"idle", "relations", "flags"}
          /\ task'[s].at \in {"relations", "flags", "register", "write"}
      <4>1. CASE \E u \in Users, hidden \in BOOLEAN : CmdLogin(s, u, hidden)
        BY <2>1, <4>1 DEF CmdLogin, Goes, Free, screens, tables
      <4>2. CASE GetRelationships(s) \/ LookUpFriends(s)
        BY <2>1, <4>2 DEF GetRelationships, LookUpFriends, Goes, screens, tables
      <4>3. CASE ReadsRow(s)
        BY <2>1, <4>3 DEF ReadsRow, Reads, Goes, Free, screens, tables
      <4>4. QED
        BY <2>2, <4>1, <4>2, <4>3
    <3>2. \A S \in Sessions, v \in Users : ShowsSoon(S, v)' <=> ShowsSoon(S, v)
      BY <3>1 DEF ShowsSoon
    <3>3. QED
      BY <1>2, <3>1, <3>2, ScreensStand
  <2>3. CASE \E v \in Users : CmdDelete(s, v)
    <3>1. /\ UNCHANGED <<clients, pending, shown>>
          /\ task[s].at = "idle" /\ task'[s].at \in {"unregister", "leave"}
      BY <2>1, <2>3 DEF CmdDelete, Goes, Free, screens
    <3>2. \A p \in Pairs : {p[1], p[2]} \subseteq accounts' => rel'[p] = rel[p]
      BY <2>3 DEF CmdDelete
    <3>3. \A S \in Sessions, v \in Users : ShowsSoon(S, v)' <=> ShowsSoon(S, v)
      BY <3>1 DEF ShowsSoon
    <3>4. QED
      BY <1>2, <3>1, <3>2, <3>3, ScreensStand
  <2>4. CASE Deliver(s)
    <3>1. /\ UNCHANGED <<clients, rel, task>> /\ task[s].at = "idle"
          /\ \A S \in Sessions \ {s} : pending'[S] = pending[S] /\ shown'[S] = shown[S]
      BY <2>1, <2>4 DEF Deliver, tables
    <3>2. ASSUME NEW S \in Sessions, NEW v \in Users PROVE ShowsSoon(S, v)' <=> ShowsSoon(S, v)
      <4>1. CASE S # s
        BY <3>1, <4>1 DEF ShowsSoon
      <4>2. CASE S = s
        <5>1. pending'[s][v] = "none"
          BY <2>1, <2>4 DEF Deliver
        <5>2. v \in shown'[s] <=> pending[s][v] = "online" \/ (pending[s][v] = "none" /\ v \in shown[s])
          BY <2>1, <2>4 DEF Deliver
        <5>3. QED
          BY <4>2, <5>1, <5>2 DEF ShowsSoon
      <4>3. QED
        BY <4>1, <4>2
    <3>3. QED
      BY <1>2, <3>1, <3>2, ScreensStand
  <2>5. QED
    BY <1>2, <2>2, <2>3, <2>4, RegisterKeepsScreens, AnnounceKeepsScreens, WriteKeepsScreens,
       UpdateKeepsScreens, NotifyKeepsScreens, CleanupKeepsScreens, FarewellKeepsScreens,
       UnregisterKeepsScreens, CommandsRead DEF Step
<1>3. QED
  BY <1>1, <1>2 DEF Next

\* Whenever nothing is under way, every client shows those friends online that
\* are, and nobody else, but for users of whom a handler used something stale.
THEOREM ScreensAlwaysAgree == Spec => []ScreensAgree
<1>1. Init => CachesFollow /\ SessionsSound /\ AllSeen /\ AddsSound
  <2> SUFFICES ASSUME Init PROVE CachesFollow /\ SessionsSound /\ AllSeen /\ AddsSound
    OBVIOUS
  <2>1. /\ DOMAIN clients = {} /\ \A s \in Sessions : task[s].at = "idle" /\ auth[s] = NoUser
        /\ \A s \in Sessions, u \in Users : pending[s][u] = "none"
    BY DEF Init, Idle
  <2>2. QED
    BY <2>1, UsersAssumption DEF CachesFollow, SessionsSound, SessionSound, Established, LoggedIn,
       AllSeen, Has, Registered, AddsSound, AddSound, Adding
<1>2. IInv /\ SessionsSound /\ AllSeen => ScreensAgree
  <2> SUFFICES ASSUME IInv, SessionsSound, AllSeen, Quiet,
                      NEW u \in DOMAIN clients, NEW v \in Users \ {u}, Undoubted(u, v)
               PROVE  v \in shown[clients[u].session] <=> Mutual(u, v) /\ Visible(v)
    BY DEF ScreensAgree
  <2>1. PICK S \in Sessions : clients[u].session = S /\ u \in Users
    BY DEF IInv, TypeOK, Entry
  <2>2. Seen(S, u, v)
    BY <2>1 DEF AllSeen, Has, Registered
  <2>3. pending[S][v] = "none" /\ ~Reporting(v, S) /\ ~Dealing(u, v)
    BY DEF Quiet, Reporting, Dealing, Idle
  <2>4. QED
    BY <2>1, <2>2, <2>3 DEF Seen, ShowsSoon, FriendThere
<1>3. QED
  BY <1>1, <1>2, CachesKept, SessionsKept, ScreensKept, Invariance, PTL DEF Spec
================================================================================
