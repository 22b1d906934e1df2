------------------------- MODULE WebApiSessionsProofs -------------------------
(***************************************************************************)
(* Proofs about WebApiSessions, for any users, sessions, invitations, slots *)
(* and settings.                                                           *)
(***************************************************************************)
EXTENDS WebApiSessions, ListLemmas

(***************************************************************************)
(* One session.                                                            *)
(***************************************************************************)

\* A session as OwnerIsSenior has it.
Sound(s) ==
    /\ s \in Session
    /\ s.members # <<>> /\ s.owner = s.members[1].user
    /\ \A j, k \in DOMAIN s.members : s.members[j].user = s.members[k].user => j = k

Entries(s) == {s.members[k] : k \in DOMAIN s.members}

\* A member's place is the one it has.
LEMMA PlaceIsTheirs ==
    ASSUME NEW s, Sound(s), NEW k \in DOMAIN s.members
    PROVE  PlaceOf(s, s.members[k].user) = k
<1>1. s.members \in Seq(Member) /\ DOMAIN s.members = 1..Len(s.members) /\ Len(s.members) \in Nat
  BY DEF Sound, Session
<1>2. \A j \in 1..(k - 1) : j \in DOMAIN s.members
  BY <1>1
<1>3. \A j \in 1..(k - 1) : s.members[j].user # s.members[k].user
  BY <1>1, <1>2 DEF Sound
<1>4. \A j \in DOMAIN s.members :
        s.members[j].user = s.members[k].user => j = k
  BY DEF Sound
<1>5. QED
  BY <1>3, <1>4 DEF PlaceOf

\* Everybody in a session has a place.
LEMMA PlaceExists ==
    ASSUME NEW s, Sound(s), NEW u \in MembersOf(s)
    PROVE  PlaceOf(s, u) \in DOMAIN s.members /\ s.members[PlaceOf(s, u)].user = u
<1>1. PICK k \in DOMAIN s.members : s.members[k].user = u
  BY DEF MembersOf
<1>2. QED
  BY <1>1, PlaceIsTheirs

\* What a session is after its k-th member has gone, if it does not end.
LEMMA Departure ==
    ASSUME NEW s, Sound(s), NEW k \in DOMAIN s.members, ~EndsWith(s, k)
    PROVE  LET t == LeftBy(s, k)
           IN  /\ Sound(t) /\ t.type = s.type /\ t.setting = s.setting
               /\ MembersOf(t) = MembersOf(s) \ {s.members[k].user}
               /\ Entries(t) = Entries(s) \ {s.members[k]}
               /\ Succeeds(s, t)
<1> DEFINE m == s.members
           n == Len(m)
           rest == RemoveAt(m, k)
           t == LeftBy(s, k)
           gone == m[k].user
           \* Where the j-th of those who stay was.
           from(j) == IF j < k THEN j ELSE j + 1
<1>1. /\ m \in Seq(Member) /\ n \in Nat /\ n # 0 /\ DOMAIN m = 1..n /\ k \in 1..n
      /\ s.type \in Types /\ s.setting \in Settings /\ s.owner = m[1].user
  BY DEF Sound, Session
<1>2. n > 1 /\ (s.type = "owner-bind" => s.owner # gone)
  <2>1. n # 1
    BY DEF EndsWith
  <2>2. s.type = "owner-bind" => s.owner # gone
    BY DEF EndsWith
  <2>3. n > 1
    <3> HIDE DEF n
    <3>1. QED
      BY <1>1, <2>1
  <2>4. QED
    BY <2>2, <2>3
<1>3. /\ rest \in Seq(Member) /\ Len(rest) = n - 1 /\ DOMAIN rest = 1..(n - 1)
      /\ \A j \in 1..(n - 1) : rest[j] = m[from(j)]
  <2>1. k \in DOMAIN m
    OBVIOUS
  <2>2. /\ rest \in Seq(Member) /\ Len(rest) = n - 1
        /\ \A j \in 1..(n - 1) : rest[j] = m[from(j)]
    BY <1>1, <2>1, RemoveAtElements
  <2>3. DOMAIN rest = 1..Len(rest)
    BY <2>2
  <2>4. QED
    BY <2>2, <2>3
<1>4. \A j \in 1..(n - 1) : from(j) \in 1..n \ {k}
  BY <1>1, <1>2
<1>5. \A i \in 1..n \ {k} : \E j \in 1..(n - 1) : from(j) = i
  <2> TAKE i \in 1..n \ {k}
  <2>1. CASE i < k
    <3>1. i \in 1..(n - 1) /\ from(i) = i
      BY <1>1, <2>1
    <3>2. QED
      BY <3>1
  <2>2. CASE ~(i < k)
    <3>1. i - 1 \in 1..(n - 1) /\ from(i - 1) = i
      BY <1>1, <2>2
    <3>2. QED
      BY <3>1
  <2>3. QED
    BY <2>1, <2>2
<1>6. \A i, j \in 1..(n - 1) : (from(i) = from(j) => i = j) /\ (from(i) < from(j) => i < j)
  BY <1>1
<1>7. \A i, j \in 1..n : m[i].user = m[j].user => i = j
  BY <1>1 DEF Sound
<1>8. \A j \in 1..n : m[j] \in Member /\ m[j].user \in Users
  <2> TAKE j \in 1..n
  <2>1. m[j] \in Member
    BY <1>1
  <2>2. QED
    BY <2>1 DEF Member
<1>9. /\ t.type = s.type /\ t.setting = s.setting /\ t.members = rest
      /\ t.owner = IF s.owner = gone THEN rest[1].user ELSE s.owner
      /\ t = [type |-> s.type, owner |-> t.owner, setting |-> s.setting, members |-> rest]
  <2> DEFINE heir == IF s.owner = gone THEN rest[1].user ELSE s.owner
             thinned == [s EXCEPT !.members = rest]
  <2>1. s = [type |-> s.type, owner |-> s.owner, setting |-> s.setting, members |-> m]
    BY DEF Sound, Session
  <2>2. t = [thinned EXCEPT !.owner = heir]
    BY DEF LeftBy
  <2> HIDE DEF rest, heir, t
  <2>3. thinned = [type |-> s.type, owner |-> s.owner, setting |-> s.setting, members |-> rest]
    BY <2>1
  <2> HIDE DEF thinned
  <2>4. t = [type |-> s.type, owner |-> heir, setting |-> s.setting, members |-> rest]
    BY <2>2, <2>3
  <2>5. QED
    BY <2>4 DEF heir
<1> HIDE DEF n, rest, t
<1>10. t.owner = rest[1].user
  <2>1. 1 \in 1..(n - 1) /\ 1 \in 1..n
    BY <1>1, <1>2
  <2>2. CASE k = 1
    BY <1>1, <1>9, <2>2
  <2>3. CASE k # 1
    <3>1. from(1) = 1
      BY <1>1, <2>3
    <3>2. rest[1] = m[1]
      BY <1>3, <2>1, <3>1
    <3>3. m[1].user # gone
      BY <1>1, <1>7, <2>1, <2>3
    <3>4. QED
      BY <1>1, <1>9, <3>2, <3>3
  <2>4. QED
    BY <2>2, <2>3
<1>11. Sound(t)
  <2>1. t.owner \in Users
    BY <1>1, <1>2, <1>3, <1>4, <1>8, <1>10
  <2>2. t \in Session
    BY <1>1, <1>3, <1>9, <2>1 DEF Session
  <2>3. rest # <<>>
    BY <1>1, <1>2, <1>3
  <2>4. \A i, j \in DOMAIN rest : rest[i].user = rest[j].user => i = j
    <3> SUFFICES ASSUME NEW i \in 1..(n - 1), NEW j \in 1..(n - 1), rest[i].user = rest[j].user
                 PROVE  i = j
      BY <1>3
    <3>1. from(i) = from(j)
      BY <1>3, <1>4, <1>7
    <3>2. QED
      BY <1>6, <3>1
  <2>5. QED
    BY <1>9, <1>10, <2>2, <2>3, <2>4 DEF Sound
<1>12. Entries(t) = Entries(s) \ {m[k]}
  <2>1. ASSUME NEW e \in Entries(t)  PROVE e \in Entries(s) \ {m[k]}
    <3>1. PICK j \in 1..(n - 1) : e = rest[j]
      BY <1>3, <1>9 DEF Entries
    <3>2. e = m[from(j)] /\ from(j) \in 1..n /\ from(j) # k
      BY <1>3, <1>4, <3>1
    <3>3. e # m[k]
      BY <1>1, <1>7, <3>2
    <3>4. QED
      BY <1>1, <3>2, <3>3 DEF Entries
  <2>2. ASSUME NEW e \in Entries(s) \ {m[k]}  PROVE e \in Entries(t)
    <3>1. PICK i \in 1..n : e = m[i] /\ i # k
      BY <1>1 DEF Entries
    <3>2. PICK j \in 1..(n - 1) : from(j) = i
      BY <1>5, <3>1
    <3>3. QED
      BY <1>3, <1>9, <3>1, <3>2 DEF Entries
  <2>3. QED
    BY <2>1, <2>2
<1>13. MembersOf(t) = MembersOf(s) \ {gone}
  <2>1. ASSUME NEW u \in MembersOf(t)  PROVE u \in MembersOf(s) \ {gone}
    <3>1. PICK j \in 1..(n - 1) : u = rest[j].user
      BY <1>3, <1>9 DEF MembersOf
    <3>2. u = m[from(j)].user /\ from(j) \in 1..n /\ from(j) # k
      BY <1>3, <1>4, <3>1
    <3>3. u # gone
      BY <1>1, <1>7, <3>2
    <3>4. QED
      BY <1>1, <3>2, <3>3 DEF MembersOf
  <2>2. ASSUME NEW u \in MembersOf(s) \ {gone}  PROVE u \in MembersOf(t)
    <3>1. PICK i \in 1..n : u = m[i].user /\ i # k
      BY <1>1 DEF MembersOf
    <3>2. PICK j \in 1..(n - 1) : from(j) = i
      BY <1>5, <3>1
    <3>3. QED
      BY <1>3, <1>9, <3>1, <3>2 DEF MembersOf
  <2>3. QED
    BY <2>1, <2>2
<1>14. Succeeds(s, t)
  <2>1. s.owner # t.owner => s.type # "owner-bind" /\ s.owner \notin MembersOf(t)
    BY <1>2, <1>9, <1>13
  <2>2. ASSUME NEW u \in MembersOf(t), NEW v \in MembersOf(t),
               PlaceOf(s, u) < PlaceOf(s, v)
        PROVE  PlaceOf(t, u) < PlaceOf(t, v)
    <3>1. PICK i \in 1..(n - 1) : u = rest[i].user
      BY <1>3, <1>9 DEF MembersOf
    <3>2. PICK j \in 1..(n - 1) : v = rest[j].user
      BY <1>3, <1>9 DEF MembersOf
    <3>3. PlaceOf(t, u) = i /\ PlaceOf(t, v) = j
      BY <1>3, <1>9, <1>11, <3>1, <3>2, PlaceIsTheirs
    <3>4. PlaceOf(s, u) = from(i) /\ PlaceOf(s, v) = from(j)
      BY <1>1, <1>3, <1>4, <3>1, <3>2, PlaceIsTheirs
    <3>5. QED
      BY <1>6, <2>2, <3>3, <3>4
  <2>3. MembersOf(t) \subseteq MembersOf(s)
    BY <1>13
  <2>4. QED
    BY <2>1, <2>2, <2>3 DEF Succeeds
<1>15. QED
  BY <1>9, <1>11, <1>12, <1>13, <1>14 DEF t

\* A session after somebody has joined.
LEMMA Arrival ==
    ASSUME NEW s, Sound(s), NEW u \in Users \ MembersOf(s), NEW i \in Indices, Admits(s)
    PROVE  LET e == [user |-> u, index |-> i]
               t == [s EXCEPT !.members = Append(@, e)]
           IN  /\ Sound(t) /\ t.type = s.type /\ t.owner = s.owner /\ t.setting = s.setting
               /\ MembersOf(t) = MembersOf(s) \cup {u}
               /\ Entries(t) = Entries(s) \cup {e}
               /\ Succeeds(s, t)
<1> DEFINE m == s.members
           n == Len(m)
           e == [user |-> u, index |-> i]
           more == Append(m, e)
           t == [s EXCEPT !.members = more]
<1>1. /\ m \in Seq(Member) /\ n \in Nat /\ n # 0 /\ DOMAIN m = 1..n
      /\ s.type \in Types /\ s.setting \in Settings /\ s.owner \in Users /\ s.owner = m[1].user
  BY DEF Sound, Session
<1>2. e \in Member /\ e.user = u
  BY DEF Member
<1>3. /\ more \in Seq(Member) /\ Len(more) = n + 1 /\ DOMAIN more = 1..(n + 1)
      /\ \A j \in 1..n : more[j] = m[j]
      /\ more[n + 1] = e
  BY <1>1, <1>2
<1>4. t = [type |-> s.type, owner |-> s.owner, setting |-> s.setting, members |-> more]
  <2> HIDE DEF more
  <2>1. QED
    BY DEF Sound, Session
<1> HIDE DEF more, t, e
<1>5. \A j \in 1..n : m[j].user # u /\ m[j].user \in Users
  <2> TAKE j \in 1..n
  <2>1. m[j] \in Member
    BY <1>1
  <2>2. m[j].user \in MembersOf(s)
    BY <1>1 DEF MembersOf
  <2>3. QED
    BY <2>1, <2>2 DEF Member
<1>6. \A j \in 1..(n + 1) : j \in 1..n \/ j = n + 1
  BY <1>1
<1>7. Sound(t)
  <2>1. t \in Session
    BY <1>1, <1>3, <1>4 DEF Session
  <2>2. more # <<>> /\ more[1] = m[1]
    BY <1>1, <1>3
  <2>3. \A j, k \in 1..(n + 1) : more[j].user = more[k].user => j = k
    <3> SUFFICES ASSUME NEW j \in 1..(n + 1), NEW k \in 1..(n + 1), more[j].user = more[k].user
                 PROVE  j = k
      OBVIOUS
    <3>1. CASE j \in 1..n /\ k \in 1..n
      BY <1>1, <1>3, <3>1 DEF Sound
    <3>2. CASE j = n + 1 \/ k = n + 1
      BY <1>2, <1>3, <1>5, <1>6, <3>2
    <3>3. QED
      BY <1>6, <3>1, <3>2
  <2>4. QED
    BY <1>1, <1>3, <1>4, <2>1, <2>2, <2>3 DEF Sound
<1>8. MembersOf(t) = MembersOf(s) \cup {u}
  <2>1. \A v \in MembersOf(t) : v \in MembersOf(s) \cup {u}
    BY <1>1, <1>2, <1>3, <1>4, <1>6 DEF MembersOf
  <2>2. \A v \in MembersOf(s) : v \in MembersOf(t)
    <3> SUFFICES ASSUME NEW j \in 1..n  PROVE m[j].user \in MembersOf(t)
      BY <1>1 DEF MembersOf
    <3>1. j \in 1..(n + 1) /\ more[j] = m[j]
      BY <1>1, <1>3
    <3>2. QED
      BY <1>3, <1>4, <3>1 DEF MembersOf
  <2>3. u \in MembersOf(t)
    <3>1. n + 1 \in 1..(n + 1)
      BY <1>1
    <3>2. QED
      BY <1>2, <1>3, <1>4, <3>1 DEF MembersOf
  <2>4. QED
    BY <2>1, <2>2, <2>3
<1>9. Entries(t) = Entries(s) \cup {e}
  <2>1. \A x \in Entries(t) : x \in Entries(s) \cup {e}
    BY <1>1, <1>3, <1>4, <1>6 DEF Entries
  <2>2. \A x \in Entries(s) : x \in Entries(t)
    <3> SUFFICES ASSUME NEW j \in 1..n  PROVE m[j] \in Entries(t)
      BY <1>1 DEF Entries
    <3>1. j \in 1..(n + 1) /\ more[j] = m[j]
      BY <1>1, <1>3
    <3>2. QED
      BY <1>3, <1>4, <3>1 DEF Entries
  <2>3. e \in Entries(t)
    <3>1. n + 1 \in 1..(n + 1)
      BY <1>1
    <3>2. QED
      BY <1>3, <1>4, <3>1 DEF Entries
  <2>4. QED
    BY <2>1, <2>2, <2>3
<1>10. \A j \in 1..n : PlaceOf(s, m[j].user) = j /\ PlaceOf(t, m[j].user) = j
  <2> TAKE j \in 1..n
  <2>1. j \in 1..(n + 1) /\ more[j] = m[j]
    BY <1>1, <1>3
  <2>2. QED
    BY <1>1, <1>3, <1>4, <1>7, <2>1, PlaceIsTheirs
<1>11. PlaceOf(t, u) = n + 1
  <2>1. n + 1 \in DOMAIN t.members /\ t.members[n + 1].user = u
    BY <1>1, <1>2, <1>3, <1>4
  <2>2. QED
    BY <1>7, <2>1, PlaceIsTheirs
<1>12. Succeeds(s, t)
  <2>1. ASSUME NEW v \in MembersOf(s)  PROVE PlaceOf(t, v) = PlaceOf(s, v)
    BY <1>1, <1>10 DEF MembersOf
  <2>2. ~s.setting.locked /\ n < Limit(s) /\ Limit(s) \in Int
    BY <1>1, SettingsAssumption DEF Admits, Limit, MostMembers
  <2>3. Len(t.members) = n + 1 /\ n + 1 <= Limit(s)
    BY <1>1, <1>3, <1>4, <2>2
  <2>4. MembersOf(s) \cap MembersOf(t) = MembersOf(s) /\ MembersOf(t) \ MembersOf(s) = {u}
    BY <1>8
  <2>5. t.owner = s.owner
    BY <1>4
  <2>6. QED
    BY <1>11, <2>1, <2>2, <2>3, <2>4, <2>5 DEF Succeeds
<1>13. QED
  BY <1>4, <1>7, <1>8, <1>9, <1>12 DEF t, more, e

\* The same of a named session.
LEMMA ArrivalNamed ==
    ASSUME NEW s, Sound(s), NEW u \in Users \ MembersOf(s), NEW i \in Indices, Admits(s),
           NEW t, t = [s EXCEPT !.members = Append(@, [user |-> u, index |-> i])]
    PROVE  /\ Sound(t) /\ t.type = s.type
           /\ MembersOf(t) = MembersOf(s) \cup {u}
           /\ Entries(t) = Entries(s) \cup {[user |-> u, index |-> i]}
           /\ Succeeds(s, t)
<1>1. LET e == [user |-> u, index |-> i]
          new == [s EXCEPT !.members = Append(@, e)]
      IN  /\ Sound(new) /\ new.type = s.type /\ new.owner = s.owner /\ new.setting = s.setting
          /\ MembersOf(new) = MembersOf(s) \cup {u}
          /\ Entries(new) = Entries(s) \cup {e}
          /\ Succeeds(s, new)
  BY Arrival
<1>2. QED
  BY <1>1

\* A session that nobody leaves or joins, whatever it is set to.
LEMMA Standstill ==
    ASSUME NEW s, Sound(s), NEW setting \in Settings
    PROVE  LET t == [s EXCEPT !.setting = setting]
           IN  /\ Sound(t) /\ t.type = s.type /\ t.owner = s.owner
               /\ MembersOf(t) = MembersOf(s) /\ Entries(t) = Entries(s)
               /\ Succeeds(s, t) /\ Succeeds(s, s)
<1> DEFINE t == [s EXCEPT !.setting = setting]
<1>1. t = [type |-> s.type, owner |-> s.owner, setting |-> setting, members |-> s.members]
  BY DEF Sound, Session
<1> HIDE DEF t
<1>2. Sound(t)
  BY <1>1 DEF Sound, Session
<1>3. MembersOf(t) = MembersOf(s) /\ Entries(t) = Entries(s)
  BY <1>1 DEF MembersOf, Entries
<1>4. \A u : PlaceOf(t, u) = PlaceOf(s, u)
  BY <1>1 DEF PlaceOf
<1>5. Succeeds(s, t) /\ Succeeds(s, s)
  BY <1>1, <1>3, <1>4 DEF Succeeds
<1>6. QED
  BY <1>1, <1>2, <1>3, <1>5 DEF t

(***************************************************************************)
(* All sessions.                                                           *)
(***************************************************************************)

\* The inductive invariant.
IInv == TypeOK /\ OwnerIsSenior /\ OneSessionPerIndex /\ MembersAreOnline

LEMMA AllSound ==
    ASSUME IInv
    PROVE  \A id \in DOMAIN sessions : Sound(sessions[id])
  BY DEF IInv, TypeOK, OwnerIsSenior, Sound

LEMMA SlotsApart ==
    ASSUME IInv, NEW id \in DOMAIN sessions, NEW other \in DOMAIN sessions,
           NEW e \in Entries(sessions[id]) \cap Entries(sessions[other])
    PROVE  id = other
<1>1. Sound(sessions[id]) /\ Sound(sessions[other])
  BY AllSound
<1>2. PICK k \in DOMAIN sessions[id].members : e = sessions[id].members[k]
  BY DEF Entries
<1>3. PICK j \in DOMAIN sessions[other].members : e = sessions[other].members[j]
  BY DEF Entries
<1>4. e \in Member
  BY <1>1, <1>2 DEF Sound, Session
<1>5. PICK u \in Users, i \in Indices : e = [user |-> u, index |-> i]
  BY <1>4 DEF Member
<1>6. id \in HeldAt(u, i) /\ other \in HeldAt(u, i)
  BY <1>2, <1>3, <1>5 DEF HeldAt
<1>7. QED
  BY <1>6 DEF IInv, OneSessionPerIndex

\* The places of a user that is to leave some of the sessions.
Places(u, places) ==
    \A id \in DOMAIN places :
        /\ id \in DOMAIN sessions
        /\ places[id] \in DOMAIN sessions[id].members
        /\ sessions[id].members[places[id]].user = u

LEMMA Departures ==
    ASSUME IInv, NEW u, NEW places, Places(u, places)
    PROVE  LET left == Without(places)
           IN  /\ left = [id \in DOMAIN left |-> left[id]]
               /\ DOMAIN left \subseteq DOMAIN sessions
               /\ \A id \in DOMAIN sessions \ DOMAIN left :
                    id \in DOMAIN places /\ EndsWith(sessions[id], places[id])
               /\ \A id \in DOMAIN left :
                    /\ Sound(left[id]) /\ left[id].type = sessions[id].type
                    /\ left[id].setting = sessions[id].setting
                    /\ Succeeds(sessions[id], left[id])
                    /\ id \notin DOMAIN places => left[id] = sessions[id]
                    /\ id \in DOMAIN places =>
                        /\ left[id] = LeftBy(sessions[id], places[id])
                        /\ MembersOf(left[id]) = MembersOf(sessions[id]) \ {u}
                        /\ Entries(left[id]) =
                            Entries(sessions[id]) \ {sessions[id].members[places[id]]}
<1> DEFINE left == Without(places)
<1>1. /\ left = [id \in DOMAIN left |-> left[id]]
      /\ DOMAIN left = {x \in DOMAIN sessions : x \in DOMAIN places => ~EndsWith(sessions[x], places[x])}
      /\ \A id \in DOMAIN left : left[id] =
            IF id \in DOMAIN places THEN LeftBy(sessions[id], places[id]) ELSE sessions[id]
  BY DEF Without
<1> HIDE DEF left
<1>2. \A id \in DOMAIN sessions : Sound(sessions[id])
  BY AllSound
<1>3. ASSUME NEW id \in DOMAIN left, id \notin DOMAIN places
      PROVE  /\ Sound(left[id]) /\ Succeeds(sessions[id], left[id]) /\ left[id] = sessions[id]
  <2>1. left[id] = sessions[id] /\ id \in DOMAIN sessions /\ Sound(sessions[id])
    BY <1>1, <1>2, <1>3
  <2>2. sessions[id].setting \in Settings
    BY <2>1 DEF Sound, Session
  <2>3. Succeeds(sessions[id], sessions[id])
    BY <2>1, <2>2, Standstill
  <2>4. QED
    BY <2>1, <2>3
<1>4. ASSUME NEW id \in DOMAIN left, id \in DOMAIN places
      PROVE  /\ Sound(left[id]) /\ left[id].type = sessions[id].type
             /\ left[id].setting = sessions[id].setting
             /\ Succeeds(sessions[id], left[id])
             /\ left[id] = LeftBy(sessions[id], places[id])
             /\ MembersOf(left[id]) = MembersOf(sessions[id]) \ {u}
             /\ Entries(left[id]) = Entries(sessions[id]) \ {sessions[id].members[places[id]]}
  <2>1. /\ id \in DOMAIN sessions /\ ~EndsWith(sessions[id], places[id])
        /\ left[id] = LeftBy(sessions[id], places[id])
    BY <1>1, <1>4
  <2>2. /\ Sound(sessions[id]) /\ places[id] \in DOMAIN sessions[id].members
        /\ sessions[id].members[places[id]].user = u
    BY <1>2, <1>4, <2>1 DEF Places
  <2>3. QED
    BY <2>1, <2>2, Departure
<1>5. QED
  BY <1>1, <1>3, <1>4 DEF left

\* Giving up a slot is leaving the session held there, and no other.
LEMMA GivingUp ==
    ASSUME IInv, NEW u \in Users, NEW i \in Indices
    PROVE  \E places :
            /\ LeaveSessionAtIndex(u, i) = Without(places) /\ Places(u, places)
            /\ DOMAIN places = HeldAt(u, i)
            /\ \A id \in DOMAIN places :
                sessions[id].members[places[id]] = [user |-> u, index |-> i]
<1> DEFINE e == [user |-> u, index |-> i]
           held == HeldAt(u, i)
           at(id) == CHOOSE j \in DOMAIN sessions[id].members : sessions[id].members[j] = e
           places == [id \in held |-> at(id)]
<1>1. \A id \in held : /\ id \in DOMAIN sessions /\ at(id) \in DOMAIN sessions[id].members
                       /\ sessions[id].members[at(id)] = e
  BY DEF HeldAt
<1>2. Places(u, places)
  <2>1. \A id \in DOMAIN places : id \in held /\ places[id] = at(id)
    OBVIOUS
  <2>2. e.user = u
    OBVIOUS
  <2> HIDE DEF places, held, at, e
  <2>3. QED
    BY <1>1, <2>1, <2>2 DEF Places
<1>3. LeaveSessionAtIndex(u, i) = Without(places)
  <2>1. CASE held = {}
    <3>1. sessions = [id \in DOMAIN sessions |-> sessions[id]]
      BY DEF IInv, TypeOK
    <3>2. DOMAIN places = {}
      BY <2>1
    <3> HIDE DEF places
    <3>3. Without(places) = [id \in DOMAIN sessions |-> sessions[id]]
      BY <3>2 DEF Without
    <3>4. QED
      BY <2>1, <3>1, <3>3 DEF LeaveSessionAtIndex
  <2>2. CASE held # {}
    <3> DEFINE id == AnyOf(held)
    <3>1. id \in held
      BY <2>2 DEF AnyOf
    <3>2. held = {id}
      BY <3>1 DEF IInv, OneSessionPerIndex
    <3>3. places = [x \in {id} |-> at(id)]
      <4>1. DOMAIN places = {id} /\ places[id] = at(id)
        BY <3>1, <3>2
      <4>2. places = [x \in DOMAIN places |-> places[x]]
        OBVIOUS
      <4> HIDE DEF places, id, at
      <4>3. QED
        BY <4>1, <4>2
    <3>4. LeaveSessionAtIndex(u, i) = Without([x \in {id} |-> at(id)])
      BY <2>2 DEF LeaveSessionAtIndex
    <3>5. QED
      BY <3>3, <3>4
  <2>3. QED
    BY <2>1, <2>2
<1>4. DOMAIN places = held /\ \A id \in DOMAIN places : sessions[id].members[places[id]] = e
  BY <1>1
<1>5. QED
  BY <1>2, <1>3, <1>4

\* Removing a user is leaving those of the sessions it is in.
LEMMA Removal ==
    ASSUME IInv, NEW u, NEW S \in SUBSET DOMAIN sessions
    PROVE  \E places :
            /\ RemoveMember(u, S) = Without(places) /\ Places(u, places)
            /\ DOMAIN places = {x \in S : u \in MembersOf(sessions[x])}
<1> DEFINE places == [id \in {x \in S : u \in MembersOf(sessions[x])} |-> PlaceOf(sessions[id], u)]
<1>1. ASSUME NEW id \in DOMAIN places
      PROVE  /\ id \in DOMAIN sessions /\ places[id] \in DOMAIN sessions[id].members
             /\ sessions[id].members[places[id]].user = u
  <2>1. id \in DOMAIN sessions /\ u \in MembersOf(sessions[id]) /\ places[id] = PlaceOf(sessions[id], u)
    BY <1>1
  <2>2. Sound(sessions[id])
    BY <2>1, AllSound
  <2>3. QED
    BY <2>1, <2>2, PlaceExists
<1>2. Places(u, places)
  BY <1>1 DEF Places
<1>3. RemoveMember(u, S) = Without(places)
  BY DEF RemoveMember
<1>4. QED
  BY <1>2, <1>3

(***************************************************************************)
(* What every step leaves: sound sessions that follow from those before,   *)
(* with nobody in a session who was not, but `comer`, and no slot in two.  *)
(***************************************************************************)

Follows(comer) ==
    /\ sessions' = [id \in DOMAIN sessions' |-> sessions'[id]]
    /\ DOMAIN sessions' \subseteq SessionIds
    /\ \A id \in DOMAIN sessions' :
        /\ Sound(sessions'[id])
        /\ \A u \in MembersOf(sessions'[id]) :
            u = comer \/ (id \in DOMAIN sessions /\ u \in MembersOf(sessions[id]))
        /\ id \in DOMAIN sessions =>
            Succeeds(sessions[id], sessions'[id]) /\ sessions'[id].type = sessions[id].type
    /\ \A id, other \in DOMAIN sessions' :
        \A e \in Entries(sessions'[id]) \cap Entries(sessions'[other]) : id = other

LEMMA FollowsFromDepartures ==
    ASSUME IInv, NEW u, NEW places, Places(u, places), sessions' = Without(places), NEW comer
    PROVE  Follows(comer)
<1>1. /\ sessions' = [id \in DOMAIN sessions' |-> sessions'[id]]
      /\ DOMAIN sessions' \subseteq DOMAIN sessions
      /\ \A id \in DOMAIN sessions' :
            /\ Sound(sessions'[id]) /\ Succeeds(sessions[id], sessions'[id])
            /\ sessions'[id].type = sessions[id].type
            /\ MembersOf(sessions'[id]) \subseteq MembersOf(sessions[id])
            /\ Entries(sessions'[id]) \subseteq Entries(sessions[id])
  BY Departures
<1>2. DOMAIN sessions \subseteq SessionIds
  BY DEF IInv, TypeOK
<1>3. ASSUME NEW id \in DOMAIN sessions', NEW other \in DOMAIN sessions',
             NEW e \in Entries(sessions'[id]) \cap Entries(sessions'[other])
      PROVE  id = other
  BY <1>1, SlotsApart
<1>4. QED
  BY <1>1, <1>2, <1>3 DEF Follows

LEMMA FollowsFromStandstill ==
    ASSUME IInv, UNCHANGED sessions, NEW comer
    PROVE  Follows(comer)
<1>1. sessions' = [id \in DOMAIN sessions' |-> sessions'[id]] /\ DOMAIN sessions' \subseteq SessionIds
  BY DEF IInv, TypeOK
<1>2. ASSUME NEW id \in DOMAIN sessions  PROVE Sound(sessions[id]) /\ Succeeds(sessions[id], sessions[id])
  <2>1. Sound(sessions[id]) /\ sessions[id].setting \in Settings
    BY AllSound DEF Sound, Session
  <2>2. QED
    BY <2>1, Standstill
<1>3. ASSUME NEW id \in DOMAIN sessions, NEW other \in DOMAIN sessions,
             NEW e \in Entries(sessions[id]) \cap Entries(sessions[other])
      PROVE  id = other
  BY SlotsApart
<1>4. QED
  BY <1>1, <1>2, <1>3 DEF Follows

LEMMA PurgeFollows ==
    ASSUME IInv, NEW u \in Users, PurgeUserFromSessions(u)
    PROVE  /\ Follows(NoUser)
           /\ \A id \in DOMAIN sessions' : u \notin MembersOf(sessions'[id])
<1>1. PICK places : /\ sessions' = Without(places) /\ Places(u, places)
                    /\ DOMAIN places = {x \in DOMAIN sessions : u \in MembersOf(sessions[x])}
  BY Removal DEF PurgeUserFromSessions
<1>2. ASSUME NEW id \in DOMAIN sessions'  PROVE u \notin MembersOf(sessions'[id])
  <2>1. CASE id \in DOMAIN places
    BY <1>1, <2>1, Departures
  <2>2. CASE id \notin DOMAIN places
    <3>1. id \in DOMAIN sessions /\ sessions'[id] = sessions[id]
      BY <1>1, <2>2, Departures
    <3>2. QED
      BY <1>1, <2>2, <3>1
  <2>3. QED
    BY <2>1, <2>2
<1>3. QED
  BY <1>1, <1>2, FollowsFromDepartures

LEMMA LeaveFollows ==
    ASSUME IInv, NEW u \in Users, NEW id \in SessionIds, NEW target \in Users,
           HandleSessionLeave(u, id, target)
    PROVE  Follows(NoUser)
<1>1. sessions' = RemoveMember(target, {id}) /\ {id} \in SUBSET DOMAIN sessions
  BY DEF HandleSessionLeave, Asks
<1>2. PICK places : sessions' = Without(places) /\ Places(target, places)
  BY <1>1, Removal
<1>3. QED
  BY <1>2, FollowsFromDepartures

LEMMA DeleteFollows ==
    ASSUME IInv, NEW u \in Users, NEW id \in SessionIds, HandleSessionDelete(u, id)
    PROVE  Follows(NoUser)
<1>1. sessions' = [x \in DOMAIN sessions \ {id} |-> sessions[x]]
  BY DEF HandleSessionDelete
<1>2. DOMAIN sessions' = DOMAIN sessions \ {id} /\ \A x \in DOMAIN sessions' : sessions'[x] = sessions[x]
  BY <1>1
<1>3. DOMAIN sessions \subseteq SessionIds
  BY DEF IInv, TypeOK
<1>4. ASSUME NEW x \in DOMAIN sessions'  PROVE /\ Sound(sessions'[x]) /\ Succeeds(sessions[x], sessions'[x])
                                               /\ sessions'[x].type = sessions[x].type
  <2>1. Sound(sessions[x]) /\ sessions[x].setting \in Settings
    BY <1>2, AllSound DEF Sound, Session
  <2>2. QED
    BY <1>2, <2>1, Standstill
<1>5. ASSUME NEW x \in DOMAIN sessions', NEW y \in DOMAIN sessions',
             NEW e \in Entries(sessions'[x]) \cap Entries(sessions'[y])
      PROVE  x = y
  BY <1>2, SlotsApart
<1>6. QED
  BY <1>1, <1>2, <1>3, <1>4, <1>5 DEF Follows

LEMMA UpdateFollows ==
    ASSUME IInv, NEW u \in Users, NEW id \in SessionIds, NEW setting \in Settings,
           HandleSessionUpdate(u, id, setting)
    PROVE  Follows(NoUser)
<1>1. id \in DOMAIN sessions /\ sessions' = [sessions EXCEPT ![id].setting = setting]
  BY DEF HandleSessionUpdate, Asks
<1>2. DOMAIN sessions \subseteq SessionIds /\ sessions = [x \in DOMAIN sessions |-> sessions[x]]
  BY DEF IInv, TypeOK
<1>3. /\ sessions' = [x \in DOMAIN sessions' |-> sessions'[x]]
      /\ DOMAIN sessions' = DOMAIN sessions
      /\ \A x \in DOMAIN sessions \ {id} : sessions'[x] = sessions[x]
      /\ sessions'[id] = [sessions[id] EXCEPT !.setting = setting]
  BY <1>1, <1>2
<1>4. ASSUME NEW x \in DOMAIN sessions
      PROVE  /\ Sound(sessions'[x]) /\ Succeeds(sessions[x], sessions'[x])
             /\ sessions'[x].type = sessions[x].type
             /\ MembersOf(sessions'[x]) = MembersOf(sessions[x])
             /\ Entries(sessions'[x]) = Entries(sessions[x])
  <2>1. Sound(sessions[x]) /\ sessions[x].setting \in Settings
    BY AllSound DEF Sound, Session
  <2>2. CASE x = id
    <3> DEFINE t == [sessions[x] EXCEPT !.setting = setting]
    <3>1. sessions'[x] = t
      BY <1>3, <2>2
    <3>2. /\ Sound(t) /\ Succeeds(sessions[x], t) /\ t.type = sessions[x].type
          /\ MembersOf(t) = MembersOf(sessions[x]) /\ Entries(t) = Entries(sessions[x])
      BY <2>1, Standstill
    <3> HIDE DEF t
    <3>3. QED
      BY <3>1, <3>2
  <2>3. CASE x # id
    BY <1>3, <2>1, <2>3, Standstill
  <2>4. QED
    BY <2>2, <2>3
<1>5. ASSUME NEW x \in DOMAIN sessions, NEW y \in DOMAIN sessions,
             NEW e \in Entries(sessions'[x]) \cap Entries(sessions'[y])
      PROVE  x = y
  BY <1>4, SlotsApart
<1>6. QED
  BY <1>2, <1>3, <1>4, <1>5 DEF Follows

\* Once the slot is given up, nobody's entry is the one that is to be made.
LEMMA SlotIsFree ==
    ASSUME IInv, NEW u \in Users, NEW i \in Indices
    PROVE  LET left == LeaveSessionAtIndex(u, i)
           IN  /\ left = [id \in DOMAIN left |-> left[id]]
               /\ DOMAIN left \subseteq DOMAIN sessions
               /\ \A id \in DOMAIN left :
                    /\ Sound(left[id]) /\ Succeeds(sessions[id], left[id])
                    /\ left[id].type = sessions[id].type
                    /\ MembersOf(left[id]) \subseteq MembersOf(sessions[id])
                    /\ Entries(left[id]) \subseteq Entries(sessions[id])
                    /\ [user |-> u, index |-> i] \notin Entries(left[id])
               /\ \A id \in DOMAIN sessions :
                    u \notin MembersOf(sessions[id]) => id \in DOMAIN left /\ left[id] = sessions[id]
<1> DEFINE left == LeaveSessionAtIndex(u, i)
           e == [user |-> u, index |-> i]
<1>1. PICK places :
        /\ left = Without(places) /\ Places(u, places) /\ DOMAIN places = HeldAt(u, i)
        /\ \A id \in DOMAIN places : sessions[id].members[places[id]] = e
  BY GivingUp
<1>2. \A id : id \in HeldAt(u, i) <=> id \in DOMAIN sessions /\ e \in Entries(sessions[id])
  BY DEF HeldAt, Entries
<1> HIDE DEF left, e
<1>3. /\ left = [id \in DOMAIN left |-> left[id]]
      /\ DOMAIN left \subseteq DOMAIN sessions
      /\ \A id \in DOMAIN sessions \ DOMAIN left : id \in DOMAIN places
      /\ \A id \in DOMAIN left :
            /\ Sound(left[id]) /\ Succeeds(sessions[id], left[id])
            /\ left[id].type = sessions[id].type
            /\ id \notin DOMAIN places => left[id] = sessions[id]
            /\ id \in DOMAIN places =>
                /\ MembersOf(left[id]) = MembersOf(sessions[id]) \ {u}
                /\ Entries(left[id]) = Entries(sessions[id]) \ {sessions[id].members[places[id]]}
  BY <1>1, Departures
<1>4. ASSUME NEW id \in DOMAIN left
      PROVE  /\ MembersOf(left[id]) \subseteq MembersOf(sessions[id])
             /\ Entries(left[id]) \subseteq Entries(sessions[id])
             /\ e \notin Entries(left[id])
  <2>1. CASE id \in DOMAIN places
    BY <1>1, <1>3, <2>1
  <2>2. CASE id \notin DOMAIN places
    BY <1>1, <1>2, <1>3, <2>2
  <2>3. QED
    BY <2>1, <2>2
<1>5. ASSUME NEW id \in DOMAIN sessions, u \notin MembersOf(sessions[id])
      PROVE  id \in DOMAIN left /\ left[id] = sessions[id]
  <2>1. id \notin DOMAIN places
    BY <1>1, <1>5 DEF Places, MembersOf
  <2>2. QED
    BY <1>3, <2>1
<1>6. QED
  BY <1>3, <1>4, <1>5 DEF left, e

LEMMA CreateFollows ==
    ASSUME IInv, NEW u \in Users, NEW id \in SessionIds, NEW type \in Types,
           NEW setting \in Settings, NEW i \in Indices,
           HandleSessionCreate(u, id, type, setting, i)
    PROVE  Follows(u)
<1> DEFINE others == LeaveSessionAtIndex(u, i)
           e == [user |-> u, index |-> i]
           new == [type |-> type, owner |-> u, setting |-> setting, members |-> <<e>>]
<1>1. /\ id \notin DOMAIN sessions
      /\ sessions' = [x \in DOMAIN others \cup {id} |-> IF x = id THEN new ELSE others[x]]
  BY DEF HandleSessionCreate, FreshSession
<1>2. /\ Sound(new) /\ MembersOf(new) = {u} /\ Entries(new) = {e}
  <2>1. e \in Member /\ e.user = u
    BY DEF Member
  <2> HIDE DEF e
  <2>2. <<e>> \in Seq(Member) /\ DOMAIN <<e>> = {1} /\ <<e>>[1] = e /\ <<e>> # <<>>
    BY <2>1
  <2>3. new \in Session
    BY <2>2 DEF Session
  <2>4. QED
    BY <2>1, <2>2, <2>3 DEF Sound, MembersOf, Entries
<1>3. /\ DOMAIN others \subseteq DOMAIN sessions
      /\ \A x \in DOMAIN others :
            /\ Sound(others[x]) /\ Succeeds(sessions[x], others[x])
            /\ others[x].type = sessions[x].type
            /\ MembersOf(others[x]) \subseteq MembersOf(sessions[x])
            /\ Entries(others[x]) \subseteq Entries(sessions[x])
            /\ e \notin Entries(others[x])
  BY SlotIsFree
<1>4. DOMAIN sessions \subseteq SessionIds
  BY DEF IInv, TypeOK
<1> HIDE DEF others, new, e
<1>5. /\ DOMAIN sessions' = DOMAIN others \cup {id}
      /\ sessions'[id] = new
      /\ \A x \in DOMAIN others : sessions'[x] = others[x]
  BY <1>1, <1>3
<1>6. ASSUME NEW x \in DOMAIN sessions', NEW y \in DOMAIN sessions',
             NEW f \in Entries(sessions'[x]) \cap Entries(sessions'[y])
      PROVE  x = y
  <2>1. CASE x = id \/ y = id
    BY <1>2, <1>3, <1>5, <2>1
  <2>2. CASE x # id /\ y # id
    BY <1>3, <1>5, <2>2, SlotsApart
  <2>3. QED
    BY <2>1, <2>2
<1>7. ASSUME NEW x \in DOMAIN sessions'
      PROVE  /\ Sound(sessions'[x])
             /\ \A v \in MembersOf(sessions'[x]) :
                    v = u \/ (x \in DOMAIN sessions /\ v \in MembersOf(sessions[x]))
             /\ x \in DOMAIN sessions =>
                    Succeeds(sessions[x], sessions'[x]) /\ sessions'[x].type = sessions[x].type
  <2>1. CASE x = id
    BY <1>1, <1>2, <1>5, <2>1
  <2>2. CASE x # id
    BY <1>3, <1>5, <2>2
  <2>3. QED
    BY <2>1, <2>2
<1>8. sessions' = [x \in DOMAIN sessions' |-> sessions'[x]]
  BY <1>1
<1>9. QED
  BY <1>3, <1>4, <1>5, <1>6, <1>7, <1>8 DEF Follows

LEMMA JoinFollows ==
    ASSUME IInv, NEW u \in Users, NEW id \in SessionIds, NEW i \in Indices,
           HandleSessionJoin(u, id, i)
    PROVE  Follows(u)
<1> DEFINE others == LeaveSessionAtIndex(u, i)
           e == [user |-> u, index |-> i]
           joined == [sessions[id] EXCEPT !.members = Append(@, e)]
<1>1. /\ id \in DOMAIN sessions /\ u \notin MembersOf(sessions[id]) /\ Admits(sessions[id])
      /\ sessions' = [others EXCEPT ![id].members = Append(@, e)]
  BY DEF HandleSessionJoin
<1>2. /\ others = [x \in DOMAIN others |-> others[x]]
      /\ DOMAIN others \subseteq DOMAIN sessions
      /\ \A x \in DOMAIN others :
            /\ Sound(others[x]) /\ Succeeds(sessions[x], others[x])
            /\ others[x].type = sessions[x].type
            /\ MembersOf(others[x]) \subseteq MembersOf(sessions[x])
            /\ Entries(others[x]) \subseteq Entries(sessions[x])
            /\ e \notin Entries(others[x])
      /\ id \in DOMAIN others /\ others[id] = sessions[id]
  BY <1>1, SlotIsFree
<1>3. /\ Sound(joined) /\ Succeeds(sessions[id], joined) /\ joined.type = sessions[id].type
      /\ MembersOf(joined) = MembersOf(sessions[id]) \cup {u}
      /\ Entries(joined) = Entries(sessions[id]) \cup {e}
  <2>1. Sound(sessions[id])
    BY <1>1, AllSound
  <2>2. u \in Users \ MembersOf(sessions[id]) /\ Admits(sessions[id])
    BY <1>1
  <2>3. PICK t : t = [sessions[id] EXCEPT !.members = Append(@, [user |-> u, index |-> i])]
    OBVIOUS
  <2> HIDE DEF others
  <2>4. /\ Sound(t) /\ t.type = sessions[id].type
        /\ MembersOf(t) = MembersOf(sessions[id]) \cup {u}
        /\ Entries(t) = Entries(sessions[id]) \cup {[user |-> u, index |-> i]}
        /\ Succeeds(sessions[id], t)
    BY ONLY <2>1, <2>2, <2>3, ArrivalNamed
  <2>5. joined = t
    BY <2>3
  <2>6. QED
    BY <2>4, <2>5
<1>4. DOMAIN sessions \subseteq SessionIds
  BY DEF IInv, TypeOK
<1> HIDE DEF others, e
<1>5. /\ DOMAIN sessions' = DOMAIN others
      /\ sessions'[id] = joined
      /\ \A x \in DOMAIN others : x # id => sessions'[x] = others[x]
      /\ sessions' = [x \in DOMAIN sessions' |-> sessions'[x]]
  BY <1>1, <1>2
<1> HIDE DEF joined
<1>6. \A x \in DOMAIN sessions' : Entries(sessions'[x]) \subseteq Entries(sessions[x]) \cup {e}
  BY <1>2, <1>3, <1>5
<1>7. \A x \in DOMAIN sessions' : e \in Entries(sessions'[x]) => x = id
  BY <1>2, <1>5
<1>8. ASSUME NEW x \in DOMAIN sessions', NEW y \in DOMAIN sessions',
             NEW f \in Entries(sessions'[x]) \cap Entries(sessions'[y])
      PROVE  x = y
  <2>1. CASE f = e
    BY <1>7, <2>1
  <2>2. CASE f # e
    BY <1>2, <1>5, <1>6, <2>2, SlotsApart
  <2>3. QED
    BY <2>1, <2>2
<1>9. ASSUME NEW x \in DOMAIN sessions'
      PROVE  /\ Sound(sessions'[x]) /\ Succeeds(sessions[x], sessions'[x])
             /\ sessions'[x].type = sessions[x].type
             /\ \A v \in MembersOf(sessions'[x]) : v = u \/ v \in MembersOf(sessions[x])
  <2>1. CASE x = id
    BY <1>3, <1>5, <2>1
  <2>2. CASE x # id
    BY <1>2, <1>5, <2>2
  <2>3. QED
    BY <2>1, <2>2
<1>10. QED
  BY <1>2, <1>4, <1>5, <1>8, <1>9 DEF Follows

(***************************************************************************)
(* The invariant.                                                          *)
(***************************************************************************)

\* A user that may be a member now, or was one that may have been.
MayStay(u) == connection[u] = "open" \/ u \in late

LEMMA MembersStayOnline ==
    ASSUME IInv, NEW comer, Follows(comer),
           comer \in Users => MayStay(comer)',
           \A id \in DOMAIN sessions' : \A u \in MembersOf(sessions'[id]) :
                u \in Users /\ MayStay(u) => MayStay(u)'
    PROVE  MembersAreOnline'
<1> SUFFICES ASSUME NEW id \in DOMAIN sessions', NEW u \in MembersOf(sessions'[id])
             PROVE  MayStay(u)'
  BY DEF MembersAreOnline, MembersOf, MayStay
<1>1. PICK k \in DOMAIN sessions'[id].members : u = sessions'[id].members[k].user
  BY DEF MembersOf
<1>2. sessions'[id].members \in Seq(Member)
  BY DEF Follows, Sound, Session
<1>3. sessions'[id].members[k] \in Member
  BY <1>1, <1>2
<1>4. u \in Users
  BY <1>1, <1>3 DEF Member
<1>5. CASE u = comer
  BY <1>4, <1>5
<1>6. CASE id \in DOMAIN sessions /\ u \in MembersOf(sessions[id])
  <2>1. MayStay(u)
    BY <1>6 DEF IInv, MembersAreOnline, MayStay
  <2>2. QED
    BY <1>4, <2>1
<1>7. QED
  BY <1>5, <1>6 DEF Follows

\* Every step has the sessions follow from those before, and lets nobody be a
\* member that is neither online nor excused.
LEMMA StepFollows ==
    ASSUME IInv, [Next]_vars
    PROVE  \E comer : Follows(comer) /\ MembersAreOnline'
<1> USE DEF MayStay
<1>0. connection \in [Users -> {"none", "open", "purged", "deleted"}] /\ late \subseteq Users
  BY DEF IInv, TypeOK
<1>1. ASSUME UNCHANGED <<sessions, connection, late>>
      PROVE  Follows(NoUser) /\ MembersAreOnline'
  BY <1>0, <1>1, FollowsFromStandstill, MembersStayOnline, NobodyAssumption
<1>2. ASSUME NEW u \in Users, Login(u) \/ CleanupOnDisconnect(u)
      PROVE  Follows(NoUser) /\ MembersAreOnline'
  <2>1. /\ UNCHANGED <<sessions, late>> /\ connection[u] # "open"
        /\ \E c : connection' = [connection EXCEPT ![u] = c]
    BY <1>2 DEF Login, CleanupOnDisconnect
  <2>2. \A v \in Users : MayStay(v) => MayStay(v)'
    BY <1>0, <2>1
  <2>3. QED
    BY <2>1, <2>2, FollowsFromStandstill, MembersStayOnline, NobodyAssumption
<1>3. ASSUME NEW u \in Users, PurgeUserFromSessions(u)
      PROVE  Follows(NoUser) /\ MembersAreOnline'
  <2>1. \A v \in Users \ {u} : MayStay(v) => MayStay(v)'
    BY <1>0, <1>3 DEF PurgeUserFromSessions
  <2>2. QED
    BY <1>3, <2>1, PurgeFollows, MembersStayOnline, NobodyAssumption
<1>4. ASSUME NEW u \in Users, CmdDelete(u)
      PROVE  Follows(NoUser) /\ MembersAreOnline'
  <2>1. UNCHANGED sessions
    BY <1>4 DEF CmdDelete
  <2>2. ASSUME NEW id \in DOMAIN sessions', NEW v \in MembersOf(sessions'[id]), MayStay(v), v \in Users
        PROVE  MayStay(v)'
    <3>1. CASE v = u
      BY <1>4, <2>1, <2>2, <3>1 DEF CmdDelete
    <3>2. CASE v # u
      BY <1>0, <1>4, <2>2, <3>2 DEF CmdDelete
    <3>3. QED
      BY <3>1, <3>2
  <2>3. QED
    BY <2>1, <2>2, FollowsFromStandstill, MembersStayOnline, NobodyAssumption
<1>5. ASSUME NEW u \in Users, Enters(u), Follows(u)
      PROVE  Follows(u) /\ MembersAreOnline'
  <2>1. MayStay(u)' /\ \A v \in Users : MayStay(v) => MayStay(v)'
    BY <1>0, <1>5 DEF Enters
  <2>2. QED
    BY <1>5, <2>1, MembersStayOnline
<1>6. ASSUME NEW u \in Users, NEW id \in SessionIds, NEW type \in Types, NEW setting \in Settings,
             NEW i \in Indices, HandleSessionCreate(u, id, type, setting, i)
      PROVE  Follows(u) /\ MembersAreOnline'
  <2>1. Enters(u)
    BY <1>6 DEF HandleSessionCreate
  <2>2. QED
    BY <1>5, <1>6, <2>1, CreateFollows
<1>7. ASSUME NEW u \in Users, NEW id \in SessionIds, NEW i \in Indices, HandleSessionJoin(u, id, i)
      PROVE  Follows(u) /\ MembersAreOnline'
  <2>1. Enters(u)
    BY <1>7 DEF HandleSessionJoin
  <2>2. QED
    BY <1>5, <1>7, <2>1, JoinFollows
<1>8. ASSUME NEW u \in Users, NEW id \in SessionIds,
             \/ \E setting \in Settings : HandleSessionUpdate(u, id, setting)
             \/ HandleSessionDelete(u, id)
             \/ \E target \in Users : HandleSessionLeave(u, id, target)
      PROVE  Follows(NoUser) /\ MembersAreOnline'
  <2>1. Follows(NoUser)
    BY <1>8, UpdateFollows, DeleteFollows, LeaveFollows
  <2>2. UNCHANGED <<connection, late>>
    BY <1>8 DEF HandleSessionUpdate, HandleSessionDelete, HandleSessionLeave
  <2>3. QED
    BY <2>1, <2>2, MembersStayOnline, NobodyAssumption
<1>9. CASE UNCHANGED vars
  BY <1>1, <1>9 DEF vars
<1>10. CASE Refuse
  BY <1>1, <1>10 DEF Refuse
<1>11. ASSUME NEW u \in Users,
              \/ FindOnline(u)
              \/ \E to \in SUBSET Users \ {{}}, id \in SessionIds : HandleSessionInvite(u, id, to)
              \/ \E n \in InvitationIds : HandleInvitationUse(u, n)
       PROVE  Follows(NoUser) /\ MembersAreOnline'
  <2>1. UNCHANGED <<sessions, connection, late>>
    BY <1>11 DEF FindOnline, HandleSessionInvite, HandleInvitationUse
  <2>2. QED
    BY <1>1, <2>1
<1>12. QED
  BY <1>2, <1>3, <1>4, <1>6, <1>7, <1>8, <1>9, <1>10, <1>11 DEF Next

\* What is neither a session nor a membership keeps its type.
LEMMA RestKeepsType ==
    ASSUME IInv, [Next]_vars
    PROVE  /\ connection' \in [Users -> {"none", "open", "purged", "deleted"}]
           /\ DOMAIN invitations' \subseteq InvitationIds
           /\ invitations' \in [DOMAIN invitations' -> Invitation]
           /\ checked' \in Users \cup {NoUser}
           /\ late' \subseteq Users
<1> USE DEF IInv, TypeOK
<1>1. ASSUME UNCHANGED invitations
      PROVE  DOMAIN invitations' \subseteq InvitationIds /\ invitations' \in [DOMAIN invitations' -> Invitation]
  BY <1>1
<1>2. CASE UNCHANGED vars
  BY <1>2 DEF vars
<1>3. CASE Refuse
  BY <1>1, <1>3 DEF Refuse
<1>4. ASSUME NEW u \in Users,
             Login(u) \/ PurgeUserFromSessions(u) \/ CleanupOnDisconnect(u) \/ CmdDelete(u) \/ FindOnline(u)
      PROVE  /\ connection' \in [Users -> {"none", "open", "purged", "deleted"}]
             /\ checked' \in Users \cup {NoUser} /\ late' \subseteq Users /\ UNCHANGED invitations
  BY <1>4 DEF Login, PurgeUserFromSessions, CleanupOnDisconnect, CmdDelete, FindOnline
<1>5. ASSUME NEW u \in Users, NEW id \in SessionIds,
             \/ \E type \in Types, setting \in Settings, i \in Indices :
                    HandleSessionCreate(u, id, type, setting, i)
             \/ \E i \in Indices : HandleSessionJoin(u, id, i)
             \/ \E setting \in Settings : HandleSessionUpdate(u, id, setting)
             \/ HandleSessionDelete(u, id)
             \/ \E target \in Users : HandleSessionLeave(u, id, target)
      PROVE  /\ UNCHANGED <<connection, invitations>>
             /\ checked' \in Users \cup {NoUser} /\ late' \subseteq Users
  <2>1. CASE Enters(u)
    BY <2>1 DEF Enters
  <2>2. CASE UNCHANGED <<connection, invitations, checked, late>>
    BY <2>2
  <2>3. QED
    BY <1>5, <2>1, <2>2 DEF HandleSessionCreate, HandleSessionJoin, HandleSessionUpdate,
        HandleSessionDelete, HandleSessionLeave
<1>6. ASSUME NEW u \in Users, NEW to \in SUBSET Users \ {{}}, NEW id \in SessionIds,
             HandleSessionInvite(u, id, to)
      PROVE  /\ UNCHANGED <<connection, checked, late>>
             /\ DOMAIN invitations' \subseteq InvitationIds
             /\ invitations' \in [DOMAIN invitations' -> Invitation]
  <2>0. PICK sent \in SUBSET (InvitationIds \ DOMAIN invitations) :
            \E for \in Bijection(sent, to) :
                invitations' = [n \in DOMAIN invitations \cup sent |->
                    IF n \in sent THEN [session |-> id, to |-> for[n], used |-> FALSE]
                    ELSE invitations[n]]
    BY <1>6 DEF HandleSessionInvite
  <2>1. PICK for \in Bijection(sent, to) :
            invitations' = [n \in DOMAIN invitations \cup sent |->
                IF n \in sent THEN [session |-> id, to |-> for[n], used |-> FALSE]
                ELSE invitations[n]]
    BY <2>0
  <2>2. for \in [sent -> to]
    BY DEF Bijection, Injection
  <2>3. \A n \in sent : [session |-> id, to |-> for[n], used |-> FALSE] \in Invitation
    BY <2>2 DEF Invitation
  <2>4. QED
    BY <1>6, <2>1, <2>3 DEF HandleSessionInvite
<1>7. ASSUME NEW u \in Users, NEW n \in InvitationIds, HandleInvitationUse(u, n)
      PROVE  /\ UNCHANGED <<connection, checked, late>>
             /\ DOMAIN invitations' \subseteq InvitationIds
             /\ invitations' \in [DOMAIN invitations' -> Invitation]
  <2>1. n \in DOMAIN invitations /\ invitations' = [invitations EXCEPT ![n].used = TRUE]
    BY <1>7 DEF HandleInvitationUse
  <2>2. [invitations[n] EXCEPT !.used = TRUE] \in Invitation
    BY <2>1 DEF Invitation
  <2>3. QED
    BY <1>7, <2>1, <2>2 DEF HandleInvitationUse
<1>8. QED
  BY <1>1, <1>2, <1>3, <1>4, <1>5, <1>6, <1>7 DEF Next, Refuse

LEMMA IInvInductive == IInv /\ [Next]_vars => IInv'
<1> SUFFICES ASSUME IInv, [Next]_vars PROVE IInv'
  OBVIOUS
<1>1. PICK comer : Follows(comer) /\ MembersAreOnline'
  BY StepFollows
<1>2. TypeOK'
  <2>1. DOMAIN sessions' \subseteq SessionIds /\ sessions' \in [DOMAIN sessions' -> Session]
    BY <1>1 DEF Follows, Sound
  <2>2. QED
    BY <2>1, RestKeepsType DEF TypeOK
<1>3. OwnerIsSenior'
  BY <1>1 DEF Follows, Sound, OwnerIsSenior
<1>4. OneSessionPerIndex'
  <2> SUFFICES ASSUME NEW u \in Users, NEW i \in Indices,
                      NEW id \in HeldAt(u, i)', NEW other \in HeldAt(u, i)'
               PROVE  id = other
    BY DEF OneSessionPerIndex
  <2> DEFINE e == [user |-> u, index |-> i]
  <2>1. /\ id \in DOMAIN sessions' /\ e \in Entries(sessions'[id])
        /\ other \in DOMAIN sessions' /\ e \in Entries(sessions'[other])
    BY DEF HeldAt, Entries
  <2>2. QED
    BY <1>1, <2>1 DEF Follows
<1>5. QED
  BY <1>1, <1>2, <1>3, <1>4 DEF IInv

LEMMA IInvInitially == Init => IInv
<1> SUFFICES ASSUME Init PROVE IInv
  OBVIOUS
<1>1. DOMAIN sessions = {} /\ DOMAIN invitations = {}
  BY DEF Init
<1>2. sessions \in [DOMAIN sessions -> Session] /\ invitations \in [DOMAIN invitations -> Invitation]
  BY <1>1 DEF Init
<1>3. TypeOK
  BY <1>1, <1>2 DEF Init, TypeOK
<1>4. QED
  BY <1>1, <1>3 DEF IInv, OwnerIsSenior, OneSessionPerIndex, MembersAreOnline, HeldAt

\* Whatever the users do, the invariant holds.
THEOREM Invariance == Spec => []IInv
<1>1. Init => IInv
  BY IInvInitially
<1>2. IInv /\ [Next]_vars => IInv'
  BY IInvInductive
<1>3. QED
  BY <1>1, <1>2, PTL DEF Spec

\* Sessions, invitations and connections keep their types: an owner, for one, is
\* always an account.
THEOREM TypeCorrect == Spec => []TypeOK
<1>1. IInv => TypeOK
  BY DEF IInv
<1>2. QED
  BY <1>1, Invariance, PTL

\* A session has members, each once, and its owner is the most senior of them.
THEOREM OwnersAreSenior == Spec => []OwnerIsSenior
<1>1. IInv => OwnerIsSenior
  BY DEF IInv
<1>2. QED
  BY <1>1, Invariance, PTL

\* No slot of a user holds two sessions.
THEOREM OneSlotOneSession == Spec => []OneSessionPerIndex
<1>1. IInv => OneSessionPerIndex
  BY DEF IInv
<1>2. QED
  BY <1>1, Invariance, PTL

\* A member that is not online was let in late, or has deleted its account.
THEOREM MembersStay == Spec => []MembersAreOnline
<1>1. IInv => MembersAreOnline
  BY DEF IInv
<1>2. QED
  BY <1>1, Invariance, PTL

\* Sessions are inherited by seniority, and joined at their end.
THEOREM SeniorityAlwaysKept == Spec => SeniorityKept
<1>1. IInv /\ [Next]_vars =>
        \A id \in DOMAIN sessions \cap DOMAIN sessions' : Succeeds(sessions[id], sessions'[id])
  <2> SUFFICES ASSUME IInv, [Next]_vars, NEW id \in DOMAIN sessions \cap DOMAIN sessions'
               PROVE  Succeeds(sessions[id], sessions'[id])
    OBVIOUS
  <2>1. PICK comer : Follows(comer)
    BY StepFollows
  <2>2. QED
    BY <2>1 DEF Follows
<1>2. QED
  BY <1>1, Invariance, PTL DEF Spec, SeniorityKept

\* Invitations stay, and once used are never taken back.
LEMMA InvitationsLast ==
    ASSUME [Next]_vars, NEW n \in DOMAIN invitations \cap DOMAIN invitations'
    PROVE  /\ invitations'[n].to = invitations[n].to
           /\ invitations'[n].session = invitations[n].session
           /\ invitations[n].used => invitations'[n].used
<1>1. CASE UNCHANGED invitations
  BY <1>1
<1>2. ASSUME NEW u \in Users, NEW m \in InvitationIds, HandleInvitationUse(u, m)
      PROVE  /\ invitations'[n].to = invitations[n].to
             /\ invitations'[n].session = invitations[n].session
             /\ invitations[n].used => invitations'[n].used
  BY <1>2 DEF HandleInvitationUse
<1>3. ASSUME NEW u \in Users, NEW to \in SUBSET Users \ {{}}, NEW id \in SessionIds,
             HandleSessionInvite(u, id, to)
      PROVE  invitations'[n] = invitations[n]
  BY <1>3 DEF HandleSessionInvite
<1>4. ASSUME NEW u \in Users, NEW id \in SessionIds,
             \/ \E type \in Types, setting \in Settings, i \in Indices :
                    HandleSessionCreate(u, id, type, setting, i)
             \/ \E i \in Indices : HandleSessionJoin(u, id, i)
             \/ \E setting \in Settings : HandleSessionUpdate(u, id, setting)
             \/ HandleSessionDelete(u, id)
             \/ \E target \in Users : HandleSessionLeave(u, id, target)
      PROVE  UNCHANGED invitations
  BY <1>4 DEF Enters, HandleSessionCreate, HandleSessionJoin, HandleSessionUpdate,
    HandleSessionDelete, HandleSessionLeave
<1>5. ASSUME NEW u \in Users,
             \/ Login(u) \/ PurgeUserFromSessions(u) \/ CleanupOnDisconnect(u) \/ CmdDelete(u)
             \/ FindOnline(u)
      PROVE  UNCHANGED invitations
  BY <1>5 DEF Login, PurgeUserFromSessions, CleanupOnDisconnect, CmdDelete, FindOnline
<1>6. (Refuse \/ UNCHANGED vars) => UNCHANGED invitations
  BY DEF Refuse, vars
<1>7. QED
  BY <1>1, <1>2, <1>3, <1>4, <1>5, <1>6 DEF Next

\* A session that is new has its creator in it, and nobody is invited to it.
LEMMA NewSessions ==
    ASSUME IInv, [Next]_vars, NEW id \in DOMAIN sessions', id \notin DOMAIN sessions
    PROVE  /\ \E w \in Users : MembersOf(sessions'[id]) = {w}
           /\ \A n \in DOMAIN invitations' : invitations'[n].session # id
<1>1. \A places : DOMAIN Without(places) \subseteq DOMAIN sessions
  BY DEF Without
<1>2. \A u, i : DOMAIN LeaveSessionAtIndex(u, i) \subseteq DOMAIN sessions
  BY <1>1 DEF LeaveSessionAtIndex
<1>3. ASSUME NEW u \in Users, NEW new \in SessionIds, NEW type \in Types, NEW setting \in Settings,
             NEW i \in Indices, HandleSessionCreate(u, new, type, setting, i)
      PROVE  /\ MembersOf(sessions'[id]) = {u}
             /\ \A n \in DOMAIN invitations' : invitations'[n].session # id
  <2> DEFINE others == LeaveSessionAtIndex(u, i)
             e == [user |-> u, index |-> i]
             made == [type |-> type, owner |-> u, setting |-> setting, members |-> <<e>>]
  <2>1. /\ sessions' = [x \in DOMAIN others \cup {new} |-> IF x = new THEN made ELSE others[x]]
        /\ invitations' = invitations
        /\ \A n \in DOMAIN invitations : invitations[n].session # new
    BY <1>3 DEF HandleSessionCreate, Enters, FreshSession
  <2>2. DOMAIN others \subseteq DOMAIN sessions
    BY <1>2
  <2>3. made.members = <<e>> /\ e.user = u
    OBVIOUS
  <2> HIDE DEF others, made, e
  <2>4. id = new /\ sessions'[id] = made
    BY <2>1, <2>2
  <2>5. DOMAIN <<e>> = {1} /\ <<e>>[1] = e
    OBVIOUS
  <2>6. MembersOf(made) = {u}
    BY <2>3, <2>5 DEF MembersOf
  <2>7. QED
    BY <2>1, <2>4, <2>6
<1>4. ASSUME NEW u \in Users, NEW x \in SessionIds,
             \/ \E i \in Indices : HandleSessionJoin(u, x, i)
             \/ \E setting \in Settings : HandleSessionUpdate(u, x, setting)
             \/ HandleSessionDelete(u, x)
             \/ \E target \in Users : HandleSessionLeave(u, x, target)
      PROVE  FALSE
  BY <1>1, <1>2, <1>4 DEF HandleSessionJoin, HandleSessionUpdate, HandleSessionDelete,
    HandleSessionLeave, RemoveMember
<1>5. ASSUME NEW u \in Users, PurgeUserFromSessions(u)
      PROVE  FALSE
  BY <1>1, <1>5 DEF PurgeUserFromSessions, RemoveMember
<1>6. ASSUME NEW u \in Users,
             \/ Login(u) \/ CleanupOnDisconnect(u) \/ CmdDelete(u) \/ FindOnline(u)
             \/ \E to \in SUBSET Users \ {{}}, x \in SessionIds : HandleSessionInvite(u, x, to)
             \/ \E n \in InvitationIds : HandleInvitationUse(u, n)
      PROVE  FALSE
  BY <1>6 DEF Login, CleanupOnDisconnect, CmdDelete, FindOnline, HandleSessionInvite,
    HandleInvitationUse
<1>7. ~(Refuse \/ UNCHANGED vars)
  BY DEF Refuse, vars
<1>8. QED
  BY <1>3, <1>4, <1>5, <1>6, <1>7 DEF Next

\* Nobody is shown a session because of something that was not done for them, or
\* that was done for another session.
THEOREM DisclosureAlwaysGranted == Spec => DisclosureIsGranted
<1> DEFINE Granted(u, v, id) ==
        \/ id \notin DOMAIN sessions /\ (u = v \/ ~Private(id)')
        \/ /\ id \in DOMAIN sessions
           /\ \/ Private(id) /\ ~Private(id)'
              \/ Comes(u, id)
              \/ InvitedTo(u, id)
              \/ Comes(v, id) /\ MaySee(u, id)
<1>1. ASSUME IInv, [Next]_vars, NEW u \in Users, NEW v \in Users,
             NEW id \in CollectUserSessions(v, u)' \ CollectUserSessions(v, u)
      PROVE  Granted(u, v, id)
  <2>1. /\ id \in DOMAIN sessions' /\ v \in MembersOf(sessions'[id]) /\ MaySee(u, id)'
        /\ ~(id \in DOMAIN sessions /\ v \in MembersOf(sessions[id]) /\ MaySee(u, id))
    BY <1>1 DEF CollectUserSessions, MembersOf
  <2>2. \/ ~Private(id)'
        \/ u \in MembersOf(sessions'[id])
        \/ \E n \in DOMAIN invitations' :
            invitations'[n].to = u /\ invitations'[n].session = id /\ ~invitations'[n].used
    BY <2>1 DEF MaySee, Private, Invited, MembersOf
  <2>3. CASE id \notin DOMAIN sessions
    <3>1. /\ \E w \in Users : MembersOf(sessions'[id]) = {w}
          /\ \A n \in DOMAIN invitations' : invitations'[n].session # id
      BY <1>1, <2>1, <2>3, NewSessions
    <3>2. u = v \/ ~Private(id)'
      BY <2>1, <2>2, <3>1
    <3>3. QED
      BY <2>3, <3>2
  <2>4. CASE id \in DOMAIN sessions /\ MaySee(u, id)
    BY <2>1, <2>4 DEF Comes
  <2>5. CASE id \in DOMAIN sessions /\ ~MaySee(u, id)
    <3>1. Private(id) /\ u \notin MembersOf(sessions[id]) /\ ~Invited(u, id)
      BY <2>5 DEF MaySee, Private
    <3>2. ASSUME NEW n \in DOMAIN invitations',
                 invitations'[n].to = u, invitations'[n].session = id, ~invitations'[n].used
          PROVE  InvitedTo(u, id)
      <4>1. ASSUME n \in DOMAIN invitations
            PROVE  FALSE
        <5>1. invitations[n].to = u /\ invitations[n].session = id /\ ~invitations[n].used
          BY <1>1, <3>2, <4>1, InvitationsLast
        <5>2. QED
          BY <3>1, <4>1, <5>1 DEF Invited
      <4>2. QED
        BY <3>2, <4>1 DEF InvitedTo
    <3>3. QED
      BY <2>2, <2>5, <3>1, <3>2 DEF Comes
  <2>6. QED
    BY <2>3, <2>4, <2>5
<1>2. IInv /\ [Next]_vars =>
        [\A u, v \in Users : \A id \in CollectUserSessions(v, u)' \ CollectUserSessions(v, u) :
            Granted(u, v, id)]_vars
  BY <1>1
<1>3. QED
  BY <1>2, Invariance, PTL DEF Spec, DisclosureIsGranted

(***************************************************************************)
(* The implementation of Parties.  Seats are studied in any sessions S, so *)
(* that what is said of them can be used before and after a step.          *)
(***************************************************************************)

Apart(S) ==
    /\ DOMAIN S \subseteq SessionIds
    /\ \A id \in DOMAIN S : Sound(S[id])
    /\ \A id, other \in DOMAIN S :
        \A e \in Entries(S[id]) \cap Entries(S[other]) : id = other

Slot(x) == [user |-> x[1], index |-> x[2]]
HeldIn(S, x) == {id \in DOMAIN S : Slot(x) \in Entries(S[id])}
SeatIn(S, x) == IF HeldIn(S, x) = {} THEN NoSession ELSE AnyOf(HeldIn(S, x))

LEMMA SeatIsHeld ==
    ASSUME NEW S, Apart(S), NEW x
    PROVE  /\ SeatIn(S, x) = NoSession \/ SeatIn(S, x) \in DOMAIN S
           /\ NoSession \notin DOMAIN S
           /\ \A id \in DOMAIN S : SeatIn(S, x) = id <=> Slot(x) \in Entries(S[id])
<1>1. NoSession \notin DOMAIN S
  BY NobodyAssumption DEF Apart
<1>2. CASE HeldIn(S, x) = {}
  BY <1>1, <1>2 DEF HeldIn, SeatIn
<1>3. CASE HeldIn(S, x) # {}
  <2>1. SeatIn(S, x) \in HeldIn(S, x)
    BY <1>3 DEF SeatIn, AnyOf
  <2>2. \A id, other \in HeldIn(S, x) : id = other
    BY DEF HeldIn, Apart
  <2>3. \A id : id \in HeldIn(S, x) <=> id \in DOMAIN S /\ Slot(x) \in Entries(S[id])
    BY DEF HeldIn
  <2>4. QED
    BY <1>1, <2>1, <2>2, <2>3
<1>4. QED
  BY <1>2, <1>3

LEMMA SeatsAre ==
    /\ seat = [x \in Users \X Indices |-> SeatIn(sessions, x)]
    /\ seat' = [x \in Users \X Indices |-> SeatIn(sessions', x)]
<1>1. ASSUME NEW u \in Users, NEW i \in Indices
      PROVE  /\ HeldAt(u, i) = HeldIn(sessions, <<u, i>>)
             /\ HeldAt(u, i)' = HeldIn(sessions', <<u, i>>)
  BY DEF HeldAt, HeldIn, Entries, Slot
<1>2. ASSUME NEW u \in Users, NEW i \in Indices
      PROVE  /\ SeatOf(u, i) = SeatIn(sessions, <<u, i>>)
             /\ SeatOf(u, i)' = SeatIn(sessions', <<u, i>>)
  BY <1>1 DEF SeatOf, SeatIn
<1>3. \A x \in Users \X Indices : x = <<x[1], x[2]>> /\ x[1] \in Users /\ x[2] \in Indices
  OBVIOUS
<1>4. \A x \in Users \X Indices :
        SeatOf(x[1], x[2]) = SeatIn(sessions, x) /\ SeatOf(x[1], x[2])' = SeatIn(sessions', x)
  BY <1>2, <1>3
<1>5. QED
  BY <1>4 DEF seat

LEMMA BothApart ==
    ASSUME IInv, NEW comer, Follows(comer)
    PROVE  Apart(sessions) /\ Apart(sessions')
<1>1. ASSUME NEW id \in DOMAIN sessions, NEW other \in DOMAIN sessions,
             NEW e \in Entries(sessions[id]) \cap Entries(sessions[other])
      PROVE  id = other
  BY SlotsApart
<1>2. Apart(sessions)
  BY <1>1, AllSound DEF Apart, IInv, TypeOK
<1>3. Apart(sessions')
  BY DEF Apart, Follows
<1>4. QED
  BY <1>2, <1>3

\* A member has a seat in its session.
LEMMA MembersAreSeated ==
    ASSUME NEW S, Apart(S), NEW id \in DOMAIN S, NEW u
    PROVE  u \in MembersOf(S[id]) <=> u \in Users /\ \E i \in Indices : SeatIn(S, <<u, i>>) = id
<1>1. Sound(S[id]) /\ S[id].members \in Seq(Member)
  BY DEF Apart, Sound, Session
<1>2. ASSUME u \in MembersOf(S[id])
      PROVE  u \in Users /\ \E i \in Indices : SeatIn(S, <<u, i>>) = id
  <2>1. PICK k \in DOMAIN S[id].members : S[id].members[k].user = u
    BY <1>2 DEF MembersOf
  <2>2. S[id].members[k] \in Member
    BY <1>1, <2>1
  <2>3. PICK i \in Indices : S[id].members[k] = [user |-> u, index |-> i] /\ u \in Users
    BY <2>1, <2>2 DEF Member
  <2>4. Slot(<<u, i>>) \in Entries(S[id])
    BY <2>3 DEF Slot, Entries
  <2>5. QED
    BY <2>3, <2>4, SeatIsHeld
<1>3. ASSUME u \in Users, NEW i \in Indices, SeatIn(S, <<u, i>>) = id
      PROVE  u \in MembersOf(S[id])
  <2>1. Slot(<<u, i>>) \in Entries(S[id])
    BY <1>3, SeatIsHeld
  <2>2. QED
    BY <2>1 DEF Slot, Entries, MembersOf
<1>4. QED
  BY <1>2, <1>3

\* Hosts are as promised whenever the sessions follow from those before.
LEMMA HostsDoFollow ==
    ASSUME IInv, NEW comer, Follows(comer)
    PROVE  /\ Promise!HostsFollow
           /\ bound' \cap DOMAIN host = bound \cap DOMAIN host'
           /\ DOMAIN host = DOMAIN sessions /\ DOMAIN host' = DOMAIN sessions'
<1>1. Apart(sessions) /\ Apart(sessions')
  BY BothApart
<1>2. /\ DOMAIN host = DOMAIN sessions /\ DOMAIN host' = DOMAIN sessions'
      /\ \A id \in DOMAIN sessions : host[id] = sessions[id].owner
      /\ \A id \in DOMAIN sessions' : host'[id] = sessions'[id].owner
  BY DEF host
<1>3. \A id \in DOMAIN sessions' :
        sessions'[id].owner \in Users /\ sessions'[id].owner \in MembersOf(sessions'[id])
  <2> TAKE id \in DOMAIN sessions'
  <2>1. Sound(sessions'[id]) /\ sessions'[id].members \in Seq(Member)
    BY <1>1 DEF Apart, Sound, Session
  <2>2. 1 \in DOMAIN sessions'[id].members
    BY <2>1 DEF Sound
  <2>3. QED
    BY <2>1, <2>2 DEF Sound, Session, MembersOf
<1>4. \A id \in DOMAIN sessions' : \A u :
        u \in Promise!Seated(id)' <=> u \in MembersOf(sessions'[id])
  <2> TAKE id \in DOMAIN sessions'
  <2> TAKE u
  <2>1. u \in Promise!Seated(id)' <=> u \in Users /\ \E i \in Indices : seat'[<<u, i>>] = id
    BY DEF Promise!Seated
  <2>2. u \in Users => \A i \in Indices : seat'[<<u, i>>] = SeatIn(sessions', <<u, i>>)
    BY SeatsAre
  <2>3. QED
    BY <1>1, <2>1, <2>2, MembersAreSeated
<1>5. DOMAIN sessions' = {seat'[x] : x \in Promise!Seats} \ {NoSession}
  <2>1. ASSUME NEW x \in Users \X Indices, seat'[x] # NoSession
        PROVE  seat'[x] \in DOMAIN sessions'
    BY <1>1, <2>1, SeatsAre, SeatIsHeld
  <2>2. ASSUME NEW id \in DOMAIN sessions'
        PROVE  id # NoSession /\ \E x \in Users \X Indices : seat'[x] = id
    <3>1. PICK u \in Users : u \in MembersOf(sessions'[id])
      BY <1>3
    <3>2. PICK i \in Indices : SeatIn(sessions', <<u, i>>) = id
      BY <1>1, <3>1, MembersAreSeated
    <3>3. <<u, i>> \in Users \X Indices /\ seat'[<<u, i>>] = id
      BY <3>2, SeatsAre
    <3>4. QED
      BY <1>1, <3>3, SeatIsHeld
  <2>3. QED
    BY <2>1, <2>2 DEF Promise!Seats
<1>6. ASSUME NEW id \in DOMAIN sessions', id \in DOMAIN sessions,
             sessions[id].owner \in MembersOf(sessions'[id])
      PROVE  sessions'[id].owner = sessions[id].owner
  BY <1>6 DEF Follows, Succeeds
<1>7. Promise!HostsFollow
  BY <1>2, <1>3, <1>4, <1>5, <1>6 DEF Promise!HostsFollow
<1>8. bound' \cap DOMAIN host = bound \cap DOMAIN host'
  BY <1>2 DEF bound, Follows
<1>9. QED
  BY <1>2, <1>7, <1>8

\* Who leaves gives up its seats there; who ends a session by leaving has all
\* its members give up theirs.
LEMMA DepartingSeats ==
    ASSUME IInv, NEW u \in Users, NEW places, Places(u, places), Apart(Without(places)),
           NEW gone \in SUBSET ({u} \X Indices),
           \A x \in {u} \X Indices : \A id \in DOMAIN sessions :
                SeatIn(sessions, x) = id => (x \in gone <=> id \in DOMAIN places)
    PROVE  \A x \in Users \X Indices : SeatIn(Without(places), x) = Promise!SeatsWithout(gone)[x]
<1> DEFINE left == Without(places)
<1>0. Apart(left)
  OBVIOUS
<1>1. /\ DOMAIN left \subseteq DOMAIN sessions
      /\ \A id \in DOMAIN sessions \ DOMAIN left :
            id \in DOMAIN places /\ EndsWith(sessions[id], places[id])
      /\ \A id \in DOMAIN left :
            /\ id \notin DOMAIN places => left[id] = sessions[id]
            /\ id \in DOMAIN places =>
                Entries(left[id]) = Entries(sessions[id]) \ {sessions[id].members[places[id]]}
  BY Departures
<1>2. \A id \in DOMAIN left : id \in DOMAIN places => ~EndsWith(sessions[id], places[id])
  BY DEF Without
<1> HIDE DEF left
<1>3. Apart(sessions)
  <2>1. ASSUME NEW id \in DOMAIN sessions, NEW other \in DOMAIN sessions,
               NEW e \in Entries(sessions[id]) \cap Entries(sessions[other])
        PROVE  id = other
    BY SlotsApart
  <2>2. QED
    BY <2>1, AllSound DEF Apart, IInv, TypeOK
<1>4. \A p \in DOMAIN sessions :
        Promise!Ends(p, gone) <=>
            /\ sessions[p].type = "owner-bind"
            /\ \E i \in Indices : <<sessions[p].owner, i>> \in gone /\ seat[<<sessions[p].owner, i>>] = p
  BY DEF Promise!Ends, bound, host
<1>5. ~Promise!Ends(NoSession, gone)
  BY <1>3, NobodyAssumption DEF Promise!Ends, bound, Apart
<1>6. \A x \in Users \X Indices : seat[x] = SeatIn(sessions, x)
  BY SeatsAre
<1> SUFFICES ASSUME NEW x \in Users \X Indices
             PROVE  SeatIn(left, x) = Promise!SeatsWithout(gone)[x]
  BY DEF left
<1>7. Promise!SeatsWithout(gone)[x] =
        IF x \in gone \/ Promise!Ends(seat[x], gone) THEN NoSession ELSE seat[x]
  BY DEF Promise!SeatsWithout, Promise!Seats
<1>8. CASE SeatIn(sessions, x) = NoSession
  <2>1. \A id \in DOMAIN left : Slot(x) \notin Entries(left[id])
    BY <1>1, <1>3, <1>8, SeatIsHeld
  <2>2. SeatIn(left, x) = NoSession
    BY <1>0, <2>1, SeatIsHeld
  <2>3. QED
    BY <1>5, <1>6, <1>7, <1>8, <2>2
<1>9. ASSUME NEW id \in DOMAIN sessions, SeatIn(sessions, x) = id
      PROVE  SeatIn(left, x) = Promise!SeatsWithout(gone)[x]
  <2>1. Slot(x) \in Entries(sessions[id]) /\ id # NoSession /\ seat[x] = id
    BY <1>3, <1>6, <1>9, SeatIsHeld
  <2>2. \A other \in DOMAIN left : Slot(x) \in Entries(left[other]) => other = id
    BY <1>1, <1>3, <2>1 DEF Apart
  <2>3. SeatIn(left, x) = IF id \in DOMAIN left /\ Slot(x) \in Entries(left[id]) THEN id ELSE NoSession
    BY <1>0, <2>2, SeatIsHeld
  <2>4. Sound(sessions[id]) /\ sessions[id].members \in Seq(Member)
    BY <1>3 DEF Apart, Sound, Session
  <2>5. PICK j \in DOMAIN sessions[id].members : sessions[id].members[j] = Slot(x)
    BY <2>1 DEF Entries
  <2>6. CASE id \notin DOMAIN places
    <3>1. id \in DOMAIN left /\ left[id] = sessions[id]
      BY <1>1, <2>6
    <3>2. \A y \in gone : y \in Users \X Indices /\ seat[y] # id
      <4> TAKE y \in gone
      <4>1. y \in {u} \X Indices /\ y \in Users \X Indices
        OBVIOUS
      <4>2. QED
        BY <1>6, <2>6, <4>1
    <3>3. x \notin gone /\ ~Promise!Ends(id, gone)
      BY <1>4, <2>1, <3>2
    <3>4. QED
      BY <1>7, <2>1, <2>3, <3>1, <3>3
  <2>7. CASE id \in DOMAIN places
    <3> DEFINE k == places[id]
               e == sessions[id].members[k]
    <3>1. k \in DOMAIN sessions[id].members /\ e.user = u
      BY <2>7 DEF Places
    <3>2. e \in Member
      BY <2>4, <3>1
    <3>3. PICK i \in Indices : e = [user |-> u, index |-> i] /\ u \in Users
      BY <3>1, <3>2 DEF Member
    <3>4. SeatIn(sessions, <<u, i>>) = id /\ <<u, i>> \in gone /\ seat[<<u, i>>] = id
      <4>1. Slot(<<u, i>>) \in Entries(sessions[id])
        BY <3>1, <3>3 DEF Slot, Entries
      <4>2. SeatIn(sessions, <<u, i>>) = id
        BY <1>3, <4>1, SeatIsHeld
      <4>3. QED
        BY <1>6, <2>7, <3>3, <4>2
    <3>5. x \in gone <=> Slot(x) = e
      <4>1. ASSUME x \in gone  PROVE Slot(x) = e
        <5>1. Slot(x).user = u
          BY <4>1 DEF Slot
        <5>2. j = k
          BY <2>4, <2>5, <3>1, <5>1 DEF Sound
        <5>3. QED
          BY <2>5, <5>2
      <4>2. ASSUME Slot(x) = e  PROVE x \in gone
        <5>1. x[1] = u /\ x[2] = i /\ x = <<x[1], x[2]>>
          BY <3>3, <4>2 DEF Slot
        <5>2. QED
          BY <3>4, <5>1
      <4>3. QED
        BY <4>1, <4>2
    <3> HIDE DEF k, e
    <3>6. CASE EndsWith(sessions[id], places[id])
      <4>1. id \notin DOMAIN left
        BY <1>2, <2>7, <3>6
      <4>2. x \in gone \/ Promise!Ends(id, gone)
        <5>1. CASE Len(sessions[id].members) = 1
          <6>1. j = 1 /\ k = 1
            BY <2>4, <2>5, <3>1, <5>1
          <6>2. QED
            BY <2>5, <3>5, <6>1 DEF e
        <5>2. CASE sessions[id].type = "owner-bind" /\ sessions[id].owner = u
          BY <1>4, <3>3, <3>4, <5>2
        <5>3. QED
          BY <3>1, <3>6, <5>1, <5>2 DEF EndsWith, k, e
      <4>3. QED
        BY <1>7, <2>1, <2>3, <4>1, <4>2
    <3>7. CASE ~EndsWith(sessions[id], places[id])
      <4>1. id \in DOMAIN left /\ Entries(left[id]) = Entries(sessions[id]) \ {e}
        BY <1>1, <2>7, <3>7 DEF e, k
      <4>2. sessions[id].type = "owner-bind" => sessions[id].owner # u
        BY <3>1, <3>7 DEF EndsWith, e, k
      <4>3. ~Promise!Ends(id, gone)
        BY <1>4, <4>2
      <4>4. QED
        BY <1>7, <2>1, <2>3, <3>5, <4>1, <4>3
    <3>8. QED
      BY <3>6, <3>7
  <2>8. QED
    BY <2>6, <2>7
<1>10. QED
  BY <1>3, <1>8, <1>9, SeatIsHeld

LEMMA LeavingIsLeave ==
    ASSUME IInv, NEW u \in Users, NEW places, Places(u, places), sessions' = Without(places)
    PROVE  Promise!Next
<1> DEFINE gone == {x \in {u} \X Indices : SeatIn(sessions, x) \in DOMAIN places}
<1>1. Follows(NoUser)
  BY FollowsFromDepartures
<1>2. Apart(sessions) /\ Apart(sessions')
  BY <1>1, BothApart
<1>3. \A x \in Users \X Indices : SeatIn(sessions', x) = Promise!SeatsWithout(gone)[x]
  BY <1>2, DepartingSeats
<1>4. seat' = Promise!SeatsWithout(gone)
  BY <1>3, SeatsAre DEF Promise!SeatsWithout, Promise!Seats
<1>5. DOMAIN sessions' \subseteq DOMAIN sessions
  BY Departures
<1>6. bound' = bound \cap DOMAIN host'
  <2>1. bound' \subseteq DOMAIN sessions'
    BY DEF bound
  <2>2. QED
    BY <1>1, <1>5, <2>1, HostsDoFollow
<1>7. Promise!Leave(gone)
  BY <1>1, <1>4, <1>6, HostsDoFollow DEF Promise!Leave
<1>8. QED
  BY <1>7 DEF Promise!Next

LEMMA DeletingIsDisband ==
    ASSUME IInv, NEW u \in Users, NEW id \in SessionIds, HandleSessionDelete(u, id)
    PROVE  Promise!Next
<1>1. Follows(NoUser)
  BY DeleteFollows
<1>2. Apart(sessions) /\ Apart(sessions')
  BY <1>1, BothApart
<1>3. /\ id \in DOMAIN sessions /\ DOMAIN sessions' = DOMAIN sessions \ {id}
      /\ \A x \in DOMAIN sessions' : sessions'[x] = sessions[x]
  BY DEF HandleSessionDelete, Asks
<1>4. \A x \in Users \X Indices :
        SeatIn(sessions', x) = IF SeatIn(sessions, x) = id THEN NoSession ELSE SeatIn(sessions, x)
  <2> TAKE x \in Users \X Indices
  <2>1. CASE SeatIn(sessions, x) = NoSession
    <3>1. \A p \in DOMAIN sessions' : Slot(x) \notin Entries(sessions'[p])
      BY <1>2, <1>3, <2>1, SeatIsHeld
    <3>2. QED
      BY <1>2, <1>3, <2>1, <3>1, SeatIsHeld
  <2>2. ASSUME NEW p \in DOMAIN sessions, SeatIn(sessions, x) = p
        PROVE  SeatIn(sessions', x) = IF p = id THEN NoSession ELSE p
    <3>1. Slot(x) \in Entries(sessions[p])
      BY <1>2, <2>2, SeatIsHeld
    <3>2. \A q \in DOMAIN sessions' : Slot(x) \in Entries(sessions'[q]) <=> q = p
      BY <1>2, <1>3, <3>1 DEF Apart
    <3>3. QED
      BY <1>2, <1>3, <3>2, SeatIsHeld
  <2>3. QED
    BY <1>2, <2>1, <2>2, SeatIsHeld
<1>5. seat' = [x \in Users \X Indices |-> IF seat[x] = id THEN NoSession ELSE seat[x]]
  BY <1>4, SeatsAre
<1>6. bound' = bound \cap DOMAIN host'
  <2>1. bound' \subseteq DOMAIN sessions'
    BY DEF bound
  <2>2. QED
    BY <1>1, <1>3, <2>1, HostsDoFollow
<1>7. Promise!Disband(id)
  BY <1>1, <1>5, <1>6, HostsDoFollow DEF Promise!Disband, Promise!Seats
<1>8. QED
  BY <1>7 DEF Promise!Next

\* The seats when one has been given up.
LEMMA SeatGivenUp ==
    ASSUME IInv, NEW u \in Users, NEW i \in Indices
    PROVE  LET left == LeaveSessionAtIndex(u, i)
           IN  /\ Apart(left)
               /\ \A x \in Users \X Indices :
                    SeatIn(left, x) = Promise!SeatsWithout({<<u, i>>})[x]
<1> DEFINE left == LeaveSessionAtIndex(u, i)
           gone == {<<u, i>>}
<1>1. PICK places : left = Without(places) /\ Places(u, places) /\ DOMAIN places = HeldAt(u, i)
  BY GivingUp
<1>2. Apart(sessions)
  <2>1. ASSUME NEW id \in DOMAIN sessions, NEW other \in DOMAIN sessions,
               NEW e \in Entries(sessions[id]) \cap Entries(sessions[other])
        PROVE  id = other
    BY SlotsApart
  <2>2. QED
    BY <2>1, AllSound DEF Apart, IInv, TypeOK
<1>3. Apart(left)
  <2>1. /\ DOMAIN left \subseteq DOMAIN sessions
        /\ \A id \in DOMAIN left :
            Sound(left[id]) /\ Entries(left[id]) \subseteq Entries(sessions[id])
    BY SlotIsFree
  <2> HIDE DEF left
  <2>2. QED
    BY <1>2, <2>1 DEF Apart
<1>4. ASSUME NEW x \in {u} \X Indices, NEW id \in DOMAIN sessions, SeatIn(sessions, x) = id
      PROVE  x \in gone <=> id \in DOMAIN places
  <2>1. PICK j \in Indices : x = <<u, j>>
    OBVIOUS
  <2>2. Slot(x) = [user |-> u, index |-> j] /\ Slot(x) \in Entries(sessions[id])
    BY <1>2, <1>4, <2>1, SeatIsHeld DEF Slot
  <2>3. id \in DOMAIN places <=> [user |-> u, index |-> i] \in Entries(sessions[id])
    BY <1>1 DEF HeldAt, Entries
  <2>4. ASSUME [user |-> u, index |-> i] \in Entries(sessions[id])  PROVE i = j
    <3>1. PICK k \in DOMAIN sessions[id].members : sessions[id].members[k] = [user |-> u, index |-> i]
      BY <2>4 DEF Entries
    <3>2. PICK l \in DOMAIN sessions[id].members : sessions[id].members[l] = [user |-> u, index |-> j]
      BY <2>2 DEF Entries
    <3>3. k = l
      BY <1>2, <3>1, <3>2 DEF Apart, Sound
    <3>4. QED
      BY <3>1, <3>2, <3>3
  <2>5. QED
    BY <2>1, <2>2, <2>3, <2>4
<1>5. gone \in SUBSET ({u} \X Indices)
  OBVIOUS
<1>6. Apart(Without(places))
  BY <1>1, <1>3
<1> HIDE DEF left, gone
<1>7. \A x \in Users \X Indices : SeatIn(Without(places), x) = Promise!SeatsWithout(gone)[x]
  BY <1>1, <1>4, <1>5, <1>6, DepartingSeats
<1>8. QED
  BY <1>1, <1>3, <1>7 DEF left, gone

\* The seats when a user has entered id, after giving up the seat elsewhere.
LEMMA SeatTaken ==
    ASSUME IInv, NEW u \in Users, NEW i \in Indices, NEW id \in DOMAIN sessions', Follows(u),
           DOMAIN sessions' = DOMAIN LeaveSessionAtIndex(u, i) \cup {id},
           Slot(<<u, i>>) \in Entries(sessions'[id]),
           \A p \in DOMAIN sessions' : \A x \in Users \X Indices : x # <<u, i>> =>
                (Slot(x) \in Entries(sessions'[p]) <=>
                    p \in DOMAIN LeaveSessionAtIndex(u, i) /\ Slot(x) \in Entries(LeaveSessionAtIndex(u, i)[p]))
    PROVE  seat' = [Promise!SeatsWithout({<<u, i>>}) EXCEPT ![<<u, i>>] = id]
<1> DEFINE left == LeaveSessionAtIndex(u, i)
           seats == Promise!SeatsWithout({<<u, i>>})
<1>1. Apart(sessions') /\ Apart(left)
  BY BothApart, SeatGivenUp
<1>2. \A x \in Users \X Indices : SeatIn(left, x) = seats[x]
  BY SeatGivenUp
<1>3. seats = [x \in Users \X Indices |-> seats[x]]
  BY DEF Promise!SeatsWithout, Promise!Seats
<1> HIDE DEF left, seats
<1>4. SeatIn(sessions', <<u, i>>) = id
  BY <1>1, SeatIsHeld
<1>5. ASSUME NEW x \in Users \X Indices, x # <<u, i>>
      PROVE  SeatIn(sessions', x) = SeatIn(left, x)
  <2>1. \A p \in DOMAIN sessions' :
            Slot(x) \in Entries(sessions'[p]) <=> p \in DOMAIN left /\ Slot(x) \in Entries(left[p])
    BY <1>5 DEF left
  <2>2. DOMAIN left \subseteq DOMAIN sessions'
    BY DEF left
  <2>3. CASE SeatIn(left, x) = NoSession
    <3>1. \A p \in DOMAIN left : Slot(x) \notin Entries(left[p])
      BY <1>1, <2>3, SeatIsHeld
    <3>2. \A p \in DOMAIN sessions' : Slot(x) \notin Entries(sessions'[p])
      BY <2>1, <3>1
    <3>3. QED
      BY <1>1, <2>3, <3>2, SeatIsHeld
  <2>4. CASE SeatIn(left, x) \in DOMAIN left
    BY <1>1, <2>1, <2>2, <2>4, SeatIsHeld
  <2>5. QED
    BY <1>1, <2>3, <2>4, SeatIsHeld
<1>6. \A x \in Users \X Indices : seat'[x] = IF x = <<u, i>> THEN id ELSE seats[x]
  BY <1>2, <1>4, <1>5, SeatsAre
<1>7. seat' = [x \in Users \X Indices |-> seat'[x]]
  BY SeatsAre
<1>8. QED
  BY <1>3, <1>6, <1>7 DEF seats

LEMMA CreatingIsOpen ==
    ASSUME IInv, NEW u \in Users, NEW id \in SessionIds, NEW type \in Types,
           NEW setting \in Settings, NEW i \in Indices,
           HandleSessionCreate(u, id, type, setting, i)
    PROVE  Promise!Next
<1> DEFINE left == LeaveSessionAtIndex(u, i)
           e == [user |-> u, index |-> i]
           new == [type |-> type, owner |-> u, setting |-> setting, members |-> <<e>>]
           b == IF type = "owner-bind" THEN {id} ELSE {}
<1>1. Follows(u)
  BY CreateFollows
<1>2. /\ id \notin DOMAIN sessions
      /\ sessions' = [x \in DOMAIN left \cup {id} |-> IF x = id THEN new ELSE left[x]]
  BY DEF HandleSessionCreate, FreshSession
<1>3. DOMAIN left \subseteq DOMAIN sessions
  BY SlotIsFree
<1>4. Entries(new) = {e} /\ new.type = type
  BY DEF Entries
<1> HIDE DEF left, new
<1>5. /\ DOMAIN sessions' = DOMAIN left \cup {id} /\ id \notin DOMAIN left
      /\ sessions'[id] = new
      /\ \A p \in DOMAIN left : sessions'[p] = left[p]
  BY <1>2, <1>3
<1>6. seat' = [Promise!SeatsWithout({<<u, i>>}) EXCEPT ![<<u, i>>] = id]
  <2>1. Slot(<<u, i>>) \in Entries(sessions'[id])
    BY <1>4, <1>5 DEF Slot
  <2>2. ASSUME NEW p \in DOMAIN sessions', NEW x \in Users \X Indices, x # <<u, i>>
        PROVE  Slot(x) \in Entries(sessions'[p]) <=> p \in DOMAIN left /\ Slot(x) \in Entries(left[p])
    <3>1. Slot(x) # e
      BY <2>2 DEF Slot
    <3>2. QED
      BY <1>4, <1>5, <3>1
  <2>3. QED
    BY <1>1, <1>5, <2>1, <2>2, SeatTaken DEF left
<1>7. bound' = (bound \cup b) \cap DOMAIN host'
  <2>1. id \in bound' <=> id \in b
    BY <1>4, <1>5 DEF bound
  <2>2. bound' \subseteq DOMAIN sessions' /\ b \subseteq {id} /\ bound \subseteq DOMAIN sessions
    BY DEF bound
  <2>3. DOMAIN sessions' \ {id} \subseteq DOMAIN sessions
    BY <1>3, <1>5
  <2> HIDE DEF b
  <2>4. QED
    BY <1>1, <1>2, <2>1, <2>2, <2>3, HostsDoFollow
<1>8. Promise!Open(<<u, i>>, id, b)
  BY <1>1, <1>2, <1>6, <1>7, HostsDoFollow DEF Promise!Open
<1>9. QED
  BY <1>8 DEF Promise!Next, Promise!Seats

LEMMA JoiningIsEnter ==
    ASSUME IInv, NEW u \in Users, NEW id \in SessionIds, NEW i \in Indices,
           HandleSessionJoin(u, id, i)
    PROVE  Promise!Next
<1> DEFINE left == LeaveSessionAtIndex(u, i)
           e == [user |-> u, index |-> i]
           joined == [sessions[id] EXCEPT !.members = Append(@, e)]
<1>1. Follows(u)
  BY JoinFollows
<1>2. /\ id \in DOMAIN sessions /\ u \notin MembersOf(sessions[id]) /\ Admits(sessions[id])
      /\ sessions' = [left EXCEPT ![id].members = Append(@, e)]
  BY DEF HandleSessionJoin
<1>3. /\ DOMAIN left \subseteq DOMAIN sessions
      /\ left = [x \in DOMAIN left |-> left[x]]
      /\ id \in DOMAIN left /\ left[id] = sessions[id]
  BY <1>2, SlotIsFree
<1>4. Entries(joined) = Entries(sessions[id]) \cup {e}
  BY <1>2, AllSound, ArrivalNamed
<1> HIDE DEF left, e
<1>5. /\ DOMAIN sessions' = DOMAIN left
      /\ sessions'[id] = joined
      /\ \A p \in DOMAIN left : p # id => sessions'[p] = left[p]
  BY <1>2, <1>3
<1> HIDE DEF joined
<1>6. seat' = [Promise!SeatsWithout({<<u, i>>}) EXCEPT ![<<u, i>>] = id]
  <2>1. Slot(<<u, i>>) \in Entries(sessions'[id])
    BY <1>4, <1>5 DEF Slot, e
  <2>2. ASSUME NEW p \in DOMAIN sessions', NEW x \in Users \X Indices, x # <<u, i>>
        PROVE  Slot(x) \in Entries(sessions'[p]) <=> p \in DOMAIN left /\ Slot(x) \in Entries(left[p])
    <3>1. Slot(x) # e
      BY <2>2 DEF Slot, e
    <3>2. QED
      BY <1>3, <1>4, <1>5, <3>1
  <2>3. DOMAIN sessions' = DOMAIN left \cup {id}
    BY <1>3, <1>5
  <2>4. QED
    BY <1>1, <1>3, <1>5, <2>1, <2>2, <2>3, SeatTaken DEF left
<1>7. bound' = bound \cap DOMAIN host'
  <2>1. bound' \subseteq DOMAIN sessions'
    BY DEF bound
  <2>2. QED
    BY <1>1, <1>3, <1>5, <2>1, HostsDoFollow
<1>8. u \notin Promise!Seated(id)
  <2>1. Apart(sessions)
    BY <1>1, BothApart
  <2>2. \A j \in Indices : seat[<<u, j>>] = SeatIn(sessions, <<u, j>>)
    BY SeatsAre
  <2>3. QED
    BY <1>2, <2>1, <2>2, MembersAreSeated DEF Promise!Seated
<1>9. Promise!Enter(<<u, i>>, id)
  BY <1>1, <1>2, <1>6, <1>7, <1>8, HostsDoFollow DEF Promise!Enter
<1>10. QED
  BY <1>9 DEF Promise!Next, Promise!Seats

\* The sessions are the parties that the users are promised: a seat in one at a
\* time, a host among those seated, and no other change than theirs.
THEOREM PartiesImplemented == Spec => PartiesSpec
<1>1. Init => Promise!Init
  <2> SUFFICES ASSUME Init PROVE Promise!Init
    OBVIOUS
  <2>1. DOMAIN sessions = {}
    BY DEF Init
  <2>2. \A u \in Users, i \in Indices : SeatOf(u, i) = NoSession
    BY <2>1 DEF SeatOf, HeldAt
  <2>3. seat = [x \in Promise!Seats |-> NoSession]
    BY <2>2 DEF seat, Promise!Seats
  <2>4. host = <<>> /\ bound = {}
    BY <2>1 DEF host, bound
  <2>5. QED
    BY <2>3, <2>4 DEF Promise!Init
<1>2. IInv /\ [Next]_vars => [Promise!Next]_(Promise!vars)
  <2> SUFFICES ASSUME IInv, [Next]_vars
               PROVE  Promise!Next \/ UNCHANGED Promise!vars
    OBVIOUS
  <2>1. CASE UNCHANGED sessions
    <3>1. UNCHANGED <<host, bound>>
      BY <2>1 DEF host, bound
    <3>2. UNCHANGED seat
      BY <2>1, SeatsAre
    <3>3. QED
      BY <3>1, <3>2 DEF Promise!vars
  <2>2. ASSUME NEW u \in Users, PurgeUserFromSessions(u)
        PROVE  Promise!Next
    <3>1. PICK places : sessions' = Without(places) /\ Places(u, places)
      BY <2>2, Removal DEF PurgeUserFromSessions
    <3>2. QED
      BY <3>1, LeavingIsLeave
  <2>3. ASSUME NEW u \in Users, NEW id \in SessionIds, NEW target \in Users,
               HandleSessionLeave(u, id, target)
        PROVE  Promise!Next
    <3>1. sessions' = RemoveMember(target, {id}) /\ {id} \in SUBSET DOMAIN sessions
      BY <2>3 DEF HandleSessionLeave, Asks
    <3>2. PICK places : sessions' = Without(places) /\ Places(target, places)
      BY <3>1, Removal
    <3>3. QED
      BY <3>2, LeavingIsLeave
  <2>4. ASSUME NEW u \in Users, NEW id \in SessionIds, NEW setting \in Settings,
               HandleSessionUpdate(u, id, setting)
        PROVE  UNCHANGED Promise!vars
    <3>1. Follows(NoUser)
      BY <2>4, UpdateFollows
    <3>2. /\ id \in DOMAIN sessions
          /\ sessions' = [sessions EXCEPT ![id] = [sessions[id] EXCEPT !.setting = setting]]
      BY <2>4 DEF HandleSessionUpdate, Asks
    <3>3. Sound(sessions[id])
      BY <3>2, AllSound
    <3>4. LET t == [sessions[id] EXCEPT !.setting = setting]
          IN  t.owner = sessions[id].owner /\ t.type = sessions[id].type /\ Entries(t) = Entries(sessions[id])
      BY <3>3, Standstill
    <3>5. /\ DOMAIN sessions' = DOMAIN sessions
          /\ \A p \in DOMAIN sessions :
                /\ sessions'[p].owner = sessions[p].owner /\ sessions'[p].type = sessions[p].type
                /\ Entries(sessions'[p]) = Entries(sessions[p])
      BY <3>2, <3>4
    <3>6. UNCHANGED <<host, bound>>
      BY <3>5 DEF host, bound
    <3>7. ASSUME NEW x \in Users \X Indices  PROVE SeatIn(sessions', x) = SeatIn(sessions, x)
      BY <3>5 DEF SeatIn, HeldIn
    <3>8. UNCHANGED seat
      BY <3>7, SeatsAre
    <3>9. QED
      BY <3>6, <3>8 DEF Promise!vars
  <2>5. QED
    BY <2>1, <2>2, <2>3, <2>4, CreatingIsOpen, JoiningIsEnter, DeletingIsDisband
       DEF Next, vars, Refuse, Login, CleanupOnDisconnect, CmdDelete, FindOnline,
           HandleSessionInvite, HandleInvitationUse
<1>3. QED
  BY <1>1, <1>2, Invariance, PTL DEF Spec, PartiesSpec, Promise!Spec

================================================================================
