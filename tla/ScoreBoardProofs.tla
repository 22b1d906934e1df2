---------------------------- MODULE ScoreBoardProofs ----------------------------
(***************************************************************************)
(* Proofs about ScoreBoard, for any players, sessions, scores, clocks,     *)
(* configurations and files.                                               *)
(***************************************************************************)
EXTENDS ScoreBoard, ListLemmas

(***************************************************************************)
(* The ranking.                                                            *)
(***************************************************************************)

EntriesOf(t) == {t[i] : i \in DOMAIN t}

\* x does not rank before any entry.
Below(cfg, x, t) == \A i \in DOMAIN t : ~RanksBefore(cfg, x, t[i])

InOrder(cfg, t) == \A i, j \in DOMAIN t : i < j => ~RanksBefore(cfg, t[j], t[i])
Exact(t, index) == DOMAIN index = PlayersIn(t) /\ \A i \in DOMAIN t : index[t[i].player] = i
Sound(cfg, t, index) == t \in Seq(Entry) /\ InOrder(cfg, t) /\ Exact(t, index)

Distinct(t) == \A i, j \in DOMAIN t : t[i].player = t[j].player => i = j

LEMMA EntryFields ==
    ASSUME NEW e \in Entry
    PROVE  e.score \in Int /\ e.stamp \in Int /\ e.player \in Players /\ e.player.user \in Int
BY PlayersAssumption, ValuesAssumption DEF Entry

\* The order of the entries is a weak one.
LEMMA RankOrder ==
    ASSUME NEW cfg, NEW e \in Entry, NEW f \in Entry, NEW g \in Entry
    PROVE  /\ RanksBefore(cfg, e, f) => ~RanksBefore(cfg, f, e)
           /\ ~RanksBefore(cfg, e, f) /\ ~RanksBefore(cfg, f, g) => ~RanksBefore(cfg, e, g)
<1>1. /\ e.score \in Int /\ e.stamp \in Int /\ e.player.user \in Int
      /\ f.score \in Int /\ f.stamp \in Int /\ f.player.user \in Int
      /\ g.score \in Int /\ g.stamp \in Int /\ g.player.user \in Int
  BY EntryFields
<1>2. CASE cfg.ascending
  BY <1>1, <1>2 DEF RanksBefore, Better
<1>3. CASE ~cfg.ascending
  BY <1>1, <1>3 DEF RanksBefore, Better
<1>4. QED
  BY <1>2, <1>3

\* The data of a score is nothing to its rank.
LEMMA SameRank ==
    ASSUME NEW cfg, NEW e, NEW f, NEW g,
           e.player = f.player, e.score = f.score, e.stamp = f.stamp
    PROVE  /\ RanksBefore(cfg, e, g) <=> RanksBefore(cfg, f, g)
           /\ RanksBefore(cfg, g, e) <=> RanksBefore(cfg, g, f)
BY DEF RanksBefore

\* An exact index finds every player once.
LEMMA Exactness ==
    ASSUME NEW t \in Seq(Entry), NEW index, Exact(t, index)
    PROVE  /\ Distinct(t)
           /\ \A p \in DOMAIN index : index[p] \in DOMAIN t /\ t[index[p]].player = p
BY DEF Exact, Distinct, PlayersIn

LEMMA ReindexedIsExact ==
    ASSUME NEW t \in Seq(Entry), Distinct(t), NEW index, NEW from \in 1..(Len(t) + 1),
           DOMAIN index \cup {t[i].player : i \in from..Len(t)} = PlayersIn(t),
           \A i \in 1..(from - 1) : index[t[i].player] = i
    PROVE  Exact(t, Reindexed(index, t, from))
<1> DEFINE x == Reindexed(index, t, from)
<1>1. Len(t) \in Nat /\ DOMAIN t = 1..Len(t)
  OBVIOUS
<1>2. DOMAIN x = PlayersIn(t)
  BY DEF Reindexed
<1>3. ASSUME NEW i \in DOMAIN t
      PROVE  x[t[i].player] = i
  <2> DEFINE p == t[i].player
  <2>1. p \in DOMAIN x
    BY <1>2 DEF PlayersIn
  <2>2. CASE i >= from
    <3>1. i \in from..Len(t)
      BY <1>1, <2>2
    <3>2. \A j \in from..Len(t) : t[j].player = p => j = i
      BY <1>1 DEF Distinct
    <3>3. QED
      BY <2>1, <3>1, <3>2 DEF Reindexed
  <2>3. CASE ~(i >= from)
    <3>1. i \in 1..(from - 1)
      BY <1>1, <2>3
    <3>2. \A j \in from..Len(t) : t[j].player # p
      BY <1>1, <2>3 DEF Distinct
    <3>3. x[p] = index[p]
      BY <2>1, <3>2 DEF Reindexed
    <3>4. QED
      BY <3>1, <3>3
  <2>4. QED
    BY <2>2, <2>3
<1>4. QED
  BY <1>2, <1>3 DEF Exact

\* A table without a player's entry.
LEMMA Removal ==
    ASSUME NEW cfg, NEW t, NEW x, Sound(cfg, t, x), NEW p,
           NEW r, r = Removed(Ranking(t, x), p)
    PROVE  /\ r = Ranking(r.sorted, r.lookup)
           /\ Sound(cfg, r.sorted, r.lookup)
           /\ DOMAIN r.lookup = DOMAIN x \ {p}
           /\ Len(r.sorted) = IF p \in DOMAIN x THEN Len(t) - 1 ELSE Len(t)
           /\ EntriesOf(r.sorted) = {e \in EntriesOf(t) : e.player # p}
<1>1. /\ t \in Seq(Entry) /\ Len(t) \in Nat /\ DOMAIN t = 1..Len(t)
      /\ DOMAIN x = PlayersIn(t) /\ \A i \in DOMAIN t : x[t[i].player] = i
      /\ \A i, j \in DOMAIN t : i < j => ~RanksBefore(cfg, t[j], t[i])
  BY DEF Sound, Exact, InOrder
<1>2. CASE p \notin DOMAIN x
  <2>1. r = Ranking(t, x) /\ r.sorted = t /\ r.lookup = x
    BY <1>2 DEF Removed, Ranking
  <2>2. \A i \in DOMAIN t : t[i].player # p
    BY <1>1, <1>2 DEF PlayersIn
  <2>3. QED
    BY <1>2, <2>1, <2>2 DEF EntriesOf
<1>3. CASE p \in DOMAIN x
  <2> DEFINE k == x[p]
             n == Len(t)
             rest == RemoveAt(t, k)
             left == Forgotten(x, p)
             y == Reindexed(left, rest, k)
             from(j) == IF j < k THEN j ELSE j + 1
  <2>1. k \in 1..n /\ t[k].player = p /\ Distinct(t)
    BY <1>1, <1>3, Exactness DEF Sound
  <2>2. r.sorted = rest /\ r.lookup = y /\ r = Ranking(rest, y)
    BY <1>3 DEF Removed, Ranking
  <2>3. /\ rest \in Seq(Entry) /\ Len(rest) = n - 1 /\ DOMAIN rest = 1..(n - 1)
        /\ \A j \in 1..(n - 1) : rest[j] = t[from(j)]
    <3>1. /\ rest \in Seq(Entry) /\ Len(rest) = n - 1
          /\ \A j \in 1..(n - 1) : rest[j] = t[from(j)]
      BY <1>1, <2>1, RemoveAtElements, ZenonT(30)
    <3>2. QED
      BY <3>1
  <2> HIDE DEF rest, y, left, k
  <2>4. \A j \in 1..(n - 1) : from(j) \in 1..n \ {k}
    BY <1>1, <2>1
  <2>5. \A i \in 1..n \ {k} : \E j \in 1..(n - 1) : from(j) = i
    <3> TAKE i \in 1..n \ {k}
    <3>1. CASE i < k
      <4>1. i \in 1..(n - 1) /\ from(i) = i
        BY <1>1, <2>1, <3>1
      <4>2. QED
        BY <4>1
    <3>2. CASE ~(i < k)
      <4>1. i - 1 \in 1..(n - 1) /\ from(i - 1) = i
        BY <1>1, <2>1, <3>2
      <4>2. QED
        BY <4>1
    <3>3. QED
      BY <3>1, <3>2
  <2>6. \A i, j \in 1..(n - 1) : i < j => from(i) < from(j)
    BY <1>1, <2>1
  <2>7. InOrder(cfg, rest)
    <3>1. ASSUME NEW i \in 1..(n - 1), NEW j \in 1..(n - 1), i < j
          PROVE  ~RanksBefore(cfg, rest[j], rest[i])
      <4> HIDE DEF from
      <4>1. from(i) \in DOMAIN t /\ from(j) \in DOMAIN t /\ from(i) < from(j)
        BY <1>1, <2>4, <2>6, <3>1
      <4>2. ~RanksBefore(cfg, t[from(j)], t[from(i)])
        BY <1>1, <4>1
      <4>3. QED
        BY <2>3, <4>2
    <3>2. QED
      BY <2>3, <3>1 DEF InOrder
  <2>8. Distinct(rest)
    <3>1. \A i, j \in 1..(n - 1) : from(i) = from(j) => i = j
      BY <1>1, <2>1
    <3>2. ASSUME NEW i \in 1..(n - 1), NEW j \in 1..(n - 1), rest[i].player = rest[j].player
          PROVE  i = j
      <4>1. from(i) \in DOMAIN t /\ from(j) \in DOMAIN t
        BY <1>1, <2>4
      <4>2. t[from(i)].player = t[from(j)].player
        BY <2>3, <3>2
      <4>3. from(i) = from(j)
        BY <2>1, <4>1, <4>2 DEF Distinct
      <4>4. QED
        BY <3>1, <4>3
    <3>3. QED
      BY <2>3, <3>2 DEF Distinct
  <2>9. EntriesOf(rest) = {e \in EntriesOf(t) : e.player # p}
    <3>1. ASSUME NEW j \in 1..(n - 1)
          PROVE  rest[j] \in EntriesOf(t) /\ rest[j].player # p
      <4>1. PICK i \in 1..n \ {k} : i = from(j) /\ rest[j] = t[i]
        BY <2>3, <2>4
      <4>2. i \in DOMAIN t /\ k \in DOMAIN t /\ i # k
        BY <1>1, <2>1, <4>1
      <4>3. t[i].player # p
        BY <2>1, <4>2 DEF Distinct
      <4>4. QED
        BY <4>1, <4>2, <4>3 DEF EntriesOf
    <3>2. ASSUME NEW i \in 1..n, t[i].player # p
          PROVE  t[i] \in EntriesOf(rest)
      <4>1. PICK j \in 1..(n - 1) : from(j) = i
        BY <2>1, <2>5, <3>2
      <4>2. rest[j] = t[i] /\ j \in DOMAIN rest
        BY <2>3, <4>1
      <4>3. QED
        BY <4>2 DEF EntriesOf
    <3>3. QED
      BY <1>1, <2>3, <3>1, <3>2 DEF EntriesOf
  <2>10. PlayersIn(rest) = PlayersIn(t) \ {p}
    <3>1. PlayersIn(rest) = {e.player : e \in EntriesOf(rest)}
      BY DEF PlayersIn, EntriesOf
    <3>2. PlayersIn(t) = {e.player : e \in EntriesOf(t)}
      BY DEF PlayersIn, EntriesOf
    <3>3. QED
      BY <2>9, <3>1, <3>2
  <2>11. DOMAIN left = PlayersIn(rest) /\ \A q \in DOMAIN left : left[q] = x[q]
    BY <1>1, <2>10 DEF left, Forgotten
  <2>12. Exact(rest, y)
    <3>1. k \in 1..(Len(rest) + 1)
      BY <1>1, <2>1, <2>3
    <3>2. DOMAIN left \cup {rest[i].player : i \in k..Len(rest)} = PlayersIn(rest)
      <4>1. \A i \in k..Len(rest) : i \in DOMAIN rest
        BY <1>1, <2>1, <2>3
      <4>2. {rest[i].player : i \in k..Len(rest)} \subseteq PlayersIn(rest)
        BY <4>1 DEF PlayersIn
      <4>3. QED
        BY <2>11, <4>2
    <3>3. \A i \in 1..(k - 1) : left[rest[i].player] = i
      <4> TAKE i \in 1..(k - 1)
      <4>1. i \in 1..(n - 1) /\ i < k /\ i \in DOMAIN t
        BY <1>1, <2>1
      <4>2. rest[i] = t[i]
        BY <2>3, <4>1
      <4>3. rest[i].player \in PlayersIn(rest)
        BY <2>3, <4>1 DEF PlayersIn
      <4>4. QED
        BY <1>1, <2>11, <4>1, <4>2, <4>3
    <3>4. QED
      BY <2>3, <2>8, <3>1, <3>2, <3>3, ReindexedIsExact DEF y
  <2>13. DOMAIN y = DOMAIN x \ {p}
    BY <1>1, <2>10, <2>12 DEF Exact
  <2>14. QED
    BY <1>3, <2>2, <2>3, <2>7, <2>9, <2>12, <2>13 DEF Sound
<1>4. QED
  BY <1>2, <1>3

\* The place of a new entry: everything before it ranks before it.
LEMMA InsertPosition ==
    ASSUME NEW cfg, NEW t \in Seq(Entry), NEW e
    PROVE  LET pos == InsertPos(cfg, t, e)
           IN  /\ pos \in 1..(Len(t) + 1)
               /\ \A j \in 1..(pos - 1) : RanksBefore(cfg, t[j], e)
               /\ pos <= Len(t) => ~RanksBefore(cfg, t[pos], e)
<1> DEFINE places == {i \in 1..(Len(t) + 1) : i <= Len(t) => ~RanksBefore(cfg, t[i], e)}
<1>1. Len(t) \in Nat
  OBVIOUS
<1>2. places \in SUBSET Nat /\ Len(t) + 1 \in places
  BY <1>1
<1>3. PICK i \in places : \A j \in places : i <= j
  BY <1>2, LeastElement
<1>4. \A j \in 1..(i - 1) : RanksBefore(cfg, t[j], e)
  BY <1>1, <1>3
<1>5. \E k \in 1..(Len(t) + 1) :
        /\ \A j \in 1..(k - 1) : RanksBefore(cfg, t[j], e)
        /\ k <= Len(t) => ~RanksBefore(cfg, t[k], e)
  BY <1>3, <1>4
<1>6. QED
  BY <1>5 DEF InsertPos

\* A table with an entry of a new player.
LEMMA Insertion ==
    ASSUME NEW cfg, NEW t, NEW x, Sound(cfg, t, x), NEW e \in Entry, e.player \notin DOMAIN x,
           NEW removedAt \in Nat \ {0},
           NEW r, r = Inserted(cfg, Ranking(t, x), e, removedAt)
    PROVE  /\ r = Ranking(r.sorted, r.lookup)
           /\ Sound(cfg, r.sorted, r.lookup)
           /\ Len(r.sorted) = Len(t) + 1
           /\ EntriesOf(r.sorted) = EntriesOf(t) \cup {e}
           /\ r.sorted[InsertPos(cfg, t, e)] = e
<1> DEFINE pos == InsertPos(cfg, t, e)
           n == Len(t)
           u == InsertAt(t, pos, e)
           from == IF removedAt < pos + 1 THEN removedAt ELSE pos + 1
           noted == [q \in DOMAIN x \cup {e.player} |-> IF q = e.player THEN pos ELSE x[q]]
           y == Reindexed(noted, u, from)
           was(j) == IF j < pos THEN j ELSE j - 1
<1>1. /\ t \in Seq(Entry) /\ n \in Nat /\ DOMAIN t = 1..n
      /\ DOMAIN x = PlayersIn(t) /\ \A i \in DOMAIN t : x[t[i].player] = i
      /\ \A i, j \in DOMAIN t : i < j => ~RanksBefore(cfg, t[j], t[i])
  BY DEF Sound, Exact, InOrder
<1>2. /\ pos \in 1..(n + 1)
      /\ \A j \in 1..(pos - 1) : RanksBefore(cfg, t[j], e)
      /\ pos <= n => ~RanksBefore(cfg, t[pos], e)
  BY <1>1, InsertPosition
<1>3. r.sorted = u /\ r.lookup = y /\ r = Ranking(u, y)
  BY DEF Inserted, Ranking
<1> HIDE DEF pos
<1>4. /\ u \in Seq(Entry) /\ Len(u) = n + 1 /\ DOMAIN u = 1..(n + 1)
      /\ u[pos] = e
      /\ \A j \in 1..(n + 1) \ {pos} : u[j] = t[was(j)]
  <2>1. /\ u \in Seq(Entry) /\ Len(u) = n + 1
        /\ \A j \in 1..(n + 1) : u[j] = IF j < pos THEN t[j] ELSE IF j = pos THEN e ELSE t[j - 1]
    BY <1>1, <1>2, InsertAtElements
  <2> HIDE DEF u
  <2>2. QED
    BY <1>2, <2>1
<1> HIDE DEF u, y, n, from
<1>5. /\ \A j \in 1..(n + 1) \ {pos} : was(j) \in 1..n
      /\ \A i, j \in 1..(n + 1) \ {pos} : i < j => was(i) < was(j)
      /\ \A i, j \in 1..(n + 1) \ {pos} : was(i) = was(j) => i = j
  BY <1>1, <1>2
<1>6. \A i \in 1..n : \E j \in 1..(n + 1) \ {pos} : was(j) = i
  <2> TAKE i \in 1..n
  <2>1. CASE i < pos
    <3>1. i \in 1..(n + 1) \ {pos} /\ was(i) = i
      BY <1>1, <1>2, <2>1
    <3>2. QED
      BY <3>1
  <2>2. CASE ~(i < pos)
    <3>1. i + 1 \in 1..(n + 1) \ {pos} /\ was(i + 1) = i
      BY <1>1, <1>2, <2>2
    <3>2. QED
      BY <3>1
  <2>3. QED
    BY <2>1, <2>2
<1>7. EntriesOf(u) = EntriesOf(t) \cup {e}
  <2>1. \A j \in DOMAIN u : u[j] \in EntriesOf(t) \cup {e}
    BY <1>1, <1>4, <1>5 DEF EntriesOf
  <2>2. ASSUME NEW i \in DOMAIN t
        PROVE  t[i] \in EntriesOf(u)
    <3>1. PICK j \in 1..(n + 1) \ {pos} : was(j) = i
      BY <1>1, <1>6
    <3>2. u[j] = t[i] /\ j \in DOMAIN u
      BY <1>4, <3>1
    <3>3. QED
      BY <3>2 DEF EntriesOf
  <2>3. e \in EntriesOf(u)
    BY <1>1, <1>2, <1>4 DEF EntriesOf
  <2>4. QED
    BY <2>1, <2>2, <2>3 DEF EntriesOf
<1>8. \A i \in 1..n : i >= pos => ~RanksBefore(cfg, t[i], e)
  <2> SUFFICES ASSUME NEW i \in 1..n, i >= pos
               PROVE  ~RanksBefore(cfg, t[i], e)
    OBVIOUS
  <2>1. pos \in 1..n /\ ~RanksBefore(cfg, t[pos], e)
    BY <1>1, <1>2
  <2>2. i = pos \/ ~RanksBefore(cfg, t[i], t[pos])
    BY <1>1, <2>1
  <2>3. t[i] \in Entry /\ t[pos] \in Entry
    BY <1>1, <2>1
  <2>4. QED
    BY <2>1, <2>2, <2>3, RankOrder
<1>9. InOrder(cfg, u)
  <2>1. ASSUME NEW i \in 1..(n + 1), NEW j \in 1..(n + 1), i < j
        PROVE  ~RanksBefore(cfg, u[j], u[i])
    <3>1. CASE i # pos /\ j # pos
      <4> HIDE DEF was
      <4>1. was(i) \in 1..n /\ was(j) \in 1..n /\ was(i) < was(j)
        BY <1>5, <2>1, <3>1
      <4>2. u[i] = t[was(i)] /\ u[j] = t[was(j)]
        BY <1>4, <3>1
      <4>3. ~RanksBefore(cfg, t[was(j)], t[was(i)])
        BY <1>1, <4>1
      <4>4. QED
        BY <4>2, <4>3
    <3>2. CASE i = pos
      <4>1. j # pos /\ was(j) \in 1..n /\ was(j) >= pos
        BY <1>1, <1>2, <2>1, <3>2
      <4>2. QED
        BY <1>4, <1>8, <3>2, <4>1
    <3>3. CASE j = pos
      <4>1. i # pos /\ was(i) = i /\ i \in 1..(pos - 1) /\ i \in 1..n
        BY <1>1, <1>2, <2>1, <3>3
      <4>2. RanksBefore(cfg, t[i], e) /\ t[i] \in Entry /\ u[i] = t[i]
        BY <1>1, <1>2, <1>4, <4>1
      <4>3. QED
        BY <1>4, <3>3, <4>2, RankOrder
    <3>4. QED
      BY <3>1, <3>2, <3>3
  <2>2. QED
    BY <1>4, <2>1 DEF InOrder
<1>10. \A i \in 1..n : t[i].player # e.player
  BY <1>1 DEF PlayersIn
<1>11. Distinct(u)
  <2>1. Distinct(t)
    BY <1>1, Exactness DEF Sound
  <2>2. ASSUME NEW i \in 1..(n + 1), NEW j \in 1..(n + 1), u[i].player = u[j].player
        PROVE  i = j
    <3>1. CASE i # pos /\ j # pos
      <4>1. t[was(i)].player = t[was(j)].player /\ was(i) \in DOMAIN t /\ was(j) \in DOMAIN t
        BY <1>1, <1>4, <1>5, <2>2, <3>1
      <4>2. was(i) = was(j)
        BY <2>1, <4>1 DEF Distinct
      <4>3. QED
        BY <1>5, <3>1, <4>2
    <3>2. CASE i = pos /\ j # pos
      BY <1>4, <1>5, <1>10, <2>2, <3>2
    <3>3. CASE j = pos /\ i # pos
      BY <1>4, <1>5, <1>10, <2>2, <3>3
    <3>4. QED
      BY <3>1, <3>2, <3>3
  <2>3. QED
    BY <1>4, <2>2 DEF Distinct
<1>12. PlayersIn(u) = PlayersIn(t) \cup {e.player}
  <2>1. PlayersIn(u) = {f.player : f \in EntriesOf(u)}
    BY DEF PlayersIn, EntriesOf
  <2>2. PlayersIn(t) = {f.player : f \in EntriesOf(t)}
    BY DEF PlayersIn, EntriesOf
  <2>3. QED
    BY <1>7, <2>1, <2>2
<1>13. Exact(u, y)
  <2>1. from \in 1..(Len(u) + 1) /\ from <= pos + 1
    BY <1>1, <1>2, <1>4 DEF from
  <2>2. DOMAIN noted \cup {u[i].player : i \in from..Len(u)} = PlayersIn(u)
    <3>1. \A i \in from..Len(u) : i \in DOMAIN u
      BY <1>1, <1>4, <2>1
    <3>2. {u[i].player : i \in from..Len(u)} \subseteq PlayersIn(u)
      BY <3>1 DEF PlayersIn
    <3>3. DOMAIN noted = PlayersIn(u)
      BY <1>1, <1>12
    <3>4. QED
      BY <3>2, <3>3
  <2>3. ASSUME NEW i \in 1..(from - 1)
        PROVE  noted[u[i].player] = i
    <3>1. i \in 1..(n + 1) /\ i <= pos
      BY <1>1, <1>2, <1>4, <2>1
    <3>2. CASE i = pos
      BY <1>4, <3>2
    <3>3. CASE i # pos
      <4>1. i \in DOMAIN t /\ u[i] = t[i]
        BY <1>1, <1>2, <1>4, <3>1, <3>3
      <4>2. t[i].player \in DOMAIN x /\ t[i].player # e.player /\ x[t[i].player] = i
        BY <1>1, <1>10, <4>1 DEF PlayersIn
      <4>3. QED
        BY <4>1, <4>2
    <3>4. QED
      BY <3>2, <3>3
  <2> HIDE DEF noted
  <2>4. QED
    BY <1>4, <1>11, <2>1, <2>2, <2>3, ReindexedIsExact DEF y
<1>14. QED
  BY <1>3, <1>4, <1>7, <1>9, <1>13 DEF Sound, pos, n

\* A table that is cut to its limit: what drops out ranks before nothing left.
LEMMA Trimming ==
    ASSUME NEW cfg, cfg.limit \in Nat, NEW t, NEW x, Sound(cfg, t, x), Len(t) <= cfg.limit + 1,
           NEW r, r = Trimmed(cfg, Ranking(t, x))
    PROVE  /\ Sound(cfg, r.sorted, r.lookup)
           /\ Len(r.sorted) = IF Len(t) > cfg.limit THEN cfg.limit ELSE Len(t)
           /\ \A i \in DOMAIN r.sorted : i \in DOMAIN t /\ r.sorted[i] = t[i]
           /\ EntriesOf(r.sorted) \subseteq EntriesOf(t)
           /\ \A e \in EntriesOf(t) \ EntriesOf(r.sorted) :
                Len(r.sorted) = cfg.limit /\ Below(cfg, e, r.sorted)
<1>1. /\ t \in Seq(Entry) /\ Len(t) \in Nat /\ DOMAIN t = 1..Len(t)
      /\ DOMAIN x = PlayersIn(t) /\ \A i \in DOMAIN t : x[t[i].player] = i
      /\ \A i, j \in DOMAIN t : i < j => ~RanksBefore(cfg, t[j], t[i])
  BY DEF Sound, Exact, InOrder
<1>2. CASE ~(Len(t) > cfg.limit)
  <2>1. r = Ranking(t, x) /\ r.sorted = t /\ r.lookup = x
    BY <1>2 DEF Trimmed, Ranking
  <2>2. QED
    BY <1>2, <2>1
<1>3. CASE Len(t) > cfg.limit
  <2> DEFINE n == Len(t)
             u == Front(t)
             y == Forgotten(x, Last(t).player)
  <2>1. n = cfg.limit + 1 /\ t # <<>> /\ n \in DOMAIN t
    BY <1>1, <1>3
  <2>2. r.sorted = u /\ r.lookup = y
    BY <1>3 DEF Trimmed, Ranking
  <2>3. /\ u \in Seq(Entry) /\ Len(u) = n - 1 /\ DOMAIN u = 1..(n - 1)
        /\ \A i \in 1..(n - 1) : u[i] = t[i]
    <3>1. u \in Seq(Entry) /\ Len(u) = n - 1 /\ \A i \in 1..(n - 1) : u[i] = t[i]
      BY <1>1, <2>1, FrontElements
    <3>2. QED
      BY <3>1
  <2> HIDE DEF u
  <2>0. n \in Nat /\ DOMAIN t = 1..n
    BY <1>1
  <2> HIDE DEF n
  <2>4. \A i \in 1..(n - 1) : i \in DOMAIN t /\ i # n /\ i < n
    BY <2>0
  <2>5. InOrder(cfg, u)
    BY <1>1, <2>3, <2>4 DEF InOrder
  <2>6. Distinct(t)
    BY <1>1, Exactness DEF Sound
  <2>7. PlayersIn(u) = PlayersIn(t) \ {t[n].player}
    <3>1. \A i \in DOMAIN t : i = n \/ i \in 1..(n - 1)
      BY <2>0
    <3>2. \A i \in 1..(n - 1) : t[i].player # t[n].player
      BY <2>1, <2>4, <2>6 DEF Distinct
    <3>3. PlayersIn(u) = {t[i].player : i \in 1..(n - 1)}
      BY <2>3 DEF PlayersIn
    <3>4. QED
      BY <2>4, <3>1, <3>2, <3>3 DEF PlayersIn
  <2>8. Exact(u, y)
    <3>1. DOMAIN y = PlayersIn(u) /\ \A q \in DOMAIN y : y[q] = x[q]
      BY <1>1, <2>7 DEF Forgotten, Last, n
    <3>2. \A i \in DOMAIN u : u[i].player \in PlayersIn(u)
      BY DEF PlayersIn
    <3>3. \A i \in DOMAIN u : y[u[i].player] = i
      BY <1>1, <2>3, <2>4, <3>1, <3>2
    <3>4. QED
      BY <3>1, <3>3 DEF Exact
  <2>9. EntriesOf(u) \subseteq EntriesOf(t)
    BY <2>3, <2>4 DEF EntriesOf
  <2>10. \A e \in EntriesOf(t) \ EntriesOf(u) : e = t[n]
    <3>1. \A i \in DOMAIN t : i = n \/ i \in DOMAIN u
      BY <2>0, <2>3
    <3>2. \A i \in DOMAIN t : i = n \/ t[i] \in EntriesOf(u)
      BY <2>3, <3>1 DEF EntriesOf
    <3>3. QED
      BY <3>2 DEF EntriesOf
  <2>11. Below(cfg, t[n], u)
    BY <1>1, <2>1, <2>3, <2>4 DEF Below
  <2>12. QED
    BY <1>1, <1>3, <2>1, <2>2, <2>3, <2>4, <2>5, <2>8, <2>9, <2>10, <2>11 DEF Sound, n
<1>4. QED
  BY <1>2, <1>3

\* A table with a player's new entry in the place of its old one, if there is one.
LEMMA Recording ==
    ASSUME NEW cfg, cfg.limit \in Nat, NEW t, NEW x, Sound(cfg, t, x), Len(t) <= cfg.limit,
           NEW e \in Entry,
           NEW r, r = Ranked(cfg, Ranking(t, x), e)
    PROVE  LET others == {f \in EntriesOf(t) : f.player # e.player}
           IN  /\ Sound(cfg, r.sorted, r.lookup)
               /\ Len(r.sorted) <= cfg.limit
               /\ EntriesOf(r.sorted) \subseteq others \cup {e}
               /\ \A f \in (others \cup {e}) \ EntriesOf(r.sorted) :
                    Len(r.sorted) = cfg.limit /\ Below(cfg, f, r.sorted)
               /\ \A f \in Entry :
                    /\ Len(t) = cfg.limit /\ Below(cfg, f, t)
                    /\ e.player \in DOMAIN x => ~RanksBefore(cfg, t[x[e.player]], e)
                    => Len(r.sorted) = cfg.limit /\ Below(cfg, f, r.sorted)
<1> DEFINE old == Ranking(t, x)
           p == e.player
           rest == Removed(old, p)
           u == rest.sorted
           removedAt == IF p \in DOMAIN x THEN x[p] ELSE Len(t) + 2
           put == Inserted(cfg, rest, e, removedAt)
           cut == Trimmed(cfg, put)
           others == {f \in EntriesOf(t) : f.player # p}
           pos == InsertPos(cfg, u, e)
           known == p \in DOMAIN x
<1>1. /\ t \in Seq(Entry) /\ Len(t) \in Nat /\ DOMAIN t = 1..Len(t)
      /\ \A q \in DOMAIN x : x[q] \in DOMAIN t /\ t[x[q]].player = q
  BY Exactness DEF Sound
<1>2. r = IF Fits(cfg, u, e) THEN cut ELSE rest
  BY DEF Ranked, Ranking
<1>3. /\ rest = Ranking(u, rest.lookup)
      /\ Sound(cfg, u, rest.lookup)
      /\ DOMAIN rest.lookup = DOMAIN x \ {p}
      /\ Len(u) = IF known THEN Len(t) - 1 ELSE Len(t)
      /\ EntriesOf(u) = others
  <2> HIDE DEF rest
  <2>1. QED
    BY Removal DEF rest
<1>4. removedAt \in Nat \ {0}
  BY <1>1
<1> HIDE DEF rest, removedAt, others, p
<1>5. /\ put = Ranking(put.sorted, put.lookup)
      /\ Sound(cfg, put.sorted, put.lookup)
      /\ Len(put.sorted) = Len(u) + 1
      /\ EntriesOf(put.sorted) = others \cup {e}
  <2>1. p \notin DOMAIN rest.lookup
    BY <1>3
  <2>2. put = Inserted(cfg, Ranking(u, rest.lookup), e, removedAt)
    BY <1>3
  <2> HIDE DEF put, u
  <2>3. QED
    BY <1>3, <1>4, <2>1, <2>2, Insertion DEF p
<1>6. /\ u \in Seq(Entry) /\ Len(u) \in Nat /\ DOMAIN u = 1..Len(u) /\ Len(u) <= cfg.limit
      /\ known => Len(u) < cfg.limit
  <2>1. u \in Seq(Entry)
    BY <1>3 DEF Sound
  <2> HIDE DEF u
  <2>2. Len(u) \in Nat /\ DOMAIN u = 1..Len(u)
    BY <2>1
  <2>3. known => Len(u) = Len(t) - 1
    BY <1>3
  <2>4. ~known => Len(u) = Len(t)
    BY <1>3
  <2>5. Len(t) \in Nat /\ Len(t) <= cfg.limit /\ cfg.limit \in Nat
    BY <1>1
  <2> HIDE DEF known
  <2>6. Len(u) <= cfg.limit /\ (known => Len(u) < cfg.limit)
    BY <2>2, <2>3, <2>4, <2>5
  <2>7. QED
    BY <2>1, <2>2, <2>6
<1> HIDE DEF put
<1>7. /\ Sound(cfg, cut.sorted, cut.lookup)
      /\ Len(cut.sorted) = IF Len(u) + 1 > cfg.limit THEN cfg.limit ELSE Len(u) + 1
      /\ EntriesOf(cut.sorted) \subseteq others \cup {e}
      /\ \A f \in (others \cup {e}) \ EntriesOf(cut.sorted) :
            Len(cut.sorted) = cfg.limit /\ Below(cfg, f, cut.sorted)
  <2>1. Len(put.sorted) <= cfg.limit + 1
    BY <1>5, <1>6
  <2>2. cut = Trimmed(cfg, Ranking(put.sorted, put.lookup))
    BY <1>5
  <2> HIDE DEF cut, u
  <2>3. /\ Sound(cfg, cut.sorted, cut.lookup)
        /\ Len(cut.sorted) = IF Len(put.sorted) > cfg.limit THEN cfg.limit ELSE Len(put.sorted)
        /\ EntriesOf(cut.sorted) \subseteq EntriesOf(put.sorted)
        /\ \A f \in EntriesOf(put.sorted) \ EntriesOf(cut.sorted) :
              Len(cut.sorted) = cfg.limit /\ Below(cfg, f, cut.sorted)
    BY <1>5, <2>1, <2>2, Trimming
  <2>4. QED
    BY <1>5, <2>3
<1> HIDE DEF u, cut
<1>8. /\ pos \in 1..(Len(u) + 1)
      /\ \A j \in 1..(pos - 1) : RanksBefore(cfg, u[j], e)
      /\ pos <= Len(u) => ~RanksBefore(cfg, u[pos], e)
  BY <1>6, InsertPosition
<1>9. ~Fits(cfg, u, e) <=> Len(u) = cfg.limit /\ pos = Len(u) + 1
  BY <1>6, <1>8 DEF Fits
<1> HIDE DEF pos, known
<1>10. CASE Fits(cfg, u, e)
  <2>1. r = cut
    BY <1>2, <1>10
  <2>2. Len(r.sorted) <= cfg.limit
    BY <1>6, <1>7, <2>1
  <2>3. ASSUME NEW f \in Entry, Len(t) = cfg.limit, Below(cfg, f, t),
               known => ~RanksBefore(cfg, t[x[p]], e)
        PROVE  Len(r.sorted) = cfg.limit /\ Below(cfg, f, r.sorted)
    <3>1. Len(r.sorted) = cfg.limit
      BY <1>1, <1>3, <1>6, <1>7, <2>1, <2>3
    <3>2. \A g \in others : ~RanksBefore(cfg, f, g)
      BY <2>3 DEF Below, others, EntriesOf
    <3>3. ~RanksBefore(cfg, f, e)
      <4>1. CASE known
        <5>1. x[p] \in DOMAIN t /\ t[x[p]] \in Entry
          BY <1>1, <4>1 DEF known
        <5>2. ~RanksBefore(cfg, f, t[x[p]])
          BY <2>3, <5>1 DEF Below
        <5>3. QED
          BY <2>3, <4>1, <5>1, <5>2, RankOrder
      <4>2. CASE ~known
        <5>1. pos \in DOMAIN u
          BY <1>3, <1>6, <1>8, <1>9, <1>10, <2>3, <4>2
        <5>2. u[pos] \in Entry /\ u[pos] \in others /\ ~RanksBefore(cfg, u[pos], e)
          BY <1>3, <1>6, <1>8, <5>1 DEF EntriesOf
        <5>3. QED
          BY <3>2, <5>2, RankOrder
      <4>3. QED
        BY <4>1, <4>2
    <3>4. \A i \in DOMAIN r.sorted : r.sorted[i] \in others \cup {e}
      BY <1>7, <2>1 DEF EntriesOf
    <3>5. QED
      BY <3>1, <3>2, <3>3, <3>4 DEF Below
  <2>4. QED
    BY <1>7, <2>1, <2>2, <2>3 DEF others, known, p
<1>11. CASE ~Fits(cfg, u, e)
  <2>1. r.sorted = u /\ r.lookup = rest.lookup /\ Len(u) = cfg.limit
    BY <1>2, <1>9, <1>11 DEF u
  <2>2. \A i \in DOMAIN u : RanksBefore(cfg, u[i], e) /\ u[i] \in Entry
    BY <1>6, <1>8, <1>9, <1>11
  <2>3. Below(cfg, e, u)
    BY <2>2, RankOrder DEF Below
  <2>4. ASSUME NEW f \in Entry, Below(cfg, f, t)
        PROVE  Below(cfg, f, u)
    <3>1. \A i \in DOMAIN u : u[i] \in EntriesOf(t)
      BY <1>3 DEF EntriesOf, others
    <3>2. QED
      BY <2>4, <3>1 DEF Below, EntriesOf
  <2>5. EntriesOf(r.sorted) = others
    BY <1>3, <2>1
  <2>6. Sound(cfg, r.sorted, r.lookup) /\ Len(r.sorted) <= cfg.limit /\ Len(r.sorted) = cfg.limit
    BY <1>3, <1>6, <2>1
  <2>7. \A f \in (others \cup {e}) \ EntriesOf(r.sorted) : Below(cfg, f, r.sorted)
    BY <2>1, <2>3, <2>5
  <2>8. QED
    BY <2>1, <2>4, <2>5, <2>6, <2>7 DEF others, known, p
<1>12. QED
  BY <1>10, <1>11

\* The table the server starts with: it is ranked, and no row that is left out
\* ranks before an entry.
LEMMA Loading ==
    ASSUME TypeOK, NEW cfg \in Configs, NEW t \in Tables(cfg)
    PROVE  /\ Sound(cfg, t, IndexOf(t))
           /\ Len(t) <= cfg.limit
           /\ EntriesOf(t) \subseteq {rows[p] : p \in DOMAIN rows}
           /\ \A e \in {rows[p] : p \in DOMAIN rows} \ EntriesOf(t) :
                Len(t) = cfg.limit /\ Below(cfg, e, t)
<1> DEFINE all == {rows[p] : p \in DOMAIN rows}
           c == Cardinality(all)
           n == IF c < cfg.limit THEN c ELSE cfg.limit
<1>1. /\ t \in [1..n -> all]
      /\ \A i, j \in 1..n : i < j => t[i] # t[j] /\ ~RanksBefore(cfg, t[j], t[i])
      /\ \A e \in all \ {t[i] : i \in 1..n} : n > 0 => ~RanksBefore(cfg, e, t[n])
  BY DEF Tables
<1>2. \A p \in DOMAIN rows : rows[p] \in Entry /\ rows[p].player = p /\ p \in Players
  BY DEF TypeOK
<1>3. IsFiniteSet(all) /\ c \in Nat
  <2>1. IsFiniteSet(DOMAIN rows)
    BY PlayersAssumption, FS_Subset DEF TypeOK
  <2> DEFINE f == [p \in DOMAIN rows |-> rows[p]]
  <2>2. f \in Surjection(DOMAIN rows, all)
    BY DEF Surjection
  <2> HIDE DEF f, all
  <2>3. IsFiniteSet(all)
    BY <2>1, <2>2, FS_Surjection
  <2>4. QED
    BY <2>3, FS_CardinalityType
<1>4. cfg.limit \in Nat
  BY ConfigsAssumption
<1>5. n \in Nat /\ n <= cfg.limit /\ (n = cfg.limit \/ n = c)
  BY <1>3, <1>4
<1> HIDE DEF n, c
<1>6. all \subseteq Entry
  BY <1>2
<1>7. t \in Seq(Entry) /\ Len(t) = n /\ DOMAIN t = 1..n
  BY <1>1, <1>5, <1>6
<1>8. \A i, j \in 1..n : t[i] = t[j] => i = j
  BY <1>1, <1>5
<1>9. Distinct(t)
  <2>1. \A i \in 1..n : \E p \in DOMAIN rows : t[i] = rows[p] /\ t[i].player = p
    BY <1>1, <1>2
  <2>2. QED
    BY <1>7, <1>8, <2>1 DEF Distinct
<1>10. InOrder(cfg, t)
  BY <1>1, <1>7 DEF InOrder
<1>11. Exact(t, IndexOf(t))
  BY <1>9 DEF Exact, IndexOf, PlayersIn, Distinct
<1>12. EntriesOf(t) \subseteq all
  BY <1>1, <1>7 DEF EntriesOf
<1>13. ASSUME NEW e \in all \ EntriesOf(t)
       PROVE  n = cfg.limit /\ Below(cfg, e, t)
  <2>1. n # c
    <3> SUFFICES ASSUME n = c
                 PROVE  FALSE
      OBVIOUS
    <3>1. t \in Injection(1..n, all)
      BY <1>1, <1>8 DEF Injection, IsInjective
    <3>2. Cardinality(1..n) = Cardinality(all)
      BY <1>5, FS_Interval DEF c
    <3> HIDE DEF all
    <3>3. t \in Surjection(1..n, all)
      BY <1>3, <3>1, <3>2, FS_Injection
    <3>4. QED
      BY <1>7, <1>13, <3>3 DEF Surjection, EntriesOf
  <2>2. ASSUME NEW i \in 1..n
        PROVE  ~RanksBefore(cfg, e, t[i])
    <3>1. n > 0 /\ n \in 1..n /\ e \in Entry /\ t[i] \in Entry /\ t[n] \in Entry
      BY <1>5, <1>6, <1>7, <1>13
    <3>2. ~RanksBefore(cfg, e, t[n])
      BY <1>1, <1>7, <1>13, <3>1 DEF EntriesOf
    <3>3. i = n \/ ~RanksBefore(cfg, t[n], t[i])
      BY <1>1, <1>5, <3>1
    <3>4. QED
      BY <3>1, <3>2, <3>3, RankOrder
  <2>3. QED
    BY <1>5, <1>7, <2>1, <2>2 DEF Below
<1>14. QED
  BY <1>5, <1>7, <1>10, <1>11, <1>12, <1>13 DEF Sound

\* A table of which only the first entries were loaded.
LEMMA LoadingSome ==
    ASSUME TypeOK, NEW cfg \in Configs, NEW t \in Tables(cfg), NEW u \in Prefixes(t)
    PROVE  /\ Sound(cfg, u, IndexOf(u))
           /\ Len(u) <= cfg.limit
           /\ EntriesOf(u) \subseteq {rows[p] : p \in DOMAIN rows}
<1>1. /\ t \in Seq(Entry) /\ InOrder(cfg, t) /\ Distinct(t)
      /\ Len(t) <= cfg.limit
      /\ EntriesOf(t) \subseteq {rows[p] : p \in DOMAIN rows}
  <2>1. /\ Sound(cfg, t, IndexOf(t))
        /\ Len(t) <= cfg.limit
        /\ EntriesOf(t) \subseteq {rows[p] : p \in DOMAIN rows}
    BY Loading
  <2>2. QED
    BY <2>1, Exactness DEF Sound
<1>2. cfg.limit \in Nat /\ Len(t) \in Nat /\ DOMAIN t = 1..Len(t)
  BY <1>1, ConfigsAssumption
<1>3. PICK l \in 0..Len(t) : u = SubSeq(t, 1, l)
  BY DEF Prefixes
<1>4. /\ u \in Seq(Entry) /\ Len(u) = l /\ DOMAIN u = 1..l
      /\ \A i \in 1..l : i \in DOMAIN t /\ u[i] = t[i]
  BY <1>1, <1>2, <1>3
<1>5. InOrder(cfg, u)
  BY <1>1, <1>4 DEF InOrder
<1>6. Distinct(u)
  BY <1>1, <1>4 DEF Distinct
<1>7. Exact(u, IndexOf(u))
  BY <1>6 DEF Exact, IndexOf, PlayersIn, Distinct
<1>8. EntriesOf(u) \subseteq EntriesOf(t)
  BY <1>4 DEF EntriesOf
<1>9. QED
  BY <1>1, <1>2, <1>3, <1>4, <1>5, <1>7, <1>8 DEF Sound

(***************************************************************************)
(* The invariant.                                                          *)
(***************************************************************************)

\* The table is sound and no longer than its limit.
TableOK == Sound(config, sorted, lookup) /\ Len(sorted) <= config.limit

\* A file is there from its upload on, with what was uploaded, and nobody knows
\* of it before it is attached, but for what may be left of a former one of its id.
Uploads ==
    \A s \in Sessions : task[s].at \in {"attach", "store"} =>
        /\ task[s].file \in DOMAIN files
        /\ files[task[s].file] = [player |-> task[s].player, score |-> task[s].score]
Holds(r) ==
    \/ task[r].at \in {"attach", "store"}
    \/ task[r].at = "read" /\ Keeps(task[r].player, task[r].file)
Unshared ==
    \A s \in Sessions : task[s].at = "attach" =>
        /\ \A p \in DOMAIN rows : Keeps(p, rows[p].data) => rows[p].data # task[s].file
        /\ \A i \in DOMAIN sorted :
            Keeps(sorted[i].player, sorted[i].data) => sorted[i].data # task[s].file
        /\ \A r \in Sessions \ {s} : Holds(r) => task[r].file # task[s].file
FilesOK ==
    /\ DataIsOwn
    /\ DOMAIN files \subseteq 1..(nextFile - 1)
    /\ Uploads
    /\ Unshared

\* What the one handler that changes a player's entry has still to do makes the
\* row and the entry the same.
Unfinished(s, p) ==
    LET t == task[s]
    IN  /\ t.at = "insert" => p \in DOMAIN rows /\ rows[p] = NewEntry(p, t.score, t.stamp)
        /\ t.at = "attach" /\ Cached(p) =>
            p \in DOMAIN rows /\ CachedEntry(p) = rows[p] /\ rows[p].score = t.score
        /\ t.at = "store" /\ Cached(p) =>
            /\ p \in DOMAIN rows /\ rows[p].score = t.score
            /\ CachedEntry(p) = [rows[p] EXCEPT !.data = t.file]
Agreed(p) ==
    /\ \A s, r \in Writers(p) : s = r
    /\ Writers(p) = {} /\ Cached(p) => p \in DOMAIN rows /\ CachedEntry(p) = rows[p]
    /\ \A s \in Writers(p) : Unfinished(s, p)
Agreement == \A p \in Players \ doubtful : Agreed(p)

\* BoardIsTop, but for the players whose new scores have not come to the table.
TopOK ==
    ~lacking =>
        \A p \in DOMAIN rows \ doubtful :
            ~Cached(p) /\ (\A s \in Writers(p) : task[s].at # "insert") =>
                Len(sorted) = config.limit /\ Below(config, rows[p], sorted)

IInv == TypeOK /\ TableOK /\ FilesOK /\ Agreement /\ TopOK

\* The members of Task.
LEMMA TaskFields ==
    ASSUME NEW t \in Task
    PROVE  /\ t.at \in {"idle", "insert", "attach", "store", "read"}
           /\ t.at = "insert" => t.player \in Players /\ t.score \in Scores /\ t.stamp \in Stamps
           /\ t.at \in {"attach", "store"} =>
                t.player \in Players /\ t.score \in Scores /\ t.file \in FileIds
           /\ t.at = "read" => t.player \in Players /\ t.file \in FileIds
           /\ t.at = "idle" => t = Idle
BY DEF Task, Idle

\* What the index of a sound table tells.
LEMMA Lookups ==
    ASSUME TableOK
    PROVE  /\ sorted \in Seq(Entry)
           /\ \A p : Cached(p) => /\ lookup[p] \in DOMAIN sorted
                                  /\ CachedEntry(p) \in Entry /\ CachedEntry(p).player = p
           /\ \A i \in DOMAIN sorted : /\ Cached(sorted[i].player)
                                       /\ lookup[sorted[i].player] = i
                                       /\ CachedEntry(sorted[i].player) = sorted[i]
<1>1. sorted \in Seq(Entry) /\ Exact(sorted, lookup)
  BY DEF TableOK, Sound
<1>2. \A p \in DOMAIN lookup : lookup[p] \in DOMAIN sorted /\ sorted[lookup[p]].player = p
  BY <1>1, Exactness
<1>3. QED
  BY <1>1, <1>2 DEF Exact, Cached, CachedEntry, PlayersIn

LEMMA Initially == Init => IInv
<1> SUFFICES ASSUME Init
             PROVE  IInv
  OBVIOUS
<1> USE DEF Init
<1>1. TypeOK
  <2>1. Idle \in Task
    BY DEF Task
  <2>2. task \in [Sessions -> Task]
    BY <2>1
  <2>3. nextFile \in 1..(MaxFiles + 1)
    BY FilesAssumption
  <2>4. sorted \in Seq(Entry) /\ DOMAIN lookup = {} /\ DOMAIN rows = {} /\ DOMAIN files = {}
    OBVIOUS
  <2>5. QED
    BY <2>2, <2>3, <2>4 DEF TypeOK
<1>2. TableOK
  <2>1. config.limit \in Nat
    BY ConfigsAssumption
  <2>2. QED
    BY <2>1 DEF TableOK, Sound, InOrder, Exact, PlayersIn
<1>3. FilesOK
  BY DEF FilesOK, DataIsOwn, Uploads, Unshared, Idle
<1>4. Agreement
  BY DEF Agreement, Agreed, Writers, Cached, Idle
<1>5. TopOK
  BY DEF TopOK
<1>6. QED
  BY <1>1, <1>2, <1>3, <1>4, <1>5 DEF IInv

(***************************************************************************)
(* The steps.                                                              *)
(***************************************************************************)

Writing(t, p) == t.at \in {"insert", "attach", "store"} /\ t.player = p

\* Who is at work on a player's entry after one session's handler has moved on.
LEMMA WritersAfter ==
    ASSUME TypeOK, NEW s \in Sessions, NEW next, Goes(s, next)
    PROVE  /\ \A r \in Sessions \ {s} : task'[r] = task[r]
           /\ task'[s] = next
           /\ \A p : Writers(p)' = (Writers(p) \ {s}) \cup {r \in {s} : Writing(next, p)}
<1>1. task' = [task EXCEPT ![s] = next] /\ task \in [Sessions -> Task]
  BY DEF Goes, TypeOK
<1>2. /\ \A r \in Sessions \ {s} : task'[r] = task[r]
      /\ task'[s] = next
  BY <1>1
<1>3. ASSUME NEW p
      PROVE  Writers(p)' = (Writers(p) \ {s}) \cup {r \in {s} : Writing(next, p)}
  BY <1>2 DEF Writers, Writing
<1>4. QED
  BY <1>2, <1>3

\* A player is no worse off if only others' rows, entries and handlers change,
\* or if its entry drops out.
LEMMA AgreedStays ==
    ASSUME NEW p, Agreed(p),
           Writers(p)' = Writers(p), \A r \in Writers(p) : task'[r] = task[r],
           p \in DOMAIN rows => p \in DOMAIN rows' /\ rows'[p] = rows[p],
           Cached(p)' => Cached(p) /\ CachedEntry(p)' = CachedEntry(p)
    PROVE  Agreed(p)'
<1>1. \A q, r \in Writers(p)' : q = r
  BY DEF Agreed
<1>2. Writers(p)' = {} /\ Cached(p)' => p \in DOMAIN rows' /\ CachedEntry(p)' = rows'[p]
  BY DEF Agreed
<1>3. ASSUME NEW r \in Writers(p)'
      PROVE  Unfinished(r, p)'
  <2>1. Unfinished(r, p) /\ task'[r] = task[r]
    BY DEF Agreed
  <2>2. QED
    BY <2>1 DEF Unfinished, NewEntry
<1>4. QED
  BY <1>1, <1>2, <1>3 DEF Agreed

LEMMA RecordKeeps ==
    ASSUME IInv, NEW s \in Sessions, NEW p \in Players, NEW score \in Scores, NEW stamp \in Stamps,
           CmdRecordScore(s, p, score, stamp)
    PROVE  IInv'
<1> DEFINE next == [at |-> "insert", player |-> p, score |-> score, stamp |-> stamp]
           row == NewEntry(p, score, stamp)
<1>0. TypeOK /\ TableOK /\ FilesOK /\ Agreement /\ TopOK
  BY DEF IInv
<1>1. /\ task[s] = Idle
      /\ rows' = [q \in DOMAIN rows \cup {p} |-> IF q = p THEN row ELSE rows[q]]
      /\ Goes(s, next)
      /\ doubtful' = IF Writers(p) = {} THEN doubtful \ {p} ELSE doubtful \cup {p}
      /\ config' = config /\ files' = files /\ nextFile' = nextFile
      /\ sorted' = sorted /\ lookup' = lookup /\ lacking' = lacking /\ lost' = lost
  BY DEF CmdRecordScore, Free, NewRow, cache, history
<1>2. next \in Task /\ row \in Entry /\ row.player = p /\ row.data = NoData
  BY DEF Task, Entry, NewEntry
<1>3. /\ \A r \in Sessions \ {s} : task'[r] = task[r]
      /\ task'[s] = next
      /\ \A q : Writers(q)' = (Writers(q) \ {s}) \cup {r \in {s} : Writing(next, q)}
  BY <1>0, <1>1, WritersAfter
<1>4. \A q : s \notin Writers(q)
  BY <1>1 DEF Writers, Idle
<1>5. \A q : q # p => Writers(q)' = Writers(q)
  BY <1>3, <1>4 DEF Writing
<1>6. Writers(p)' = Writers(p) \cup {s}
  BY <1>3, <1>4 DEF Writing
<1>7. /\ rows'[p] = row /\ p \in DOMAIN rows' /\ DOMAIN rows' = DOMAIN rows \cup {p}
      /\ \A q \in DOMAIN rows : q # p => rows'[q] = rows[q]
  BY <1>1
<1> HIDE DEF row
<1>8. TypeOK'
  <2>1. task' \in [Sessions -> Task]
    BY <1>0, <1>1, <1>2 DEF TypeOK, Goes
  <2>2. DOMAIN rows' \subseteq Players /\ \A q \in DOMAIN rows' : rows'[q] \in Entry /\ rows'[q].player = q
    BY <1>0, <1>2, <1>7 DEF TypeOK
  <2>3. doubtful' \subseteq Players
    BY <1>0, <1>1 DEF TypeOK
  <2>4. QED
    BY <1>0, <1>1, <2>1, <2>2, <2>3 DEF TypeOK
<1>9. TableOK'
  BY <1>0, <1>1 DEF TableOK
<1>10. FilesOK'
  <2>1. DataIsOwn'
    <3>1. DataIsOwn
      BY <1>0 DEF FilesOK
    <3>2. \A q \in DOMAIN rows' : Keeps(q, rows'[q].data) => q \in DOMAIN rows /\ rows'[q] = rows[q]
      BY <1>2, <1>7 DEF Keeps
    <3>3. \A r \in Sessions : task'[r].at = "read" => task'[r] = task[r]
      BY <1>3
    <3>4. \A q \in DOMAIN rows' : Keeps(q, rows'[q].data) =>
            /\ rows'[q].data \in DOMAIN files'
            /\ files'[rows'[q].data] = [player |-> q, score |-> rows'[q].score]
      BY <1>1, <3>1, <3>2 DEF DataIsOwn, Keeps
    <3>5. \A i \in DOMAIN sorted' : Keeps(sorted'[i].player, sorted'[i].data) =>
            /\ sorted'[i].data \in DOMAIN files'
            /\ files'[sorted'[i].data].player = sorted'[i].player
      BY <1>1, <3>1 DEF DataIsOwn, Keeps
    <3>6. \A r \in Sessions : task'[r].at = "read" /\ Keeps(task'[r].player, task'[r].file) =>
            /\ task'[r].file \in DOMAIN files'
            /\ files'[task'[r].file].player = task'[r].player
      BY <1>1, <3>1, <3>3 DEF DataIsOwn, Keeps
    <3>7. QED
      BY <1>1, <3>4, <3>5, <3>6 DEF DataIsOwn, Keeps
  <2>2. Uploads'
    <3>1. \A r \in Sessions : task'[r].at \in {"attach", "store"} => task'[r] = task[r]
      BY <1>3
    <3>2. QED
      BY <1>0, <1>1, <3>1 DEF FilesOK, Uploads
  <2>3. Unshared'
    <3> SUFFICES ASSUME NEW r \in Sessions, task'[r].at = "attach"
                 PROVE  /\ \A q \in DOMAIN rows' :
                            Keeps(q, rows'[q].data) => rows'[q].data # task'[r].file
                        /\ \A i \in DOMAIN sorted' :
                            Keeps(sorted'[i].player, sorted'[i].data) => sorted'[i].data # task'[r].file
                        /\ \A o \in Sessions \ {r} : Holds(o)' => task'[o].file # task'[r].file
      BY <1>1 DEF Unshared, Keeps
    <3>1. r # s /\ task'[r] = task[r]
      BY <1>3
    <3>2. task[r].file \in FileIds
      BY <1>0, <3>1, TaskFields DEF TypeOK
    <3>3. rows'[p].data # task[r].file
      BY <1>2, <1>7, <3>2, FilesAssumption DEF FileIds
    <3>4. QED
      BY <1>0, <1>1, <1>3, <1>7, <3>1, <3>3 DEF FilesOK, Unshared, Holds, Keeps
  <2>4. QED
    BY <1>0, <1>1, <2>1, <2>2, <2>3 DEF FilesOK
<1>11. Agreement'
  <2> SUFFICES ASSUME NEW q \in Players, q \notin doubtful'
               PROVE  Agreed(q)'
    BY DEF Agreement
  <2>1. CASE q # p
    <3>1. Agreed(q)
      BY <1>0, <1>1, <2>1 DEF Agreement
    <3>2. \A r \in Writers(q) : task'[r] = task[r]
      BY <1>3, <1>4 DEF Writers
    <3>3. Cached(q)' => Cached(q) /\ CachedEntry(q)' = CachedEntry(q)
      BY <1>1 DEF Cached, CachedEntry
    <3>4. QED
      BY <1>5, <1>7, <2>1, <3>1, <3>2, <3>3, AgreedStays
  <2>2. CASE q = p
    <3>1. Writers(p)' = {s}
      BY <1>1, <1>6, <2>2
    <3>2. Unfinished(s, p)'
      BY <1>3, <1>7 DEF Unfinished, NewEntry, row
    <3>3. QED
      BY <2>2, <3>1, <3>2 DEF Agreed
  <2>3. QED
    BY <2>1, <2>2
<1>12. TopOK'
  <2> SUFFICES ASSUME ~lacking', NEW q \in DOMAIN rows' \ doubtful', ~Cached(q)',
                      \A r \in Writers(q)' : task'[r].at # "insert"
               PROVE  Len(sorted') = config'.limit /\ Below(config', rows'[q], sorted')
    BY DEF TopOK
  <2>1. q # p
    BY <1>3, <1>6
  <2>2. q \in DOMAIN rows \ doubtful /\ ~Cached(q) /\ rows'[q] = rows[q]
    BY <1>1, <1>7, <2>1 DEF Cached
  <2>3. \A r \in Writers(q) : task[r].at # "insert"
    <3>1. \A r \in Writers(q) : task'[r] = task[r]
      BY <1>3, <1>4 DEF Writers
    <3>2. QED
      BY <1>5, <2>1, <3>1
  <2>4. QED
    BY <1>0, <1>1, <2>2, <2>3 DEF TopOK
<1>13. QED
  BY <1>8, <1>9, <1>10, <1>11, <1>12 DEF IInv

LEMMA InsertKeeps ==
    ASSUME IInv, NEW s \in Sessions, InsertScore(s)
    PROVE  IInv'
<1> DEFINE p == task[s].player
           e == NewEntry(p, task[s].score, task[s].stamp)
           new == Ranked(config, Ranking(sorted, lookup), e)
           others == {f \in EntriesOf(sorted) : f.player # p}
<1>0. TypeOK /\ TableOK /\ FilesOK /\ Agreement /\ TopOK
  BY DEF IInv
<1>1. /\ task[s].at = "insert"
      /\ sorted' = new.sorted /\ lookup' = new.lookup
      /\ Goes(s, Idle)
      /\ lacking' = (lacking \/ (Cached(p) /\ RanksBefore(config, CachedEntry(p), e)))
      /\ config' = config /\ rows' = rows /\ files' = files /\ nextFile' = nextFile
      /\ doubtful' = doubtful /\ lost' = lost
  BY DEF InsertScore, durable
<1>2. e \in Entry /\ e.player = p /\ e.data = NoData /\ p \in Players
  <2>1. task[s] \in Task
    BY <1>0 DEF TypeOK
  <2>2. p \in Players /\ task[s].score \in Scores /\ task[s].stamp \in Stamps
    BY <1>1, <2>1, TaskFields
  <2>3. QED
    BY <2>2 DEF Entry, NewEntry
<1>3. /\ \A r \in Sessions \ {s} : task'[r] = task[r]
      /\ task'[s] = Idle
      /\ \A q : Writers(q)' = Writers(q) \ {s}
  BY <1>0, <1>1, WritersAfter DEF Writing, Idle
<1>4. config.limit \in Nat
  BY <1>0, ConfigsAssumption DEF TypeOK
<1>5. /\ Sound(config, sorted', lookup')
      /\ Len(sorted') <= config.limit
      /\ EntriesOf(sorted') \subseteq others \cup {e}
      /\ \A f \in (others \cup {e}) \ EntriesOf(sorted') :
            Len(sorted') = config.limit /\ Below(config, f, sorted')
      /\ \A f \in Entry :
            /\ Len(sorted) = config.limit /\ Below(config, f, sorted)
            /\ p \in DOMAIN lookup => ~RanksBefore(config, sorted[lookup[p]], e)
            => Len(sorted') = config.limit /\ Below(config, f, sorted')
  <2> HIDE DEF e, new
  <2>1. Sound(config, sorted, lookup) /\ Len(sorted) <= config.limit
    BY <1>0 DEF TableOK
  <2>2. QED
    BY <1>1, <1>2, <1>4, <2>1, Recording DEF new
<1> HIDE DEF e, new, p
<1>6. /\ sorted' \in Seq(Entry) /\ DOMAIN lookup' = PlayersIn(sorted')
      /\ \A q \in DOMAIN lookup' : /\ lookup'[q] \in DOMAIN sorted'
                                   /\ sorted'[lookup'[q]] \in EntriesOf(sorted')
                                   /\ sorted'[lookup'[q]].player = q
      /\ \A i \in DOMAIN sorted' : sorted'[i] \in EntriesOf(sorted')
  BY <1>5, Exactness DEF Sound, Exact, EntriesOf
<1>7. \A f \in others : Cached(f.player) /\ CachedEntry(f.player) = f /\ f.player # p
  BY <1>0, Lookups DEF EntriesOf
<1>8. TypeOK'
  <2>1. task' \in [Sessions -> Task]
    BY <1>0, <1>1 DEF TypeOK, Goes, Task
  <2>2. DOMAIN lookup' \subseteq Players
    BY <1>6, EntryFields DEF PlayersIn
  <2>3. lacking' \in BOOLEAN
    BY <1>0, <1>1 DEF TypeOK
  <2>4. QED
    BY <1>0, <1>1, <1>6, <2>1, <2>2, <2>3 DEF TypeOK
<1>9. TableOK'
  BY <1>1, <1>5 DEF TableOK
<1>10. FilesOK'
  <2>1. \A r \in Sessions : task'[r].at # "idle" => r # s /\ task'[r] = task[r]
    BY <1>3 DEF Idle
  <2>2. \A i \in DOMAIN sorted' :
            \/ sorted'[i].data = NoData
            \/ \E j \in DOMAIN sorted : sorted'[i] = sorted[j]
    BY <1>2, <1>5, <1>6 DEF EntriesOf
  <2>3. DataIsOwn'
    <3>1. DataIsOwn
      BY <1>0 DEF FilesOK
    <3>2. \A i \in DOMAIN sorted' : Keeps(sorted'[i].player, sorted'[i].data) =>
            /\ sorted'[i].data \in DOMAIN files'
            /\ files'[sorted'[i].data].player = sorted'[i].player
      BY <1>1, <2>2, <3>1 DEF DataIsOwn, Keeps
    <3>3. \A r \in Sessions : task'[r].at = "read" /\ Keeps(task'[r].player, task'[r].file) =>
            /\ task'[r].file \in DOMAIN files'
            /\ files'[task'[r].file].player = task'[r].player
      BY <1>1, <2>1, <3>1 DEF DataIsOwn, Keeps
    <3>4. QED
      BY <1>1, <3>1, <3>2, <3>3 DEF DataIsOwn, Keeps
  <2>4. Uploads'
    BY <1>0, <1>1, <2>1 DEF FilesOK, Uploads
  <2>5. Unshared'
    <3> SUFFICES ASSUME NEW r \in Sessions, task'[r].at = "attach"
                 PROVE  /\ \A q \in DOMAIN rows' :
                            Keeps(q, rows'[q].data) => rows'[q].data # task'[r].file
                        /\ \A i \in DOMAIN sorted' :
                            Keeps(sorted'[i].player, sorted'[i].data) => sorted'[i].data # task'[r].file
                        /\ \A o \in Sessions \ {r} : Holds(o)' => task'[o].file # task'[r].file
      BY <1>1 DEF Unshared, Keeps
    <3>1. r # s /\ task'[r] = task[r]
      BY <2>1
    <3>2. task[r].file # NoData
      <4>1. task[r].file \in FileIds
        BY <1>0, <3>1, TaskFields DEF TypeOK
      <4>2. QED
        BY <4>1, FilesAssumption DEF FileIds
    <3>3. \A i \in DOMAIN sorted' : Keeps(sorted'[i].player, sorted'[i].data) => sorted'[i].data # task[r].file
      BY <1>0, <2>2, <3>1, <3>2 DEF FilesOK, Unshared, Holds, Keeps
    <3>4. QED
      BY <1>0, <1>1, <2>1, <3>1, <3>3 DEF FilesOK, Unshared, Holds, Keeps
  <2>6. QED
    BY <1>0, <1>1, <2>3, <2>4, <2>5 DEF FilesOK
<1>11. \A q : Cached(q)' => CachedEntry(q)' \in others \cup {e} /\ CachedEntry(q)'.player = q
  BY <1>5, <1>6 DEF Cached, CachedEntry
<1>12. Agreement'
  <2> SUFFICES ASSUME NEW q \in Players, q \notin doubtful
               PROVE  Agreed(q)'
    BY <1>1 DEF Agreement
  <2>1. Agreed(q)
    BY <1>0 DEF Agreement
  <2>2. CASE q # p
    <3>1. Writers(q)' = Writers(q) /\ s \notin Writers(q)
      BY <1>3, <2>2 DEF Writers, p
    <3>2. \A r \in Writers(q) : task'[r] = task[r]
      BY <1>3, <3>1 DEF Writers
    <3>3. Cached(q)' => Cached(q) /\ CachedEntry(q)' = CachedEntry(q)
      <4>1. Cached(q)' => CachedEntry(q)' \in others
        BY <1>2, <1>11, <2>2
      <4>2. QED
        BY <1>7, <1>11, <4>1
    <3>4. QED
      BY <1>1, <2>1, <3>1, <3>2, <3>3, AgreedStays
  <2>3. CASE q = p
    <3>1. s \in Writers(q)
      BY <1>1, <2>3 DEF Writers, p
    <3>2. Writers(q)' = {}
      BY <1>3, <2>1, <3>1 DEF Agreed
    <3>3. q \in DOMAIN rows /\ rows[q] = e
      BY <1>1, <2>1, <2>3, <3>1 DEF Agreed, Unfinished, e
    <3>4. Cached(q)' => CachedEntry(q)' = e
      BY <1>7, <1>11, <2>3
    <3>5. QED
      BY <1>1, <3>2, <3>3, <3>4 DEF Agreed
  <2>4. QED
    BY <2>2, <2>3
<1>13. TopOK'
  <2> SUFFICES ASSUME ~lacking', NEW q \in DOMAIN rows \ doubtful, ~Cached(q)',
                      \A r \in Writers(q)' : task'[r].at # "insert"
               PROVE  Len(sorted') = config.limit /\ Below(config, rows[q], sorted')
    BY <1>1 DEF TopOK
  <2>1. q \in Players /\ rows[q] \in Entry /\ rows[q].player = q /\ Agreed(q)
    BY <1>0 DEF TypeOK, Agreement
  <2>2. CASE q = p
    <3>1. s \in Writers(p)
      BY <1>1 DEF Writers, p
    <3>2. rows[p] = e
      BY <1>1, <2>1, <2>2, <3>1 DEF Agreed, Unfinished, e
    <3>3. e \notin EntriesOf(sorted')
      <4>1. \A i \in DOMAIN sorted' : sorted'[i].player \in DOMAIN lookup'
        BY <1>6 DEF PlayersIn
      <4>2. QED
        BY <1>2, <2>2, <4>1 DEF EntriesOf, Cached
    <3>4. QED
      BY <1>5, <2>2, <3>2, <3>3
  <2>3. CASE q # p
    <3>1. s \notin Writers(q) /\ Writers(q)' = Writers(q)
      BY <1>3, <2>3 DEF Writers, p
    <3>2. \A r \in Writers(q) : task'[r] = task[r]
      BY <1>3, <3>1 DEF Writers
    <3>3. \A r \in Writers(q) : task[r].at # "insert"
      BY <3>1, <3>2
    <3>4. CASE Cached(q)
      <4> DEFINE f == CachedEntry(q)
      <4>1. f \in others
        BY <1>0, <2>3, <3>4, Lookups DEF EntriesOf, CachedEntry
      <4>2. f \notin EntriesOf(sorted')
        <5>1. \A i \in DOMAIN sorted' : sorted'[i].player \in DOMAIN lookup'
          BY <1>6 DEF PlayersIn
        <5>2. f.player = q
          BY <1>0, <3>4, Lookups
        <5> HIDE DEF f
        <5>3. QED
          BY <5>1, <5>2 DEF EntriesOf, Cached
      <4>3. Len(sorted') = config.limit /\ Below(config, f, sorted')
        BY <1>5, <4>1, <4>2
      <4>4. f.player = rows[q].player /\ f.score = rows[q].score /\ f.stamp = rows[q].stamp
        <5>1. CASE Writers(q) = {}
          BY <2>1, <3>4, <5>1 DEF Agreed
        <5>2. CASE Writers(q) # {}
          <6>1. PICK r \in Writers(q) : TRUE
            BY <5>2
          <6>2. Unfinished(r, q) /\ task[r].at \in {"attach", "store"}
            BY <2>1, <3>3, <6>1 DEF Agreed, Writers
          <6>3. \/ f = rows[q]
                \/ f = [rows[q] EXCEPT !.data = task[r].file]
            BY <3>4, <6>2 DEF Unfinished
          <6>4. rows[q] \in Entry
            BY <2>1
          <6> HIDE DEF f
          <6>5. QED
            BY <6>3, <6>4 DEF Entry
        <5>3. QED
          BY <5>1, <5>2
      <4> HIDE DEF f
      <4>5. Below(config, rows[q], sorted')
        BY <4>3, <4>4, SameRank DEF Below
      <4>6. QED
        BY <4>3, <4>5
    <3>5. CASE ~Cached(q)
      <4>1. ~lacking /\ (Cached(p) => ~RanksBefore(config, CachedEntry(p), e))
        BY <1>1
      <4>2. Len(sorted) = config.limit /\ Below(config, rows[q], sorted)
        BY <1>0, <3>3, <3>5, <4>1 DEF TopOK
      <4>3. QED
        BY <1>5, <2>1, <4>1, <4>2 DEF Cached, CachedEntry
    <3>6. QED
      BY <3>4, <3>5
  <2>4. QED
    BY <2>2, <2>3
<1>14. QED
  BY <1>8, <1>9, <1>10, <1>12, <1>13 DEF IInv

\* A step that leaves the rows, the table and the players' writers alone leaves
\* the ranking and its agreement with the rows alone.
LEMMA OthersStay ==
    ASSUME NEW p \in Players, Agreed(p), NEW s \in Sessions,
           rows' = rows, sorted' = sorted, lookup' = lookup,
           \A r \in Sessions \ {s} : task'[r] = task[r],
           Writers(p)' = Writers(p), s \notin Writers(p)
    PROVE  Agreed(p)'
<1>1. \A r \in Writers(p) : task'[r] = task[r]
  BY DEF Writers
<1>2. Cached(p)' => Cached(p) /\ CachedEntry(p)' = CachedEntry(p)
  BY DEF Cached, CachedEntry
<1>3. QED
  BY <1>1, <1>2, AgreedStays

LEMMA UploadKeeps ==
    ASSUME IInv, NEW s \in Sessions, NEW p \in Players, NEW score \in Scores,
           CmdRecordScoreData(s, p, score)
    PROVE  IInv'
<1> DEFINE next == [at |-> "attach", player |-> p, score |-> score, file |-> nextFile]
           upload == [player |-> p, score |-> score]
<1>0. TypeOK /\ TableOK /\ FilesOK /\ Agreement /\ TopOK
  BY DEF IInv
<1>1. /\ task[s] = Idle
      /\ Cached(p) /\ CachedEntry(p).score = score
      /\ nextFile <= MaxFiles /\ nextFile' = nextFile + 1
      /\ config' = config /\ rows' = rows /\ sorted' = sorted /\ lookup' = lookup
      /\ lacking' = lacking /\ lost' = lost
  BY DEF CmdRecordScoreData, Free, durable, cache, history
<1>2. nextFile \in FileIds /\ nextFile' \in 1..(MaxFiles + 1) /\ nextFile \notin DOMAIN files
  BY <1>0, <1>1, FilesAssumption DEF TypeOK, FileIds, FilesOK
<1>3. TableOK'
  BY <1>0, <1>1 DEF TableOK
<1>4. CASE UNCHANGED <<files, task, doubtful>>
  <2>1. TypeOK'
    BY <1>0, <1>1, <1>2, <1>4 DEF TypeOK
  <2>2. FilesOK'
    <3>1. DOMAIN files \subseteq 1..(nextFile' - 1)
      BY <1>0, <1>1 DEF TypeOK, FilesOK
    <3>2. QED
      BY <1>0, <1>1, <1>4, <3>1 DEF FilesOK, DataIsOwn, Uploads, Unshared, Holds, Keeps
  <2>3. Agreement'
    <3>1. \A q : Agreed(q)' = Agreed(q)
      BY <1>1, <1>4 DEF Agreed, Writers, Cached, CachedEntry, Unfinished, NewEntry
    <3>2. QED
      BY <1>0, <1>4, <3>1 DEF Agreement
  <2>4. TopOK'
    BY <1>0, <1>1, <1>4 DEF TopOK, Writers, Cached
  <2>5. QED
    BY <1>3, <2>1, <2>2, <2>3, <2>4 DEF IInv
<1>5. CASE /\ files' = [id \in DOMAIN files \cup {nextFile} |->
                            IF id = nextFile THEN upload ELSE files[id]]
           /\ Goes(s, next)
           /\ doubtful' = IF Writers(p) = {} THEN doubtful ELSE doubtful \cup {p}
  <2>1. next \in Task /\ upload \in Upload
    BY <1>2 DEF Task, Upload
  <2>2. /\ \A r \in Sessions \ {s} : task'[r] = task[r]
        /\ task'[s] = next
        /\ \A q : Writers(q)' = (Writers(q) \ {s}) \cup {r \in {s} : Writing(next, q)}
    BY <1>0, <1>5, WritersAfter
  <2>3. \A q : s \notin Writers(q)
    BY <1>1 DEF Writers, Idle
  <2>4. /\ \A q : q # p => Writers(q)' = Writers(q)
        /\ Writers(p)' = Writers(p) \cup {s}
    BY <2>2, <2>3 DEF Writing
  <2>5. /\ DOMAIN files' = DOMAIN files \cup {nextFile}
        /\ files'[nextFile] = upload
        /\ \A id \in DOMAIN files : files'[id] = files[id]
    BY <1>2, <1>5
  <2>6. TypeOK'
    <3>1. task' \in [Sessions -> Task]
      BY <1>0, <1>5, <2>1 DEF TypeOK, Goes
    <3>2. DOMAIN files' \subseteq FileIds /\ \A id \in DOMAIN files' : files'[id] \in Upload
      BY <1>0, <1>2, <2>1, <2>5 DEF TypeOK
    <3>3. doubtful' \subseteq Players
      BY <1>0, <1>5 DEF TypeOK
    <3>4. QED
      BY <1>0, <1>1, <1>2, <3>1, <3>2, <3>3 DEF TypeOK
  <2>7. FilesOK'
    <3>1. DataIsOwn /\ Uploads /\ Unshared /\ DOMAIN files \subseteq 1..(nextFile - 1)
      BY <1>0 DEF FilesOK
    <3>2. DataIsOwn'
      <4>1. \A q \in DOMAIN rows' : Keeps(q, rows'[q].data) =>
              /\ rows'[q].data \in DOMAIN files'
              /\ files'[rows'[q].data] = [player |-> q, score |-> rows'[q].score]
        BY <1>1, <2>5, <3>1 DEF DataIsOwn, Keeps
      <4>2. \A i \in DOMAIN sorted' : Keeps(sorted'[i].player, sorted'[i].data) =>
              /\ sorted'[i].data \in DOMAIN files'
              /\ files'[sorted'[i].data].player = sorted'[i].player
        BY <1>1, <2>5, <3>1 DEF DataIsOwn, Keeps
      <4>3. \A r \in Sessions : task'[r].at = "read" /\ Keeps(task'[r].player, task'[r].file) =>
              /\ task'[r].file \in DOMAIN files'
              /\ files'[task'[r].file].player = task'[r].player
        <5>1. \A r \in Sessions : task'[r].at = "read" => task'[r] = task[r]
          BY <2>2
        <5>2. QED
          BY <2>5, <3>1, <5>1 DEF DataIsOwn, Keeps
      <4>4. QED
        BY <1>1, <4>1, <4>2, <4>3 DEF DataIsOwn, Keeps
    <3>3. Uploads'
      <4> SUFFICES ASSUME NEW r \in Sessions, task'[r].at \in {"attach", "store"}
                   PROVE  /\ task'[r].file \in DOMAIN files'
                          /\ files'[task'[r].file] =
                                [player |-> task'[r].player, score |-> task'[r].score]
        BY DEF Uploads
      <4>1. CASE r = s
        BY <2>2, <2>5, <4>1
      <4>2. CASE r # s
        BY <2>2, <2>5, <3>1, <4>2 DEF Uploads
      <4>3. QED
        BY <4>1, <4>2
    <3>4. \A r \in Sessions : Holds(r) => task[r].file # nextFile
      BY <1>2, <3>1 DEF DataIsOwn, Uploads, Holds
    <3>5. Unshared'
      <4> SUFFICES ASSUME NEW r \in Sessions, task'[r].at = "attach"
                   PROVE  /\ \A q \in DOMAIN rows' :
                              Keeps(q, rows'[q].data) => rows'[q].data # task'[r].file
                          /\ \A i \in DOMAIN sorted' :
                              Keeps(sorted'[i].player, sorted'[i].data) => sorted'[i].data # task'[r].file
                          /\ \A o \in Sessions \ {r} : Holds(o)' => task'[o].file # task'[r].file
        BY <1>1 DEF Unshared, Keeps
      <4>1. CASE r = s
        <5>1. task'[r].file = nextFile
          BY <2>2, <4>1
        <5>2. /\ \A q \in DOMAIN rows : Keeps(q, rows[q].data) => rows[q].data # nextFile
              /\ \A i \in DOMAIN sorted :
                    Keeps(sorted[i].player, sorted[i].data) => sorted[i].data # nextFile
          BY <1>2, <3>1 DEF DataIsOwn
        <5>3. QED
          BY <1>1, <2>2, <3>4, <4>1, <5>1, <5>2 DEF Holds, Keeps
      <4>2. CASE r # s
        <5>1. task'[r] = task[r]
          BY <2>2, <4>2
        <5>2. task[r].file # nextFile
          BY <3>4, <5>1 DEF Holds
        <5>3. ASSUME NEW o \in Sessions \ {r}, Holds(o)'
              PROVE  task'[o].file # task[r].file
          <6>1. CASE o = s
            BY <2>2, <5>2, <6>1
          <6>2. CASE o # s
            BY <1>1, <2>2, <3>1, <4>2, <5>1, <5>3, <6>2 DEF Unshared, Holds, Keeps
          <6>3. QED
            BY <6>1, <6>2
        <5>4. QED
          BY <1>1, <3>1, <5>1, <5>3 DEF Unshared, Keeps
      <4>3. QED
        BY <4>1, <4>2
    <3>6. DOMAIN files' \subseteq 1..(nextFile' - 1)
      BY <1>0, <1>1, <2>5, <3>1 DEF TypeOK
    <3>7. QED
      BY <3>2, <3>3, <3>5, <3>6 DEF FilesOK
  <2>8. Agreement'
    <3> SUFFICES ASSUME NEW q \in Players, q \notin doubtful'
                 PROVE  Agreed(q)'
      BY DEF Agreement
    <3>1. Agreed(q)
      BY <1>0, <1>5 DEF Agreement
    <3>2. CASE q # p
      BY <1>1, <2>2, <2>3, <2>4, <3>1, <3>2, OthersStay
    <3>3. CASE q = p
      <4>1. Writers(q) = {} /\ Writers(q)' = {s}
        BY <1>5, <2>4, <3>3
      <4>2. q \in DOMAIN rows /\ CachedEntry(q) = rows[q] /\ rows[q].score = score
        BY <1>1, <3>1, <3>3, <4>1 DEF Agreed
      <4>3. Unfinished(s, q)'
        BY <1>1, <2>2, <4>2 DEF Unfinished, Cached, CachedEntry
      <4>4. QED
        BY <4>1, <4>3 DEF Agreed
    <3>4. QED
      BY <3>2, <3>3
  <2>9. TopOK'
    <3> SUFFICES ASSUME ~lacking', NEW q \in DOMAIN rows \ doubtful', ~Cached(q)',
                        \A r \in Writers(q)' : task'[r].at # "insert"
                 PROVE  Len(sorted) = config.limit /\ Below(config, rows[q], sorted)
      BY <1>1 DEF TopOK
    <3>1. \A r \in Writers(q) : task'[r] = task[r] /\ r \in Writers(q)'
      BY <2>2, <2>3, <2>4 DEF Writers
    <3>2. ~lacking /\ q \notin doubtful /\ ~Cached(q)
      BY <1>1, <1>5 DEF Cached
    <3>3. \A r \in Writers(q) : task[r].at # "insert"
      BY <3>1
    <3>4. QED
      BY <1>0, <3>2, <3>3 DEF TopOK
  <2>10. QED
    BY <1>3, <2>6, <2>7, <2>8, <2>9 DEF IInv
<1>6. QED
  BY <1>4, <1>5 DEF CmdRecordScoreData, NewFile

LEMMA AttachKeeps ==
    ASSUME IInv, NEW s \in Sessions, SetGameData(s)
    PROVE  IInv'
<1> DEFINE t == task[s]
<1>0. TypeOK /\ TableOK /\ FilesOK /\ Agreement /\ TopOK
  BY DEF IInv
<1>1. /\ t.at = "attach"
      /\ config' = config /\ rows' = rows /\ nextFile' = nextFile /\ lookup' = lookup
      /\ doubtful' = doubtful /\ lacking' = lacking /\ lost' = lost
  BY DEF SetGameData, durable, history
<1>2. t \in Task /\ t.player \in Players /\ t.score \in Scores /\ t.file \in FileIds
  <2>1. t \in Task
    BY <1>0 DEF TypeOK
  <2> HIDE DEF t
  <2>2. QED
    BY <1>1, <2>1, TaskFields
<1>3. /\ DataIsOwn /\ Uploads /\ Unshared /\ DOMAIN files \subseteq 1..(nextFile - 1)
      /\ t.file \in DOMAIN files /\ files[t.file] = [player |-> t.player, score |-> t.score]
      /\ \A p \in DOMAIN rows : Keeps(p, rows[p].data) => rows[p].data # t.file
      /\ \A i \in DOMAIN sorted :
            Keeps(sorted[i].player, sorted[i].data) => sorted[i].data # t.file
      /\ \A r \in Sessions \ {s} : Holds(r) => task[r].file # t.file
  BY <1>0, <1>1 DEF FilesOK, Uploads, Unshared
<1>4. \A q : Cached(q)' <=> Cached(q)
  BY <1>1 DEF Cached
<1>5. CASE /\ ~Cached(t.player)
           /\ files' = [id \in DOMAIN files \ {t.file} |-> files[id]]
           /\ Goes(s, Idle)
           /\ sorted' = sorted
  <2>1. /\ \A r \in Sessions \ {s} : task'[r] = task[r]
        /\ task'[s] = Idle
        /\ \A q : Writers(q)' = Writers(q) \ {s}
    BY <1>0, <1>5, WritersAfter DEF Writing, Idle
  <2>2. TypeOK'
    <3>1. task' \in [Sessions -> Task]
      BY <1>0, <1>5 DEF TypeOK, Goes, Task
    <3>2. QED
      BY <1>0, <1>1, <1>5, <3>1 DEF TypeOK
  <2>3. TableOK'
    BY <1>0, <1>1, <1>5 DEF TableOK
  <2>4. FilesOK'
    <3>1. \A r \in Sessions : task'[r].at # "idle" => r # s /\ task'[r] = task[r]
      BY <2>1 DEF Idle
    <3>2. \A id \in DOMAIN files : id # t.file => id \in DOMAIN files' /\ files'[id] = files[id]
      BY <1>5
    <3>3. DataIsOwn'
      <4>1. \A q \in DOMAIN rows' : Keeps(q, rows'[q].data) =>
              /\ rows'[q].data \in DOMAIN files'
              /\ files'[rows'[q].data] = [player |-> q, score |-> rows'[q].score]
        BY <1>1, <1>3, <3>2 DEF DataIsOwn, Keeps
      <4>2. \A i \in DOMAIN sorted' : Keeps(sorted'[i].player, sorted'[i].data) =>
              /\ sorted'[i].data \in DOMAIN files'
              /\ files'[sorted'[i].data].player = sorted'[i].player
        BY <1>3, <1>5, <3>2 DEF DataIsOwn, Keeps
      <4>3. \A r \in Sessions : task'[r].at = "read" /\ Keeps(task'[r].player, task'[r].file) =>
              /\ task'[r].file \in DOMAIN files'
              /\ files'[task'[r].file].player = task'[r].player
        BY <1>1, <1>3, <3>1, <3>2 DEF DataIsOwn, Holds, Keeps
      <4>4. QED
        BY <1>1, <4>1, <4>2, <4>3 DEF DataIsOwn, Keeps
    <3>4. Uploads'
      BY <1>3, <3>1, <3>2 DEF Uploads, Holds
    <3>5. Unshared'
      BY <1>1, <1>3, <1>5, <3>1 DEF Unshared, Holds, Keeps
    <3>6. QED
      BY <1>1, <1>3, <1>5, <3>3, <3>4, <3>5 DEF FilesOK
  <2>5. Agreement'
    <3> SUFFICES ASSUME NEW q \in Players, q \notin doubtful
                 PROVE  Agreed(q)'
      BY <1>1 DEF Agreement
    <3>1. Agreed(q)
      BY <1>0 DEF Agreement
    <3>2. CASE q # t.player
      <4>1. s \notin Writers(q) /\ Writers(q)' = Writers(q)
        BY <2>1, <3>2 DEF Writers
      <4>2. QED
        BY <1>1, <1>5, <2>1, <3>1, <4>1, OthersStay
    <3>3. CASE q = t.player
      <4>1. Writers(q)' = {}
        BY <1>1, <2>1, <3>1, <3>3 DEF Agreed, Writers
      <4>2. ~Cached(q)'
        BY <1>4, <1>5, <3>3
      <4>3. QED
        BY <4>1, <4>2 DEF Agreed
    <3>4. QED
      BY <3>2, <3>3
  <2>6. TopOK'
    <3> SUFFICES ASSUME ~lacking, NEW q \in DOMAIN rows \ doubtful, ~Cached(q),
                        \A r \in Writers(q)' : task'[r].at # "insert"
                 PROVE  Len(sorted) = config.limit /\ Below(config, rows[q], sorted)
      BY <1>1, <1>4, <1>5 DEF TopOK
    <3>1. \A r \in Writers(q) : task[r].at # "insert"
      BY <1>1, <2>1 DEF Writers
    <3>2. QED
      BY <1>0, <3>1 DEF TopOK
  <2>7. QED
    BY <2>2, <2>3, <2>4, <2>5, <2>6 DEF IInv
<1>6. CASE /\ Cached(t.player)
           /\ sorted' = [sorted EXCEPT ![lookup[t.player]].data = t.file]
           /\ Goes(s, [t EXCEPT !.at = "store"])
           /\ files' = files
  <2> DEFINE next == [t EXCEPT !.at = "store"]
             k == lookup[t.player]
  <2>1. next \in Task /\ next.at = "store" /\ next.player = t.player /\ next.score = t.score
        /\ next.file = t.file
    <3>1. t \in [at : {"attach", "store"}, player : Players, score : Scores, file : FileIds]
      BY <1>1, <1>2 DEF Task, Idle
    <3> HIDE DEF t
    <3>2. QED
      BY <3>1 DEF Task
  <2>2. /\ \A r \in Sessions \ {s} : task'[r] = task[r]
        /\ task'[s] = next
        /\ \A q : Writers(q)' = Writers(q)
    <3> HIDE DEF next
    <3>1. /\ \A r \in Sessions \ {s} : task'[r] = task[r]
          /\ task'[s] = next
      BY <1>0, <1>6, WritersAfter DEF next
    <3>2. \A q : Writers(q)' = Writers(q)
      BY <1>1, <2>1, <3>1 DEF Writers
    <3>3. QED
      BY <3>1, <3>2
  <2>3. /\ sorted \in Seq(Entry) /\ k \in DOMAIN sorted /\ sorted[k].player = t.player
        /\ Len(sorted) \in Nat /\ DOMAIN sorted = 1..Len(sorted)
    BY <1>0, <1>6, Lookups DEF CachedEntry
  <2>4. [sorted[k] EXCEPT !.data = t.file] \in Entry
    <3>1. sorted[k] \in Entry
      BY <2>3
    <3> HIDE DEF k, t
    <3>2. QED
      BY <1>2, <3>1 DEF Entry
  <2>5. /\ sorted' = [sorted EXCEPT ![k] = [sorted[k] EXCEPT !.data = t.file]]
    BY <1>6
  <2>6. /\ sorted' \in Seq(Entry) /\ Len(sorted') = Len(sorted) /\ DOMAIN sorted' = DOMAIN sorted
        /\ sorted'[k] = [sorted[k] EXCEPT !.data = t.file]
        /\ \A i \in DOMAIN sorted : i # k => sorted'[i] = sorted[i]
    <3> HIDE DEF k, t
    <3>1. QED
      BY <2>3, <2>4, <2>5
  <2>7. \A i \in DOMAIN sorted :
            /\ sorted'[i].player = sorted[i].player
            /\ sorted'[i].score = sorted[i].score
            /\ sorted'[i].stamp = sorted[i].stamp
    <3>1. sorted[k] \in Entry
      BY <2>3
    <3> HIDE DEF k, t
    <3>2. QED
      BY <2>6, <3>1 DEF Entry
  <2>8. TableOK'
    <3>1. InOrder(config, sorted) /\ Exact(sorted, lookup) /\ Len(sorted) <= config.limit
      BY <1>0 DEF TableOK, Sound
    <3>2. InOrder(config, sorted')
      <4>1. \A i, j \in DOMAIN sorted :
                RanksBefore(config, sorted'[j], sorted'[i]) <=> RanksBefore(config, sorted[j], sorted[i])
        BY <2>7 DEF RanksBefore
      <4>2. QED
        BY <2>6, <3>1, <4>1 DEF InOrder
    <3>3. Exact(sorted', lookup)
      <4>1. \A i \in DOMAIN sorted : sorted'[i].player = sorted[i].player
        BY <2>7
      <4>2. DOMAIN sorted' = DOMAIN sorted
        BY <2>6
      <4>3. PlayersIn(sorted') = PlayersIn(sorted)
        BY <4>1, <4>2 DEF PlayersIn
      <4>4. QED
        BY <3>1, <4>1, <4>2, <4>3 DEF Exact
    <3>4. QED
      BY <1>1, <2>6, <3>1, <3>2, <3>3 DEF TableOK, Sound
  <2>9. TypeOK'
    <3>1. task' \in [Sessions -> Task]
      BY <1>0, <1>6, <2>1 DEF TypeOK, Goes
    <3>2. QED
      BY <1>0, <1>1, <1>6, <2>6, <3>1 DEF TypeOK
  <2>10. FilesOK'
    <3>1. DataIsOwn'
      <4>1. \A i \in DOMAIN sorted' : Keeps(sorted'[i].player, sorted'[i].data) =>
              /\ sorted'[i].data \in DOMAIN files'
              /\ files'[sorted'[i].data].player = sorted'[i].player
        <5> SUFFICES ASSUME NEW i \in DOMAIN sorted, Keeps(sorted'[i].player, sorted'[i].data)
                     PROVE  /\ sorted'[i].data \in DOMAIN files
                            /\ files[sorted'[i].data].player = sorted'[i].player
          BY <1>6, <2>6
        <5>1. CASE i = k
          <6>1. sorted'[i].data = t.file
            <7>1. sorted[k] \in Entry
              BY <2>3
            <7> HIDE DEF k, t
            <7>2. QED
              BY <2>6, <5>1, <7>1 DEF Entry
          <6>2. QED
            BY <1>3, <2>3, <2>7, <5>1, <6>1
        <5>2. CASE i # k
          BY <1>3, <2>6, <5>2 DEF DataIsOwn, Keeps
        <5>3. QED
          BY <5>1, <5>2
      <4>2. \A r \in Sessions : task'[r].at = "read" => task'[r] = task[r]
        BY <2>1, <2>2
      <4>3. \A r \in Sessions : task'[r].at = "read" /\ Keeps(task'[r].player, task'[r].file) =>
              /\ task'[r].file \in DOMAIN files'
              /\ files'[task'[r].file].player = task'[r].player
        BY <1>3, <1>6, <4>2 DEF DataIsOwn, Keeps
      <4>4. \A p \in DOMAIN rows' : Keeps(p, rows'[p].data) =>
              /\ rows'[p].data \in DOMAIN files'
              /\ files'[rows'[p].data] = [player |-> p, score |-> rows'[p].score]
        BY <1>1, <1>3, <1>6 DEF DataIsOwn, Keeps
      <4>5. lost' = lost
        BY <1>1
      <4>6. QED
        BY <4>1, <4>3, <4>4, <4>5 DEF DataIsOwn, Keeps
    <3>2. Uploads'
      <4> SUFFICES ASSUME NEW r \in Sessions, task'[r].at \in {"attach", "store"}
                   PROVE  /\ task'[r].file \in DOMAIN files
                          /\ files[task'[r].file] =
                                [player |-> task'[r].player, score |-> task'[r].score]
        BY <1>6 DEF Uploads
      <4>1. CASE r = s
        BY <1>3, <2>1, <2>2, <4>1
      <4>2. CASE r # s
        BY <1>3, <2>2, <4>2 DEF Uploads
      <4>3. QED
        BY <4>1, <4>2
    <3>3. Unshared'
      <4> SUFFICES ASSUME NEW r \in Sessions, task'[r].at = "attach"
                   PROVE  /\ \A q \in DOMAIN rows' :
                              Keeps(q, rows'[q].data) => rows'[q].data # task'[r].file
                          /\ \A i \in DOMAIN sorted' :
                              Keeps(sorted'[i].player, sorted'[i].data) => sorted'[i].data # task'[r].file
                          /\ \A o \in Sessions \ {r} : Holds(o)' => task'[o].file # task'[r].file
        BY <1>1 DEF Unshared, Keeps
      <4>1. r # s /\ task'[r] = task[r] /\ task[r].file # t.file
        BY <1>3, <2>1, <2>2 DEF Holds
      <4>2. \A i \in DOMAIN sorted : sorted'[i].data = t.file \/ sorted'[i] = sorted[i]
        <5>1. sorted[k] \in Entry
          BY <2>3
        <5> HIDE DEF k, t
        <5>2. QED
          BY <2>6, <5>1 DEF Entry
      <4>3. \A i \in DOMAIN sorted' :
              Keeps(sorted'[i].player, sorted'[i].data) => sorted'[i].data # task[r].file
        BY <1>3, <2>6, <4>1, <4>2 DEF Unshared, Holds, Keeps
      <4>4. ASSUME NEW o \in Sessions \ {r}, Holds(o)'
            PROVE  task'[o].file # task[r].file
        <5>1. CASE o = s
          BY <2>1, <2>2, <4>1, <5>1
        <5>2. CASE o # s
          BY <1>1, <1>3, <2>2, <4>1, <4>4, <5>2 DEF Unshared, Holds, Keeps
        <5>3. QED
          BY <5>1, <5>2
      <4>5. \A q \in DOMAIN rows : Keeps(q, rows[q].data) => rows[q].data # task[r].file
        BY <1>3, <4>1 DEF Unshared, Holds, Keeps
      <4>6. QED
        BY <1>1, <4>1, <4>3, <4>4, <4>5
    <3>4. QED
      BY <1>1, <1>3, <1>6, <3>1, <3>2, <3>3 DEF FilesOK
  <2>11. Agreement'
    <3> SUFFICES ASSUME NEW q \in Players, q \notin doubtful
                 PROVE  Agreed(q)'
      BY <1>1 DEF Agreement
    <3>1. Agreed(q)
      BY <1>0 DEF Agreement
    <3>2. CASE q # t.player
      <4>1. \A r \in Writers(q) : task'[r] = task[r]
        BY <2>2, <3>2 DEF Writers
      <4>2. Cached(q)' => Cached(q) /\ CachedEntry(q)' = CachedEntry(q)
        <5> SUFFICES ASSUME Cached(q)
                     PROVE  CachedEntry(q)' = CachedEntry(q)
          BY <1>4
        <5>1. lookup[q] \in DOMAIN sorted /\ sorted[lookup[q]].player = q
          BY <1>0, Lookups DEF CachedEntry
        <5>2. lookup[q] # k
          BY <2>3, <3>2, <5>1
        <5> HIDE DEF k
        <5>3. QED
          BY <1>1, <2>6, <5>1, <5>2 DEF CachedEntry
      <4>3. QED
        BY <1>1, <2>2, <3>1, <4>1, <4>2, AgreedStays
    <3>3. CASE q = t.player
      <4>1. Writers(q)' = {s} /\ Unfinished(s, q)
        <5>1. s \in Writers(q)
          BY <1>1, <3>3 DEF Writers
        <5>2. QED
          BY <2>2, <3>1, <5>1 DEF Agreed
      <4>2. q \in DOMAIN rows /\ CachedEntry(q) = rows[q] /\ rows[q].score = t.score
        BY <1>1, <1>6, <3>3, <4>1 DEF Unfinished
      <4>3. CachedEntry(q)' = [rows[q] EXCEPT !.data = t.file]
        BY <1>1, <2>6, <3>3, <4>2 DEF CachedEntry
      <4>4. Unfinished(s, q)'
        <5> HIDE DEF next, t
        <5>1. QED
          BY <1>1, <2>1, <2>2, <4>2, <4>3 DEF Unfinished
      <4>5. QED
        BY <4>1, <4>4 DEF Agreed
    <3>4. QED
      BY <3>2, <3>3
  <2>12. TopOK'
    <3> SUFFICES ASSUME ~lacking, NEW q \in DOMAIN rows \ doubtful, ~Cached(q),
                        \A r \in Writers(q)' : task'[r].at # "insert"
                 PROVE  Len(sorted') = config.limit /\ Below(config, rows[q], sorted')
      BY <1>1, <1>4 DEF TopOK
    <3>1. \A r \in Writers(q) : task[r].at # "insert"
      BY <1>1, <2>2 DEF Writers
    <3>2. Len(sorted) = config.limit /\ Below(config, rows[q], sorted)
      BY <1>0, <3>1 DEF TopOK
    <3>3. \A i \in DOMAIN sorted :
            RanksBefore(config, rows[q], sorted'[i]) <=> RanksBefore(config, rows[q], sorted[i])
      BY <2>7 DEF RanksBefore
    <3>4. QED
      BY <2>6, <3>2, <3>3 DEF Below
  <2>13. QED
    BY <2>8, <2>9, <2>10, <2>11, <2>12 DEF IInv
<1>7. QED
  BY <1>5, <1>6 DEF SetGameData

LEMMA StoreKeeps ==
    ASSUME IInv, NEW s \in Sessions, SetScoreDataId(s)
    PROVE  IInv'
<1> DEFINE t == task[s]
           \* Whether the query found the row.
           stored == /\ HasScoreOf(t)
                     /\ rows' = [rows EXCEPT ![t.player].data = t.file]
                     /\ doubtful' = doubtful
           failed == doubtful' = doubtful \cup {t.player} /\ rows' = rows
<1>0. TypeOK /\ TableOK /\ FilesOK /\ Agreement /\ TopOK
  BY DEF IInv
<1>1. /\ t.at = "store" /\ Goes(s, Idle)
      /\ config' = config /\ files' = files /\ nextFile' = nextFile
      /\ sorted' = sorted /\ lookup' = lookup /\ lacking' = lacking /\ lost' = lost
      /\ stored \/ failed
  BY DEF SetScoreDataId, cache, history
<1>2. t.player \in Players /\ t.score \in Scores /\ t.file \in FileIds
  <2>1. t \in Task
    BY <1>0 DEF TypeOK
  <2> HIDE DEF t
  <2>2. QED
    BY <1>1, <2>1, TaskFields
<1>3. /\ \A r \in Sessions \ {s} : task'[r] = task[r]
      /\ task'[s] = Idle
      /\ \A q : Writers(q)' = Writers(q) \ {s}
      /\ \A r \in Sessions : task'[r].at # "idle" => r # s /\ task'[r] = task[r]
  BY <1>0, <1>1, WritersAfter DEF Writing, Idle
<1>4. /\ DataIsOwn /\ Uploads /\ Unshared /\ DOMAIN files \subseteq 1..(nextFile - 1)
      /\ t.file \in DOMAIN files /\ files[t.file] = [player |-> t.player, score |-> t.score]
      /\ \A r \in Sessions \ {s} : task[r].at = "attach" => task[r].file # t.file
  BY <1>0, <1>1 DEF FilesOK, Uploads, Unshared, Holds
<1>5. \A q \in DOMAIN rows : rows[q] \in Entry /\ rows[q].player = q /\ q \in Players
  BY <1>0 DEF TypeOK
<1>6. /\ DOMAIN rows' = DOMAIN rows
      /\ \A q \in DOMAIN rows :
            /\ rows'[q] \in Entry
            /\ rows'[q].player = rows[q].player /\ rows'[q].score = rows[q].score
            /\ rows'[q].stamp = rows[q].stamp
            /\ q # t.player => rows'[q] = rows[q]
            /\ \/ rows'[q].data = rows[q].data
               \/ q = t.player /\ rows[q].score = t.score /\ rows'[q].data = t.file
  <2>1. CASE failed
    BY <1>5, <2>1
  <2>2. CASE stored
    <3>1. t.player \in DOMAIN rows /\ rows[t.player].score = t.score
      BY <2>2 DEF HasScoreOf
    <3>2. rows' = [rows EXCEPT ![t.player] = [rows[t.player] EXCEPT !.data = t.file]]
      BY <2>2
    <3>3. rows[t.player] \in Entry
      BY <1>5, <3>1
    <3> HIDE DEF t
    <3>4. QED
      BY <1>2, <1>5, <3>1, <3>2, <3>3 DEF Entry
  <2>3. QED
    BY <1>1, <2>1, <2>2
<1>7. TypeOK'
  <2>1. task' \in [Sessions -> Task]
    BY <1>0, <1>1 DEF TypeOK, Goes, Task
  <2>2. DOMAIN rows' \subseteq Players /\ \A q \in DOMAIN rows' : rows'[q] \in Entry /\ rows'[q].player = q
    BY <1>5, <1>6
  <2>3. doubtful' \subseteq Players
    BY <1>0, <1>1, <1>2 DEF TypeOK
  <2>4. QED
    BY <1>0, <1>1, <2>1, <2>2, <2>3 DEF TypeOK
<1>8. TableOK'
  BY <1>0, <1>1 DEF TableOK
<1>9. FilesOK'
  <2>1. DataIsOwn'
    <3>1. \A q \in DOMAIN rows' : Keeps(q, rows'[q].data) =>
            /\ rows'[q].data \in DOMAIN files'
            /\ files'[rows'[q].data] = [player |-> q, score |-> rows'[q].score]
      BY <1>1, <1>4, <1>6 DEF DataIsOwn, Keeps
    <3>2. \A r \in Sessions : task'[r].at = "read" /\ Keeps(task'[r].player, task'[r].file) =>
            /\ task'[r].file \in DOMAIN files'
            /\ files'[task'[r].file].player = task'[r].player
      BY <1>1, <1>3, <1>4 DEF DataIsOwn, Keeps
    <3>3. QED
      BY <1>1, <1>4, <3>1, <3>2 DEF DataIsOwn, Keeps
  <2>2. Uploads'
    BY <1>1, <1>3, <1>4 DEF Uploads
  <2>3. Unshared'
    BY <1>1, <1>3, <1>4, <1>6 DEF Unshared, Holds, Keeps
  <2>4. QED
    BY <1>1, <1>4, <2>1, <2>2, <2>3 DEF FilesOK
<1>10. Agreement'
  <2> SUFFICES ASSUME NEW q \in Players, q \notin doubtful'
               PROVE  Agreed(q)'
    BY DEF Agreement
  <2>1. Agreed(q)
    BY <1>0, <1>1 DEF Agreement
  <2>2. CASE q # t.player
    <3>1. s \notin Writers(q) /\ Writers(q)' = Writers(q)
      BY <1>3, <2>2 DEF Writers
    <3>2. \A r \in Writers(q) : task'[r] = task[r]
      BY <1>3, <3>1 DEF Writers
    <3>3. Cached(q)' => Cached(q) /\ CachedEntry(q)' = CachedEntry(q)
      BY <1>1 DEF Cached, CachedEntry
    <3>4. QED
      BY <1>6, <2>1, <2>2, <3>1, <3>2, <3>3, AgreedStays
  <2>3. CASE q = t.player
    <3>1. s \in Writers(q)
      BY <1>1, <2>3 DEF Writers
    <3>2. Writers(q)' = {} /\ Unfinished(s, q)
      BY <1>3, <2>1, <3>1 DEF Agreed
    <3>3. rows' = [rows EXCEPT ![q].data = t.file]
      BY <1>1, <2>3
    <3>4. Cached(q)' => /\ q \in DOMAIN rows
                        /\ CachedEntry(q)' = [rows[q] EXCEPT !.data = t.file]
      BY <1>1, <3>2 DEF Unfinished, Cached, CachedEntry
    <3>5. Cached(q)' => q \in DOMAIN rows' /\ CachedEntry(q)' = rows'[q]
      BY <3>3, <3>4
    <3>6. QED
      BY <3>2, <3>5 DEF Agreed
  <2>4. QED
    BY <2>2, <2>3
<1>11. TopOK'
  <2> SUFFICES ASSUME ~lacking, NEW q \in DOMAIN rows \ doubtful', ~Cached(q),
                      \A r \in Writers(q)' : task'[r].at # "insert"
               PROVE  Len(sorted) = config.limit /\ Below(config, rows'[q], sorted)
    BY <1>1, <1>6 DEF TopOK, Cached
  <2>1. \A r \in Writers(q) : task[r].at # "insert"
    BY <1>1, <1>3 DEF Writers
  <2>2. q \in DOMAIN rows \ doubtful
    BY <1>1
  <2>3. Len(sorted) = config.limit /\ Below(config, rows[q], sorted)
    BY <1>0, <2>1, <2>2 DEF TopOK
  <2>4. QED
    BY <1>6, <2>2, <2>3, SameRank DEF Below
<1>12. QED
  BY <1>7, <1>8, <1>9, <1>10, <1>11 DEF IInv

LEMMA ReadersKeep ==
    ASSUME IInv, NEW s \in Sessions, NEW next \in Task, Goes(s, next),
           task[s].at \in {"idle", "read"}, next.at \in {"idle", "read"},
           next.at = "read" => \E i \in DOMAIN sorted :
                /\ sorted[i].data # NoData
                /\ next.file = sorted[i].data /\ next.player = sorted[i].player,
           UNCHANGED <<durable, files, nextFile, cache, doubtful, history>>
    PROVE  IInv'
<1>0. TypeOK /\ TableOK /\ FilesOK /\ Agreement /\ TopOK
  BY DEF IInv
<1>1. /\ config' = config /\ rows' = rows /\ files' = files /\ nextFile' = nextFile
      /\ sorted' = sorted /\ lookup' = lookup /\ doubtful' = doubtful
      /\ lacking' = lacking /\ lost' = lost
  BY DEF durable, cache, history
<1>2. /\ \A r \in Sessions \ {s} : task'[r] = task[r]
      /\ task'[s] = next
      /\ \A q : Writers(q)' = Writers(q) /\ s \notin Writers(q)
  BY <1>0, WritersAfter DEF Writing, Writers
<1>3. TypeOK'
  <2>1. task' \in [Sessions -> Task]
    BY <1>0 DEF TypeOK, Goes
  <2>2. QED
    BY <1>0, <1>1, <2>1 DEF TypeOK
<1>4. TableOK'
  BY <1>0, <1>1 DEF TableOK
<1>5. FilesOK'
  <2>1. DataIsOwn /\ Uploads /\ Unshared /\ DOMAIN files \subseteq 1..(nextFile - 1)
    BY <1>0 DEF FilesOK
  <2>2. \A r \in Sessions : task'[r].at = "read" /\ Keeps(task'[r].player, task'[r].file) =>
            /\ task'[r].file \in DOMAIN files
            /\ files[task'[r].file].player = task'[r].player
    <3> SUFFICES ASSUME NEW r \in Sessions, task'[r].at = "read", Keeps(task'[r].player, task'[r].file)
                 PROVE  /\ task'[r].file \in DOMAIN files
                        /\ files[task'[r].file].player = task'[r].player
      OBVIOUS
    <3>1. CASE r = s
      BY <1>1, <1>2, <2>1, <3>1 DEF DataIsOwn, Keeps
    <3>2. CASE r # s
      BY <1>1, <1>2, <2>1, <3>2 DEF DataIsOwn, Keeps
    <3>3. QED
      BY <3>1, <3>2
  <2>3. DataIsOwn'
    BY <1>1, <2>1, <2>2 DEF DataIsOwn, Keeps
  <2>4. Uploads'
    BY <1>1, <1>2, <2>1 DEF Uploads
  <2>5. Unshared'
    <3> SUFFICES ASSUME NEW r \in Sessions, task'[r].at = "attach"
                 PROVE  /\ \A q \in DOMAIN rows' :
                            Keeps(q, rows'[q].data) => rows'[q].data # task'[r].file
                        /\ \A i \in DOMAIN sorted' :
                            Keeps(sorted'[i].player, sorted'[i].data) => sorted'[i].data # task'[r].file
                        /\ \A o \in Sessions \ {r} : Holds(o)' => task'[o].file # task'[r].file
      BY <1>1 DEF Unshared, Keeps
    <3>1. r # s /\ task'[r] = task[r]
      BY <1>2
    <3>2. /\ \A q \in DOMAIN rows : Keeps(q, rows[q].data) => rows[q].data # task[r].file
          /\ \A i \in DOMAIN sorted :
                Keeps(sorted[i].player, sorted[i].data) => sorted[i].data # task[r].file
      BY <2>1, <3>1 DEF Unshared, Holds, Keeps
    <3>3. ASSUME NEW o \in Sessions \ {r}, Holds(o)'
          PROVE  task'[o].file # task[r].file
      <4>1. CASE o = s
        BY <1>1, <1>2, <3>2, <3>3, <4>1 DEF Holds, Keeps
      <4>2. CASE o # s
        BY <1>1, <1>2, <2>1, <3>1, <3>3, <4>2 DEF Unshared, Holds, Keeps
      <4>3. QED
        BY <4>1, <4>2
    <3>4. QED
      BY <1>1, <3>1, <3>2, <3>3
  <2>6. QED
    BY <1>1, <2>1, <2>3, <2>4, <2>5 DEF FilesOK
<1>6. Agreement'
  <2> SUFFICES ASSUME NEW q \in Players, q \notin doubtful
               PROVE  Agreed(q)'
    BY <1>1 DEF Agreement
  <2>1. Agreed(q)
    BY <1>0 DEF Agreement
  <2>2. QED
    BY <1>1, <1>2, <2>1, OthersStay
<1>7. TopOK'
  <2> SUFFICES ASSUME ~lacking, NEW q \in DOMAIN rows \ doubtful, ~Cached(q),
                      \A r \in Writers(q)' : task'[r].at # "insert"
               PROVE  Len(sorted) = config.limit /\ Below(config, rows[q], sorted)
    BY <1>1 DEF TopOK, Cached
  <2>1. \A r \in Writers(q) : task[r].at # "insert"
    BY <1>2 DEF Writers
  <2>2. QED
    BY <1>0, <2>1 DEF TopOK
<1>8. QED
  BY <1>3, <1>4, <1>5, <1>6, <1>7 DEF IInv

LEMMA LookKeeps ==
    ASSUME IInv, NEW s \in Sessions, NEW p \in Players, GetGameDataId(s, p)
    PROVE  IInv'
<1> DEFINE e == CachedEntry(p)
           next == [at |-> "read", player |-> p, file |-> e.data]
<1>1. /\ task[s] = Idle /\ Cached(p) /\ e.data # NoData /\ Goes(s, next)
      /\ UNCHANGED <<durable, files, nextFile, cache, doubtful, history>>
  BY DEF GetGameDataId, Free
<1>2. /\ lookup[p] \in DOMAIN sorted /\ e = sorted[lookup[p]]
      /\ e \in Entry /\ e.player = p
  BY <1>1, Lookups DEF IInv, CachedEntry
<1>3. e.data \in FileIds
  BY <1>1, <1>2 DEF Entry
<1>4. next \in Task
  BY <1>3 DEF Task
<1>5. task[s].at \in {"idle", "read"}
  BY <1>1 DEF Idle
<1>6. \E i \in DOMAIN sorted :
        /\ sorted[i].data # NoData
        /\ next.file = sorted[i].data /\ next.player = sorted[i].player
  BY <1>1, <1>2
<1>7. next.at \in {"idle", "read"}
  OBVIOUS
<1> HIDE DEF next
<1>8. QED
  BY <1>1, <1>4, <1>5, <1>6, <1>7, ReadersKeep

LEMMA ReadKeeps ==
    ASSUME IInv, NEW s \in Sessions, Read(s)
    PROVE  IInv'
<1>1. /\ task[s].at = "read" /\ Goes(s, Idle)
      /\ UNCHANGED <<durable, files, nextFile, cache, doubtful, history>>
  BY DEF Read
<1>2. Idle \in Task /\ Idle.at = "idle"
  BY DEF Idle, Task
<1>3. QED
  BY <1>1, <1>2, ReadersKeep

LEMMA RestartKeeps ==
    ASSUME IInv, Restart
    PROVE  IInv'
<1> DEFINE all == {rows[p] : p \in DOMAIN rows}
<1>0. TypeOK /\ FilesOK
  BY DEF IInv
<1>1. /\ config' \in Configs /\ lookup' = IndexOf(sorted')
      /\ nextFile' = LargestFile + 1
      /\ task' = [s \in Sessions |-> Idle]
      /\ doubtful' = {} /\ rows' = rows
      /\ \E table \in Tables(config') :
            sorted' \in Prefixes(table) /\ lacking' = (sorted' # table)
      /\ \E ids \in SUBSET DataIds :
            /\ files' = [id \in DOMAIN files \cap ids |-> files[id]]
            /\ lost' = {d \in Players \X DataIds :
                            /\ d[1] \in DOMAIN rows /\ rows[d[1]].data = d[2]
                            /\ d[2] \notin ids \/ d \in lost}
  BY <1>0 DEF Restart, LoadScoreboardsCfg, CleanOrphans, TypeOK
<1>2. /\ lacking' \in BOOLEAN
      /\ Sound(config', sorted', lookup')
      /\ Len(sorted') <= config'.limit
      /\ EntriesOf(sorted') \subseteq all
      /\ ~lacking' => \A e \in all \ EntriesOf(sorted') :
            Len(sorted') = config'.limit /\ Below(config', e, sorted')
  <2>1. PICK table \in Tables(config') :
            sorted' \in Prefixes(table) /\ lacking' = (sorted' # table)
    BY <1>1
  <2>2. QED
    BY <1>0, <1>1, <2>1, Loading, LoadingSome
<1>3. /\ sorted' \in Seq(Entry) /\ DOMAIN lookup' = PlayersIn(sorted')
      /\ \A q \in DOMAIN lookup' : /\ lookup'[q] \in DOMAIN sorted'
                                   /\ sorted'[lookup'[q]].player = q
  BY <1>2, Exactness DEF Sound, Exact
<1>4. \A i \in DOMAIN sorted' : \E p \in DOMAIN rows : sorted'[i] = rows[p]
  BY <1>2 DEF EntriesOf
<1>5. \A p \in DOMAIN rows : rows[p] \in Entry /\ rows[p].player = p
  BY <1>0 DEF TypeOK
<1>6. LargestFile \in DOMAIN files \cup {0} /\ \A m \in DOMAIN files : m <= LargestFile
  <2>1. DOMAIN files \in SUBSET Nat /\ \A m \in DOMAIN files : m <= MaxFiles
    BY <1>0, FilesAssumption DEF TypeOK, FileIds
  <2>2. MaxFiles \in Nat
    BY FilesAssumption
  <2>3. \E n \in DOMAIN files \cup {0} : \A m \in DOMAIN files : m <= n
    BY <2>1, <2>2, GreatestElement
  <2>4. QED
    BY <2>3 DEF LargestFile
<1>7. \A s \in Sessions : task'[s].at = "idle"
  BY <1>1 DEF Idle
<1>8. TypeOK'
  <2>1. task' \in [Sessions -> Task]
    BY <1>1 DEF Task
  <2>2. nextFile' \in 1..(MaxFiles + 1)
    BY <1>0, <1>1, <1>6, FilesAssumption DEF TypeOK, FileIds
  <2>3. DOMAIN lookup' \subseteq Players
    BY <1>3, EntryFields DEF PlayersIn
  <2>4. DOMAIN files' \subseteq FileIds /\ \A id \in DOMAIN files' : files'[id] \in Upload
    BY <1>0, <1>1 DEF TypeOK
  <2>5. lost' \subseteq Players \X FileIds
    <3>1. DataIds \subseteq FileIds
      BY <1>0 DEF TypeOK, DataIds, Entry
    <3>2. QED
      BY <1>1, <3>1
  <2>6. QED
    BY <1>0, <1>1, <1>2, <1>3, <2>1, <2>2, <2>3, <2>4, <2>5 DEF TypeOK
<1>9. TableOK'
  BY <1>2 DEF TableOK
<1>10. FilesOK'
  <2>1. DataIsOwn /\ DOMAIN files \subseteq 1..(nextFile - 1)
    BY <1>0 DEF FilesOK
  <2>2. \A p \in DOMAIN rows : Keeps(p, rows[p].data)' =>
            /\ rows[p].data \in DOMAIN files'
            /\ files'[rows[p].data] = [player |-> p, score |-> rows[p].score]
    <3> SUFFICES ASSUME NEW p \in DOMAIN rows, Keeps(p, rows[p].data)'
                 PROVE  /\ rows[p].data \in DOMAIN files'
                        /\ files'[rows[p].data] = [player |-> p, score |-> rows[p].score]
      OBVIOUS
    <3> DEFINE id == rows[p].data
               d == <<p, id>>
    <3>1. PICK ids \in SUBSET DataIds :
            /\ files' = [n \in DOMAIN files \cap ids |-> files[n]]
            /\ lost' = {c \in Players \X DataIds :
                            /\ c[1] \in DOMAIN rows /\ rows[c[1]].data = c[2]
                            /\ c[2] \notin ids \/ c \in lost}
      BY <1>1
    <3>2. id # NoData /\ d \notin lost'
      BY <1>1 DEF Keeps
    <3>3. d \in Players \X DataIds /\ d[1] = p /\ d[2] = id
      BY <1>0, <3>2 DEF DataIds, TypeOK
    <3> HIDE DEF d
    <3>4. id \in ids /\ d \notin lost
      BY <3>1, <3>2, <3>3
    <3>5. Keeps(p, id)
      BY <3>2, <3>4 DEF Keeps, d
    <3>6. id \in DOMAIN files /\ files[id] = [player |-> p, score |-> rows[p].score]
      BY <2>1, <3>5 DEF DataIsOwn
    <3>7. QED
      BY <3>1, <3>4, <3>6
  <2>3. \A i \in DOMAIN sorted' : Keeps(sorted[i].player, sorted[i].data)' =>
            /\ sorted'[i].data \in DOMAIN files'
            /\ files'[sorted'[i].data].player = sorted'[i].player
    <3> TAKE i \in DOMAIN sorted'
    <3>1. PICK p \in DOMAIN rows : sorted'[i] = rows[p]
      BY <1>4
    <3>2. sorted'[i].player = p
      BY <1>5, <3>1
    <3>3. [player |-> p, score |-> rows[p].score].player = p
      OBVIOUS
    <3>4. Keeps(p, rows[p].data)' =>
            rows[p].data \in DOMAIN files' /\ files'[rows[p].data].player = p
      BY <2>2, <3>3
    <3>5. QED
      BY <1>1, <3>1, <3>2, <3>4 DEF Keeps
  <2>4. DataIsOwn'
    BY <1>1, <1>7, <2>2, <2>3 DEF DataIsOwn
  <2>5. DOMAIN files' \subseteq 1..(nextFile' - 1)
    BY <1>0, <1>1, <1>6 DEF TypeOK, FileIds
  <2>6. QED
    BY <1>7, <2>4, <2>5 DEF FilesOK, Uploads, Unshared
<1>11. \A q : Writers(q)' = {}
  BY <1>7 DEF Writers
<1>12. Agreement'
  <2> SUFFICES ASSUME NEW q \in Players, Cached(q)'
               PROVE  q \in DOMAIN rows /\ CachedEntry(q)' = rows[q]
    BY <1>1, <1>11 DEF Agreement, Agreed
  <2>1. lookup'[q] \in DOMAIN sorted' /\ CachedEntry(q)' = sorted'[lookup'[q]] /\ CachedEntry(q)'.player = q
    BY <1>3 DEF Cached, CachedEntry
  <2>2. QED
    BY <1>4, <1>5, <2>1
<1>13. TopOK'
  <2> SUFFICES ASSUME ~lacking', NEW q \in DOMAIN rows, ~Cached(q)'
               PROVE  Len(sorted') = config'.limit /\ Below(config', rows[q], sorted')
    BY <1>1 DEF TopOK
  <2>1. rows[q] \notin EntriesOf(sorted')
    <3>1. \A i \in DOMAIN sorted' : sorted'[i].player \in DOMAIN lookup'
      BY <1>3 DEF PlayersIn
    <3>2. QED
      BY <1>5, <3>1 DEF EntriesOf, Cached
  <2>2. QED
    BY <1>2, <2>1
<1>14. QED
  BY <1>8, <1>9, <1>10, <1>12, <1>13 DEF IInv

(***************************************************************************)
(* The theorems.                                                           *)
(***************************************************************************)

\* Every step of the score commands and of the start keeps the invariant.
THEOREM Invariance == Spec => []IInv
<1>1. Init => IInv
  BY Initially
<1>2. IInv /\ [Next]_vars => IInv'
  <2> SUFFICES ASSUME IInv, [Next]_vars
               PROVE  IInv'
    OBVIOUS
  <2>1. CASE Restart
    BY <2>1, RestartKeeps
  <2>2. CASE UNCHANGED vars
    <3>1. /\ TypeOK' = TypeOK /\ TableOK' = TableOK
      BY <2>2 DEF vars, TypeOK, TableOK
    <3>2. FilesOK' = FilesOK
      BY <2>2 DEF vars, FilesOK, DataIsOwn, Uploads, Unshared, Holds, Keeps
    <3>3. Agreement' = Agreement
      BY <2>2 DEF vars, Agreement, Agreed, Writers, Unfinished, Cached, CachedEntry
    <3>4. TopOK' = TopOK
      BY <2>2 DEF vars, TopOK, Writers, Cached
    <3>5. QED
      BY <3>1, <3>2, <3>3, <3>4 DEF IInv
  <2>3. ASSUME NEW s \in Sessions, Step(s)
        PROVE  IInv'
    <3>1. ASSUME NEW p \in Players, NEW score \in Scores, NEW stamp \in Stamps,
                 CmdRecordScore(s, p, score, stamp)
          PROVE  IInv'
      BY <3>1, RecordKeeps
    <3>2. ASSUME NEW p \in Players, NEW score \in Scores, CmdRecordScoreData(s, p, score)
          PROVE  IInv'
      BY <3>2, UploadKeeps
    <3>3. ASSUME NEW p \in Players, GetGameDataId(s, p)
          PROVE  IInv'
      BY <3>3, LookKeeps
    <3>4. CASE InsertScore(s)
      BY <3>4, InsertKeeps
    <3>5. CASE SetGameData(s)
      BY <3>5, AttachKeeps
    <3>6. CASE SetScoreDataId(s)
      BY <3>6, StoreKeeps
    <3>7. CASE Read(s)
      BY <3>7, ReadKeeps
    <3>8. QED
      BY <2>3, <3>1, <3>2, <3>3, <3>4, <3>5, <3>6, <3>7 DEF Step
  <2>4. QED
    BY <2>1, <2>2, <2>3 DEF Next
<1>3. QED
  BY <1>1, <1>2, PTL DEF Spec

\* Rows, files, table and handlers are of their types.
THEOREM TypeCorrect == Spec => []TypeOK
<1>1. IInv => TypeOK
  BY DEF IInv
<1>2. QED
  BY <1>1, Invariance, PTL

\* The table is ranked and within its limit, and its index exact; a rank that an
\* int holds is found by its number.
THEOREM RankingAlwaysSound == Spec => []RankingSound
<1>1. IInv => RankingSound
  <2> SUFFICES ASSUME IInv
               PROVE  RankingSound
    OBVIOUS
  <2>1. Sound(config, sorted, lookup) /\ Len(sorted) <= config.limit
    BY DEF IInv, TableOK
  <2>2. /\ sorted \in Seq(Entry) /\ Len(sorted) \in Nat /\ DOMAIN sorted = 1..Len(sorted)
        /\ InOrder(config, sorted) /\ Exact(sorted, lookup)
    BY <2>1 DEF Sound
  <2>3. ASSUME NEW p \in DOMAIN lookup, lookup[p] <= IntMax
        PROVE  GetScoreByIds(<<p>>) = GetScoreRange(lookup[p], 1)
    <3> DEFINE i == lookup[p]
               n == Len(sorted)
               answer == [rank |-> i, entry |-> sorted[i]]
    <3>1. i \in 1..n /\ n \in Nat
      BY <2>2, Exactness
    <3>2. GetScoreByIds(<<p>>) = [k \in 1..1 |-> answer]
      BY DEF GetScoreByIds
    <3> HIDE DEF i, n
    <3>3. GetScoreRange(i, 1) = [k \in 1..1 |-> answer]
      <4>1. i # 0 /\ (i - 1) + 1 <= n /\ AsInt(i) = i /\ AsInt(1) = 1
        BY <2>3, <3>1, IntAssumption DEF AsInt, i
      <4>2. (IF (i - 1) + 1 < n THEN (i - 1) + 1 ELSE n) - (i - 1) = 1
        BY <3>1
      <4>3. GetScoreRange(i, 1) = [k \in 1..1 |-> [rank |-> (i - 1) + k, entry |-> sorted[(i - 1) + k]]]
        BY <4>1, <4>2 DEF GetScoreRange, n
      <4>4. (i - 1) + 1 = i
        BY <3>1
      <4>5. \A k \in 1..1 : k = 1
        OBVIOUS
      <4>6. QED
        BY <4>3, <4>4, <4>5
    <3>4. QED
      BY <3>2, <3>3 DEF i
  <2>4. QED
    BY <2>1, <2>2, <2>3 DEF RankingSound, InOrder, Exact
<1>2. QED
  BY <1>1, Invariance, PTL

\* A player's entry is its row unless its requests overlapped or a query failed.
THEOREM CacheAlwaysShowsRows == Spec => []CacheShowsRows
<1>1. IInv => CacheShowsRows
  BY DEF IInv, Agreement, Agreed, CacheShowsRows
<1>2. QED
  BY <1>1, Invariance, PTL

\* The board is the top of the rows until an entry comes down, if the start loaded
\* all rows that belong on it.
THEOREM BoardAlwaysTop == Spec => []BoardIsTop
<1>1. IInv => BoardIsTop
  BY DEF IInv, TopOK, BoardIsTop, Below
<1>2. QED
  BY <1>1, Invariance, PTL

\* Data stays with the player and, in the rows, with the score it was sent for, but
\* for data that a start removed because it did not see that a row had it.
THEOREM DataAlwaysOwn == Spec => []DataIsOwn
<1>1. IInv => DataIsOwn
  BY DEF IInv, FilesOK
<1>2. QED
  BY <1>1, Invariance, PTL
================================================================================
