------------------------------- MODULE ScoreBoard -------------------------------
(***************************************************************************)
(* One scoreboard: its rows in the database (src/score_db.cpp), the ranked *)
(* table in memory that every listing is made from (src/score_cache.cpp),  *)
(* and the files with the data of the scores (src/score_files.h), as the   *)
(* score commands (src/cmd_score.cpp) and the start of the server          *)
(* (src/server.cpp, InitScoreSystem) change them.                          *)
(*                                                                         *)
(* A command is a series of steps, each a query, a file, or a critical     *)
(* section of the cache; task[s] is what the handler of session s does     *)
(* next.  The rows and the files outlive the server, which may end between *)
(* any two steps.  A request that is refused changes nothing and is no     *)
(* step.  The start takes a query that fails for one that found no more.   *)
(* Comments and inline data go with the score and are left out.            *)
(***************************************************************************)
EXTENDS Integers, Sequences, FiniteSets, SequencesExt

CONSTANTS
    Players,    \* who has a place on the board: a character of a user
    Sessions,   \* connections
    Account,    \* per session: its user; two may have the same (see Friends)
    Scores,     \* values a game may record
    Stamps,     \* readings of the clock; it may repeat itself and be set back
    Configs,    \* what scoreboards.cfg may make of the board
    NoData,     \* the data_id of a score without data
    Plays,      \* bound: the scores recorded, with the clock
    Readers,    \* bound: connections that ask for the data of scores
    MaxFiles,   \* bound: file ids
    IntMax,     \* bound: the largest int
    MaxBusy     \* bound: handlers under way at once

ASSUME PlayersAssumption == IsFiniteSet(Players) /\ Players \subseteq [user : Int, chara : Int]
ASSUME ValuesAssumption == Scores \subseteq Int /\ Stamps \subseteq Int
ASSUME ConfigsAssumption ==
    Configs \subseteq [limit : Nat, force : BOOLEAN, ascending : BOOLEAN]
ASSUME FilesAssumption == NoData \notin Nat /\ MaxFiles \in Nat
ASSUME IntAssumption == IntMax \in Nat
ASSUME BoundAssumption == MaxBusy \in Nat

VARIABLES
    config,     \* the row of score_table
    rows,       \* the score table, by player
    files,      \* score_data: whose data, for which score, by file id
    nextFile,   \* ScoreFiles::m_next
    sorted,     \* ScoreTableCache::sorted
    lookup,     \* ScoreTableCache::lookup
    task,       \* per session: what its handler does next
    doubtful,   \* history: players whose row and cached entry may have come apart
    lacking,    \* history: whether an entry has come down since the table was loaded,
                \* or not all that belong in it were
    lost        \* history: the data of players that was removed while a row had it

durable == <<config, rows>>
cache == <<sorted, lookup>>
vars == <<config, rows, files, nextFile, sorted, lookup, task, doubtful, lacking, lost>>
history == <<lacking, lost>>

FileIds == 1..MaxFiles
Entry == [player : Players, score : Scores, stamp : Stamps, data : FileIds \cup {NoData}]
Upload == [player : Players, score : Scores]

Idle == [at |-> "idle"]
Task ==
    {Idle}
    \cup [at : {"insert"}, player : Players, score : Scores, stamp : Stamps]
    \cup [at : {"attach", "store"}, player : Players, score : Scores, file : FileIds]
    \cup [at : {"read"}, player : Players, file : FileIds]

---------------------------------------------------------------------------
(* The ranking                                                             *)

Better(cfg, m, n) == IF cfg.ascending THEN m < n ELSE m > n

RanksBefore(cfg, e, f) ==
    \/ Better(cfg, e.score, f.score)
    \/ /\ e.score = f.score
       /\ \/ e.stamp < f.stamp
          \/ e.stamp = f.stamp /\ e.player.user < f.player.user

PlayersIn(t) == {t[i].player : i \in DOMAIN t}

\* The index of a table made from scratch.
IndexOf(t) == [p \in PlayersIn(t) |-> CHOOSE i \in DOMAIN t : t[i].player = p]

\* Reindex: the places of the entries from `from' on are noted again.
Reindexed(index, t, from) ==
    [p \in DOMAIN index \cup {t[i].player : i \in from..Len(t)} |->
        IF \E i \in from..Len(t) : t[i].player = p
        THEN CHOOSE i \in from..Len(t) : t[i].player = p
        ELSE index[p]]

\* std::lower_bound: before the first entry that does not rank before e.
InsertPos(cfg, t, e) ==
    CHOOSE i \in 1..(Len(t) + 1) :
        /\ \A j \in 1..(i - 1) : RanksBefore(cfg, t[j], e)
        /\ i <= Len(t) => ~RanksBefore(cfg, t[i], e)

Forgotten(index, p) == [q \in DOMAIN index \ {p} |-> index[q]]
Ranking(t, index) == [sorted |-> t, lookup |-> index]

\* The player's entry, if there is one, is taken out.
Removed(r, p) ==
    IF p \notin DOMAIN r.lookup THEN r
    ELSE LET rest == RemoveAt(r.sorted, r.lookup[p])
         IN  Ranking(rest, Reindexed(Forgotten(r.lookup, p), rest, r.lookup[p]))

\* The new one is put in its place, `removedAt' is where the old one was.
Inserted(cfg, r, e, removedAt) ==
    LET pos == InsertPos(cfg, r.sorted, e)
        t == InsertAt(r.sorted, pos, e)
        from == IF removedAt < pos + 1 THEN removedAt ELSE pos + 1
    IN  Ranking(t, Reindexed([p \in DOMAIN r.lookup \cup {e.player} |->
                                IF p = e.player THEN pos ELSE r.lookup[p]], t, from))

\* A mutant: the entry that drops out stays in the index.
TrimmedOnly(cfg, r) ==
    IF Len(r.sorted) > cfg.limit THEN Ranking(Front(r.sorted), r.lookup) ELSE r

\* What is beyond the limit drops out.
Trimmed(cfg, r) ==
    IF Len(r.sorted) > cfg.limit
    THEN Ranking(Front(r.sorted), Forgotten(r.lookup, Last(r.sorted).player))
    ELSE r

\* A mutant: a full table takes nobody in.
FitsIfRoom(cfg, t, e) == Len(t) < cfg.limit

Fits(cfg, t, e) == Len(t) < cfg.limit \/ InsertPos(cfg, t, e) <= cfg.limit

\* ScoreCache::InsertScore
Ranked(cfg, r, e) ==
    LET rest == Removed(r, e.player)
        removedAt == IF e.player \in DOMAIN r.lookup THEN r.lookup[e.player] ELSE Len(r.sorted) + 2
    IN  IF Fits(cfg, rest.sorted, e) THEN Trimmed(cfg, Inserted(cfg, rest, e, removedAt)) ELSE rest

---------------------------------------------------------------------------
(* Listings                                                                *)

\* A mutant: the rank asked for is taken for an index.
GetScoreRangeFromZero(start, num) ==
    LET end == IF start + num < Len(sorted) THEN start + num ELSE Len(sorted)
    IN  [k \in 1..(end - start) |-> [rank |-> start + k, entry |-> sorted[start + k]]]

\* A uint32_t as an int.
AsInt(n) == IF n > IntMax THEN n - 2 * (IntMax + 1) ELSE n

\* num ranks from `start' on, which is 1 if it is 0.  There is no entry below
\* the first, for a rank that an int does not hold: what is read is undefined.
GetScoreRange(start, num) ==
    LET first == AsInt(IF start = 0 THEN 1 ELSE start) - 1
        last == first + AsInt(num)
        end == IF last < Len(sorted) THEN last ELSE Len(sorted)
    IN  [k \in 1..(end - first) |-> [rank |-> first + k, entry |-> sorted[first + k]]]

\* One answer for each of the ids, blank if it is not on the board.
Blank == [rank |-> 0]
GetScoreByIds(ids) ==
    [k \in DOMAIN ids |->
        IF ids[k] \in DOMAIN lookup
        THEN [rank |-> lookup[ids[k]], entry |-> sorted[lookup[ids[k]]]]
        ELSE Blank]

Cached(p) == p \in DOMAIN lookup
CachedEntry(p) == sorted[lookup[p]]

---------------------------------------------------------------------------
(* The start of the server                                                 *)

\* ScoresForBoard: the first rows in order, as many as the limit.  Rows of two
\* characters of one user may tie; their order is SQLite's.
Tables(cfg) ==
    LET all == {rows[p] : p \in DOMAIN rows}
        n == IF Cardinality(all) < cfg.limit THEN Cardinality(all) ELSE cfg.limit
    IN  {t \in [1..n -> all] :
            /\ \A i, j \in 1..n : i < j => t[i] # t[j] /\ ~RanksBefore(cfg, t[j], t[i])
            /\ \A e \in all \ {t[i] : i \in 1..n} : n > 0 => ~RanksBefore(cfg, e, t[n])}

DataIds == {rows[p].data : p \in DOMAIN rows} \ {NoData}

LargestFile == CHOOSE n \in DOMAIN files \cup {0} : \A m \in DOMAIN files : m <= n

Init ==
    /\ config \in Configs
    /\ rows = <<>>
    /\ files = <<>>
    /\ nextFile = 1
    /\ sorted = <<>>
    /\ lookup = <<>>
    /\ task = [s \in Sessions |-> Idle]
    /\ doubtful = {}
    /\ lacking = FALSE
    /\ lost = {}

\* The file may say something else of the board than it did, or nothing.
LoadScoreboardsCfg == config' \in Configs \cup {config}

\* Files of no row that is known of are removed.
CleanOrphans(ids) == files' = [id \in DOMAIN files \cap ids |-> files[id]]

\* The server ends, whatever its handlers are doing, and starts again.  If a
\* query fails, not all of the table is loaded (ScoresForBoard, AllBoards), or
\* not all ids that the rows have are found (AllDataIds).
Restart ==
    /\ LoadScoreboardsCfg
    /\ \E table \in Tables(config') :
        sorted' \in Prefixes(table) /\ lacking' = (sorted' # table)
    /\ lookup' = IndexOf(sorted')
    /\ nextFile' = LargestFile + 1
    /\ \E ids \in SUBSET DataIds :
        /\ CleanOrphans(ids)
        /\ lost' = {d \in Players \X DataIds :
                        /\ d[1] \in DOMAIN rows /\ rows[d[1]].data = d[2]
                        /\ d[2] \notin ids \/ d \in lost}
    /\ task' = [s \in Sessions |-> Idle]
    /\ doubtful' = {}
    /\ UNCHANGED rows

---------------------------------------------------------------------------
(* The commands                                                            *)

Free(s) ==
    /\ task[s] = Idle
    /\ Cardinality({t \in Sessions : task[t] # Idle}) < MaxBusy

Goes(s, next) == task' = [task EXCEPT ![s] = next]

\* Handlers that change the entry of p.
Writers(p) == {s \in Sessions : task[s].at \in {"insert", "attach", "store"} /\ task[s].player = p}

NewEntry(p, score, stamp) == [player |-> p, score |-> score, stamp |-> stamp, data |-> NoData]

\* A mutant: the data of the former score is kept.
RowKeepingData(p, score, stamp) ==
    [NewEntry(p, score, stamp) EXCEPT !.data = IF p \in DOMAIN rows THEN rows[p].data ELSE NoData]

\* The row a record leaves.
NewRow(p, score, stamp) == NewEntry(p, score, stamp)

\* A row is overwritten by a score that is not worse, or by any.
CmdRecordScore(s, p, score, stamp) ==
    /\ Free(s) /\ p.user = Account[s] /\ <<score, stamp>> \in Plays
    /\ p \in DOMAIN rows /\ ~config.force => ~Better(config, rows[p].score, score)
    /\ rows' = [q \in DOMAIN rows \cup {p} |->
                    IF q = p THEN NewRow(p, score, stamp) ELSE rows[q]]
    /\ Goes(s, [at |-> "insert", player |-> p, score |-> score, stamp |-> stamp])
    /\ doubtful' = IF Writers(p) = {} THEN doubtful \ {p} ELSE doubtful \cup {p}
    /\ UNCHANGED <<config, files, nextFile, cache, history>>

InsertScore(s) ==
    LET p == task[s].player
        e == NewEntry(p, task[s].score, task[s].stamp)
        new == Ranked(config, Ranking(sorted, lookup), e)
    IN  /\ task[s].at = "insert"
        /\ sorted' = new.sorted /\ lookup' = new.lookup
        /\ Goes(s, Idle)
        /\ lacking' = (lacking \/ (Cached(p) /\ RanksBefore(config, CachedEntry(p), e)))
        /\ UNCHANGED <<durable, files, nextFile, doubtful, lost>>

\* A mutant: the id after it is counted up.
NewFileAfter == nextFile + 1

NewFile == nextFile

\* ContainsScoreWithNoData and Create, which may fail.  Until it is attached
\* nobody else knows of the file, so they are one step.  A file that could not
\* be written to its end is attached like any other: its length is left out.
CmdRecordScoreData(s, p, score) ==
    /\ Free(s) /\ p.user = Account[s]
    /\ Cached(p) /\ CachedEntry(p).score = score /\ CachedEntry(p).data = NoData
    /\ nextFile <= MaxFiles
    /\ nextFile' = nextFile + 1
    /\ \/ /\ files' = [id \in DOMAIN files \cup {NewFile} |->
                        IF id = NewFile THEN [player |-> p, score |-> score] ELSE files[id]]
          /\ Goes(s, [at |-> "attach", player |-> p, score |-> score, file |-> NewFile])
          /\ doubtful' = IF Writers(p) = {} THEN doubtful ELSE doubtful \cup {p}
       \/ UNCHANGED <<files, task, doubtful>>
    /\ UNCHANGED <<durable, cache, history>>

\* To whatever entry the player has by now; a file nobody wants is removed.
SetGameData(s) ==
    LET t == task[s]
    IN  /\ t.at = "attach"
        /\ IF Cached(t.player)
           THEN /\ sorted' = [sorted EXCEPT ![lookup[t.player]].data = t.file]
                /\ Goes(s, [t EXCEPT !.at = "store"])
                /\ UNCHANGED files
           ELSE /\ files' = [id \in DOMAIN files \ {t.file} |-> files[id]]
                /\ Goes(s, Idle)
                /\ UNCHANGED sorted
        /\ UNCHANGED <<durable, nextFile, lookup, doubtful, history>>

\* A mutant: whatever score the row has.
HasRowOf(t) == t.player \in DOMAIN rows

HasScoreOf(t) == t.player \in DOMAIN rows /\ rows[t.player].score = t.score

\* The query may fail, or find another score: its result is ignored.
SetScoreDataId(s) ==
    LET t == task[s]
    IN  /\ t.at = "store"
        /\ \/ /\ HasScoreOf(t)
              /\ rows' = [rows EXCEPT ![t.player].data = t.file]
              /\ UNCHANGED doubtful
           \/ doubtful' = doubtful \cup {t.player} /\ UNCHANGED rows
        /\ Goes(s, Idle)
        /\ UNCHANGED <<config, files, nextFile, cache, history>>

\* Anybody may ask for the data of anybody: the id is read under the lock, the
\* file later.
GetGameDataId(s, p) ==
    /\ Free(s) /\ s \in Readers
    /\ Cached(p) /\ CachedEntry(p).data # NoData
    /\ Goes(s, [at |-> "read", player |-> p, file |-> CachedEntry(p).data])
    /\ UNCHANGED <<durable, files, nextFile, cache, doubtful, history>>

Read(s) ==
    /\ task[s].at = "read"
    /\ Goes(s, Idle)
    /\ UNCHANGED <<durable, files, nextFile, cache, doubtful, history>>

Step(s) ==
    \/ \E p \in Players :
        \/ \E score \in Scores :
            \/ \E stamp \in Stamps : CmdRecordScore(s, p, score, stamp)
            \/ CmdRecordScoreData(s, p, score)
        \/ GetGameDataId(s, p)
    \/ InsertScore(s) \/ SetGameData(s) \/ SetScoreDataId(s) \/ Read(s)

Next == Restart \/ \E s \in Sessions : Step(s)

Spec == Init /\ [][Next]_vars

---------------------------------------------------------------------------
(* Properties                                                              *)

TypeOK ==
    /\ config \in Configs
    /\ DOMAIN rows \subseteq Players /\ \A p \in DOMAIN rows : rows[p] \in Entry /\ rows[p].player = p
    /\ DOMAIN files \subseteq FileIds /\ \A id \in DOMAIN files : files[id] \in Upload
    /\ nextFile \in 1..(MaxFiles + 1)
    /\ sorted \in Seq(Entry)
    /\ DOMAIN lookup \subseteq Players
    /\ task \in [Sessions -> Task]
    /\ doubtful \subseteq Players
    /\ lacking \in BOOLEAN
    /\ lost \subseteq Players \X FileIds

\* However scores are recorded, dropped and loaded again, the table is in order
\* and no longer than its limit, the index, which is patched entry by entry, says
\* of every player where it is and of no other, and asking for a player finds
\* what asking for its rank finds, as long as an int holds it.
RankingSound ==
    /\ Len(sorted) <= config.limit
    /\ \A i, j \in DOMAIN sorted : i < j => ~RanksBefore(config, sorted[j], sorted[i])
    /\ DOMAIN lookup = PlayersIn(sorted)
    /\ \A i \in DOMAIN sorted : lookup[sorted[i].player] = i
    /\ \A p \in DOMAIN lookup :
        lookup[p] <= IntMax => GetScoreByIds(<<p>>) = GetScoreRange(lookup[p], 1)

\* A player's cached entry is its row, data and all, whenever no handler of its
\* is under way, unless two have been at once, or a query has failed; a score
\* that is then recorded alone mends it.
CacheShowsRows ==
    \A p \in Players :
        Cached(p) /\ p \notin doubtful /\ Writers(p) = {} => p \in DOMAIN rows /\ CachedEntry(p) = rows[p]

\* The board is the top of the rows, in whatever order several sessions' scores
\* come to it, unless an entry has come down or not all rows were loaded: what
\* there is room for is not read from the rows until the server starts again.
BoardIsTop ==
    ~lacking =>
        \A p \in DOMAIN rows \ doubtful :
            ~Cached(p) /\ Writers(p) = {} =>
                /\ Len(sorted) = config.limit
                /\ \A i \in DOMAIN sorted : ~RanksBefore(config, rows[p], sorted[i])

\* p has data, and it was not removed by a start that did not see p's row.
Keeps(p, id) == id # NoData /\ <<p, id>> \notin lost

\* The data of a score is there, and was uploaded for it: never data of another
\* score in a row, never another player's in the cache or in the hands of a
\* handler that has still to read it, through restarts, clean-ups and ids given
\* out anew, but for data of which a start could not read that a row has it.
DataIsOwn ==
    /\ \A p \in DOMAIN rows : Keeps(p, rows[p].data) =>
        /\ rows[p].data \in DOMAIN files
        /\ files[rows[p].data] = [player |-> p, score |-> rows[p].score]
    /\ \A i \in DOMAIN sorted : Keeps(sorted[i].player, sorted[i].data) =>
        /\ sorted[i].data \in DOMAIN files
        /\ files[sorted[i].data].player = sorted[i].player
    /\ \A s \in Sessions : task[s].at = "read" /\ Keeps(task[s].player, task[s].file) =>
        /\ task[s].file \in DOMAIN files
        /\ files[task[s].file].player = task[s].player
================================================================================
