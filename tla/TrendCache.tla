----------------------------- MODULE TrendCache -----------------------------
(***************************************************************************)
(* The trend cache (src/libs/zbxdbcache/dbcache.c): for each item the      *)
(* count, minimum, average and maximum of the values of the current hour,  *)
(* in an array of the shared memory sorted by itemid.  The hour that ends, *)
(* and everything at shutdown, is merged into the rows of the tables       *)
(* trends and trends_uint.                                                 *)
(*                                                                         *)
(* DCmass_update_trends runs inside the transaction of a db syncer and     *)
(* outside the cache semaphore; its updates of the database are collected  *)
(* in one string and executed after the whole batch, its selects at once.  *)
(*                                                                         *)
(* A float average is kept as the exact total num * avg, an unsigned one   *)
(* as the code keeps it, divided and truncated after every value.          *)
(***************************************************************************)
EXTENDS Integers, Sequences, FiniteSets, SequencesExt

CONSTANTS
    TrendSyncers,       \* the db syncers
    TrendItems,         \* item ids: naturals, ordered as the array is
    Hours,              \* clock - clock % 3600: naturals above 0
    Numbers,            \* measured numbers
    TREND_SIZE,
    UINT_BITS,          \* width of zbx_uint64_t
    MaxBatch, MaxTrendValues    \* bounds: values of a batch, of a behaviour

Types == {"float", "uint"}

ASSUME TrendCacheAssumption ==
    /\ TrendItems \subseteq Nat /\ Hours \subseteq Nat \ {0} /\ Numbers \subseteq Int
    /\ 2 ^ UINT_BITS \in Nat \ {0}

VARIABLES
    trends,             \* cache->trends, the first trends_num of them
    rows,               \* the rows of trends and trends_uint
    stage, todo,        \* each syncer: its step, the values of its batch still to add
    trend,              \* the index DCget_trend returned, 0 for NULL
    sql,                \* the updates of rows not executed yet
    seen,               \* every value added, in order
    lost                \* the trends whose update was lost with its transaction

trendVars == <<trends, rows, stage, todo, trend, sql, seen, lost>>

Key == [type : Types, itemid : TrendItems, clock : Hours]
KeyOf(t) == [type |-> t.type, itemid |-> t.itemid, clock |-> t.clock]
NoRow == [num |-> 0]

TrendInit ==
    /\ trends = <<>>
    /\ rows = [k \in Key |-> NoRow]
    /\ stage = [s \in TrendSyncers |-> "idle"]
    /\ todo = [s \in TrendSyncers |-> <<>>]
    /\ trend = [s \in TrendSyncers |-> 0]
    /\ sql = [s \in TrendSyncers |-> <<>>]
    /\ seen = <<>> /\ lost = {}

-----------------------------------------------------------------------------
(* The pairs of a first and a last index.                                  *)
Ranges(n) == {r \in (1 .. n) \X (1 .. n) : r[1] <= r[2]}

(* Mutant: the search ends before the structure it stopped at.             *)
NearestIndexBefore(itemid) ==
    LET search[r \in Ranges(Len(trends))] ==
            LET index == r[1] + (r[2] - r[1]) \div 2
                found == trends[index].itemid
            IN  IF found = itemid \/ r[1] = r[2] THEN index
                ELSE IF found < itemid THEN search[<<index + 1, r[2]>>]
                ELSE search[<<r[1], index>>]
    IN  IF trends = <<>> THEN 1 ELSE search[<<1, Len(trends)>>]

(* DCget_trend_nearestindex: a binary search, with the array's indices     *)
(* from 1.                                                                 *)
DCget_trend_nearestindex(itemid) ==
    LET search[r \in Ranges(Len(trends))] ==
            LET index == r[1] + (r[2] - r[1]) \div 2
                found == trends[index].itemid
            IN  IF found = itemid THEN index
                ELSE IF r[1] = r[2] THEN IF found < itemid THEN index + 1 ELSE index
                ELSE IF found < itemid THEN search[<<index + 1, r[2]>>]
                ELSE search[<<r[1], index>>]
    IN  IF trends = <<>> THEN 1 ELSE search[<<1, Len(trends)>>]

Found(index, itemid) == index <= Len(trends) /\ trends[index].itemid = itemid

NewTrend(itemid) == [itemid |-> itemid, type |-> "float", clock |-> 0, num |-> 0,
                     min |-> 0, avg |-> 0, max |-> 0]

(* num * avg, and its inverse.                                             *)
Total(type, num, avg) == IF type = "float" THEN avg ELSE (num * avg) % 2 ^ UINT_BITS
(* Mutant: divided by one more than the number of values.                  *)
AverageOffByOne(type, total, num) ==
    IF type = "float" THEN total ELSE (total % 2 ^ UINT_BITS) \div (num + 1)
Average(type, total, num) == IF type = "float" THEN total ELSE (total % 2 ^ UINT_BITS) \div num

Lesser(a, b) == IF a < b THEN a ELSE b
Greater(a, b) == IF a > b THEN a ELSE b

(* Mutant: the row that is found is overwritten.                           *)
MergedOver(t, row) == [num |-> t.num, min |-> t.min, avg |-> t.avg, max |-> t.max]

(* DCflush_trend: what it writes for trend t, given the row that it finds. *)
Merged(t, row) ==
    IF row = NoRow
    THEN [num |-> t.num, min |-> t.min, avg |-> t.avg, max |-> t.max]
    ELSE [num |-> t.num + row.num,
          min |-> Lesser(row.min, t.min),
          max |-> Greater(row.max, t.max),
          avg |-> Average(t.type, Total(t.type, t.num, t.avg) + Total(t.type, row.num, row.avg),
                          t.num + row.num)]

(* A structure that never had a value gives a row of no hour, which is not *)
(* kept here.                                                              *)
FoundRow(k) == IF k \in Key THEN rows[k] ELSE NoRow
Flush(t) == [key |-> KeyOf(t), row |-> Merged(t, FoundRow(KeyOf(t)))]

(* DCadd_trend: the structure after one more value, flushed before or not. *)
MustFlush(t, v) == t.num > 0 /\ (t.clock # v.clock \/ t.type # v.type)

Accumulated(t, v) ==
    LET num == IF MustFlush(t, v) THEN 0 ELSE t.num
        avg == IF MustFlush(t, v) THEN 0 ELSE t.avg
    IN  [itemid |-> t.itemid, type |-> v.type, clock |-> v.clock, num |-> num + 1,
         min |-> IF num = 0 THEN v.value ELSE Lesser(v.value, t.min),
         max |-> IF num = 0 THEN v.value ELSE Greater(v.value, t.max),
         avg |-> Average(v.type, Total(v.type, num, avg) + v.value, num + 1)]

(* The rows after a string of updates.                                     *)
Executed(q) == [k \in Key |->
                   LET hits == {j \in 1 .. Len(q) : q[j].key = k}
                   IN  IF hits = {} THEN rows[k]
                       ELSE q[CHOOSE j \in hits : \A i \in hits : i <= j].row]

-----------------------------------------------------------------------------
SumOver(S, g(_)) == FoldSet(LAMBDA x, acc : g(x) + acc, 0, S)

(* The batch of DCsync_history that is given to DCmass_update_trends: one  *)
(* value of an item (OneValuePerItem of HistoryCache), here only those     *)
(* with trends to keep, numeric and not null.                              *)
DistinctItems(b) == \A i, j \in 1 .. Len(b) : i # j => b[i].itemid # b[j].itemid

Batches(m) ==
    {b \in [1 .. m -> [itemid : TrendItems, type : Types, clock : Hours, value : Numbers]] : DistinctItems(b)}

DCmass_update_trends(s) ==
    /\ stage[s] = "idle"
    /\ \E m \in 1 .. MaxBatch :
          /\ Len(seen) + SumOver(TrendSyncers, LAMBDA t : Len(todo[t])) + m <= MaxTrendValues
          /\ \E b \in Batches(m) : todo' = [todo EXCEPT ![s] = b]
    /\ stage' = [stage EXCEPT ![s] = "get"]
    /\ UNCHANGED <<trends, rows, trend, sql, seen, lost>>

(* Find or insert the structure of the item of the next value.             *)
DCget_trend(s) ==
    /\ stage[s] = "get"
    /\ todo[s] # <<>>
    /\ LET itemid == Head(todo[s]).itemid
           index == DCget_trend_nearestindex(itemid)
       IN  \/ /\ Found(index, itemid)
              /\ trend' = [trend EXCEPT ![s] = index]
              /\ UNCHANGED trends
           \/ /\ ~Found(index, itemid) /\ Len(trends) = TREND_SIZE
              /\ trend' = [trend EXCEPT ![s] = 0]
              /\ UNCHANGED trends
           \/ /\ ~Found(index, itemid) /\ Len(trends) < TREND_SIZE
              /\ trend' = [trend EXCEPT ![s] = index]
              /\ trends' = InsertAt(trends, index, NewTrend(itemid))
    /\ stage' = [stage EXCEPT ![s] = "add"]
    /\ UNCHANGED <<rows, todo, sql, seen, lost>>

(* The rest of DCadd_trend.  With no structure it fills one on its stack   *)
(* and then passes the null pointer to DCflush_trend.                      *)
DCadd_trend(s) ==
    /\ stage[s] = "add"
    /\ IF trend[s] = 0
       THEN /\ stage' = [stage EXCEPT ![s] = "crashed"]
            /\ UNCHANGED <<trends, todo, sql, seen>>
       ELSE LET t == trends[trend[s]]
                v == Head(todo[s])
            IN  /\ sql' = IF MustFlush(t, v) THEN [sql EXCEPT ![s] = Append(@, Flush(t))] ELSE sql
                /\ trends' = [trends EXCEPT ![trend[s]] = Accumulated(t, v)]
                /\ todo' = [todo EXCEPT ![s] = Tail(@)]
                /\ seen' = Append(seen, v)
                /\ stage' = [stage EXCEPT ![s] = "get"]
    /\ UNCHANGED <<rows, trend, lost>>

(* The end of DCmass_update_trends, and DBcommit in DCsync_history.        *)
Execute(s) ==
    /\ stage[s] = "get"
    /\ todo[s] = <<>>
    /\ rows' = Executed(sql[s])
    /\ sql' = [sql EXCEPT ![s] = <<>>]
    /\ stage' = [stage EXCEPT ![s] = "idle"]
    /\ UNCHANGED <<trends, todo, trend, seen, lost>>

(* The updates that wait in the strings of the syncers.                    *)
Unexecuted == UNION {{sql[s][j] : j \in 1 .. Len(sql[s])} : s \in TrendSyncers}

(* All db syncers are killed, each between two of its steps, and their     *)
(* transactions are rolled back; a structure that was flushed has been     *)
(* emptied in the shared memory all the same.  The parent then takes what  *)
(* is left in the history cache, in batches, as a syncer does.             *)
KillSyncers ==
    /\ stage' = [s \in TrendSyncers |-> "idle"]
    /\ todo' = [s \in TrendSyncers |-> <<>>]
    /\ sql' = [s \in TrendSyncers |-> <<>>]
    /\ lost' = lost \cup {q.key : q \in Unexecuted}
    /\ UNCHANGED <<trends, rows, trend, seen>>

(* At shutdown, by the parent, when the syncers are killed; the server may *)
(* then be started again, within the same hour.                            *)
DCsync_trends ==
    /\ \A s \in TrendSyncers : stage[s] = "idle"
    /\ rows' = Executed([i \in 1 .. Len(trends) |-> Flush(trends[i])])
    /\ trends' = <<>>
    /\ UNCHANGED <<stage, todo, trend, sql, seen, lost>>

TrendNext ==
    \/ \E s \in TrendSyncers :
          DCmass_update_trends(s) \/ DCget_trend(s) \/ DCadd_trend(s) \/ Execute(s)
    \/ KillSyncers \/ DCsync_trends

TrendSpec == TrendInit /\ [][TrendNext]_trendVars

-----------------------------------------------------------------------------
(* The binary search and the insertion keep the array sorted, with one     *)
(* structure for an item: without it a second one would take its values.   *)
TrendsSorted == \A i, j \in 1 .. Len(trends) : i < j => trends[i].itemid < trends[j].itemid

(* What the cache and the database know of one item, hour and table: the   *)
(* structure of the cache, the row that is committed, or the one of a      *)
(* transaction that replaces it.                                           *)
InCache(k) == {trends[i] : i \in {j \in 1 .. Len(trends) : trends[j].num > 0 /\ KeyOf(trends[j]) = k}}
Row(k) == LET new == {q \in Unexecuted : q.key = k}
          IN  IF new # {} THEN {q.row : q \in new} ELSE {rows[k]} \ {NoRow}
Parts(k) == InCache(k) \cup Row(k)

(* The values of one item, hour and table in a sequence of them.           *)
ValuesOf(k, values) == {j \in 1 .. Len(values) : KeyOf(values[j]) = k}
NumbersOf(k, values) == {values[j].value : j \in ValuesOf(k, values)}
TotalOfValues(k, values) ==
    LET total[n \in 0 .. Len(values)] ==
            IF n = 0 THEN 0
            ELSE total[n - 1] + (IF KeyOf(values[n]) = k THEN values[n].value ELSE 0)
    IN  total[Len(values)]

(* The number and the total of at most one part.                           *)
AtMostOne(S) == \A t, u \in S : t = u
NumOf(S) == IF S = {} THEN 0 ELSE (CHOOSE t \in S : TRUE).num
AvgOf(S) == IF S = {} THEN 0 ELSE (CHOOSE t \in S : TRUE).avg

(* No value that was added is lost or counted twice between the cache and  *)
(* the database, whatever the order of the hours of the values: there is   *)
(* at most one structure and one row for a trend, and together they have   *)
(* the count, the minimum, the maximum and (for floats) the total of its   *)
(* values.  So it is across restarts, but for a trend that was flushed by  *)
(* a syncer which was killed, between two of its steps, before its commit. *)
TrendsComplete ==
    \A k \in Key \ lost :
        /\ AtMostOne(InCache(k)) /\ AtMostOne(Row(k))
        /\ NumOf(InCache(k)) + NumOf(Row(k)) = Cardinality(ValuesOf(k, seen))
        /\ \A x \in NumbersOf(k, seen) : \E t \in Parts(k) : t.min <= x
        /\ \A x \in NumbersOf(k, seen) : \E t \in Parts(k) : t.max >= x
        /\ \A t \in Parts(k) : {t.min, t.max} \subseteq NumbersOf(k, seen)
        /\ k.type = "float" =>
              AvgOf(InCache(k)) + AvgOf(Row(k)) = TotalOfValues(k, seen)

(* The truncated average of an unsigned item stays between the extremes of *)
(* its values.                                                             *)
AverageBetween ==
    \A k \in Key : k.type = "uint" =>
        \A t \in Parts(k) : t.min <= t.avg /\ t.avg <= t.max

(* DCadd_trend says "Insufficient space for trends. Flushing to disk.": a  *)
(* value that finds the array full is flushed, and the syncer goes on.     *)
FullArrayFlushed == \A s \in TrendSyncers : stage[s] # "crashed"

(* DCget_trend, "find existing or add new structure and return pointer":   *)
(* the structure that DCadd_trend changes is the one of its item.          *)
OwnTrend ==
    \A s \in TrendSyncers : stage[s] = "add" /\ trend[s] # 0 =>
        trend[s] <= Len(trends) /\ trends[trend[s]].itemid = Head(todo[s]).itemid
=============================================================================
