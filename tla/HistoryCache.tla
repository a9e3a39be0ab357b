---------------------------- MODULE HistoryCache ----------------------------
(***************************************************************************)
(* The history write cache of the Zabbix server and proxy                  *)
(* (src/libs/zbxdbcache/dbcache.c): a ring of ZBX_HISTORY_SIZE values and  *)
(* a text buffer in shared memory, both guarded by one semaphore.          *)
(*                                                                         *)
(* Producers (pollers, trappers, pingers ...) add values with              *)
(* DCadd_history*; db syncers take batches out with DCsync_history and     *)
(* write each batch to the database in one transaction.  A syncer is a     *)
(* producer too: a trigger expression it cannot evaluate is reported with  *)
(* zabbix_syslog, which stores a value of the item zabbix[log] through the *)
(* same cache, in the middle of the syncer's transaction.                  *)
(*                                                                         *)
(* A value's id is the order in which it entered the cache; it also stands *)
(* for its clock.  The text of value v is a run of cells holding v, that   *)
(* of its log source a run of cells holding -v.                            *)
(***************************************************************************)
EXTENDS Integers, Sequences, FiniteSets

CONSTANTS
    Producers,          \* processes that only add values
    Syncers,            \* processes that run DCsync_history
    FullSyncers,        \* the syncers that call it with ZBX_SYNC_FULL
    Items,              \* item ids
    Values,             \* values a producer may report: [itemid, len1, len2]
    SyslogValues,       \* zabbix[log] messages a syncer may report; {}: no such item
    HISTORY_SIZE, SYNC_MAX, TEXTBUFFER_SIZE,
    Proxy,              \* zbx_process == ZBX_PROCESS_PROXY
    None,               \* no process, no value, no item
    MaxValues           \* bound: values reported in one behaviour

Value == [itemid : Items, len1 : Nat, len2 : Nat]
Procs == Producers \cup Syncers

ASSUME ProcessAssumption ==
    /\ Producers \cap Syncers = {}
    /\ FullSyncers \subseteq Syncers
    /\ None \notin Procs /\ None \notin Items /\ None \notin Value

ASSUME SizeAssumption ==
    /\ HISTORY_SIZE \in Nat \ {0}
    /\ SYNC_MAX \in Nat \ {0}
    /\ TEXTBUFFER_SIZE \in Nat
    /\ MaxValues \in Nat
    /\ Proxy \in BOOLEAN

(* DCadd_history_str, _text and _log truncate what they store, so that no  *)
(* value is longer than the text buffer and the exit(-1) of                *)
(* DCget_history_ptr is not reached.  A value without text has lengths 0;  *)
(* only a log value, which always has a text, may have a source.           *)
ASSUME ValueAssumption ==
    /\ Values \subseteq Value /\ SyslogValues \subseteq Value
    /\ \A v \in Values \cup SyslogValues :
          /\ v.len1 + v.len2 <= TEXTBUFFER_SIZE
          /\ v.len1 = 0 => v.len2 = 0

VARIABLES
    history, history_first, history_num,    \* the ring
    text, last_text,                        \* the text buffer, the end of its used part
    cache_lock,                             \* holder of the semaphore, or None
    pc, pend,                               \* each process: its step, the value it is adding
    batch, n, f, skipped, syncs,            \* locals of DCsync_history, for each syncer
    added,                                  \* number of values that entered the cache
    stored, lastvalue                       \* database: history rows, items.lastvalue

ring  == <<history, history_first, history_num>>
arena == <<text, last_text>>
scan  == <<batch, n, f, skipped, syncs>>
db    == <<stored, lastvalue>>
vars  == <<ring, arena, cache_lock, pc, pend, scan, added, db>>

NULL == -1

Slots == 0 .. HISTORY_SIZE - 1
Cells == 0 .. TEXTBUFFER_SIZE - 1
Entry == [id : Nat, itemid : Items \cup {None}, len1 : Nat, len2 : Nat,
          value_str : Int, source : Int]

Blank == [id |-> 0, itemid |-> None, len1 |-> 0, len2 |-> 0,
          value_str |-> NULL, source |-> NULL]

Slot(i) == (history_first + i) % HISTORY_SIZE
HasText(e) == e.len1 > 0
Pending == {p \in Procs : pend[p] # None}

Init ==
    /\ history = [i \in Slots |-> Blank]
    /\ history_first = 0
    /\ history_num = 0
    /\ text = [c \in Cells |-> 0]
    /\ last_text = 0
    /\ cache_lock = None
    /\ pc = [p \in Procs |-> IF p \in Producers THEN "idle"
                             ELSE IF p \in FullSyncers THEN "off" ELSE "sync_start"]
    /\ pend = [p \in Procs |-> None]
    /\ batch = [s \in Syncers |-> <<>>]
    /\ n = [s \in Syncers |-> 0]
    /\ f = [s \in Syncers |-> 0]
    /\ skipped = [s \in Syncers |-> FALSE]
    /\ syncs = [s \in Syncers |-> 0]
    /\ added = 0
    /\ stored = {}
    /\ lastvalue = [i \in Items |-> 0]

-----------------------------------------------------------------------------
(* Adding a value: DCadd_history, _uint, _str, _text and _log.             *)

Begin(p, V) ==
    /\ added + Cardinality(Pending) < MaxValues
    /\ \E v \in V : pend' = [pend EXCEPT ![p] = v]
    /\ pc' = [pc EXCEPT ![p] = "add_lock"]
    /\ UNCHANGED <<ring, arena, cache_lock, scan, added, db>>

(* A poller, trapper ... obtained a value of an item.                      *)
Report(p) ==
    /\ pc[p] = "idle"
    /\ Begin(p, Values)

(* zabbix_syslog, called by DCmass_update_item or DCmass_update_triggers   *)
(* inside the syncer's transaction.                                        *)
Syslog(s) ==
    /\ pc[s] = "txn"
    /\ Begin(s, SyslogValues)

AddLock(p) ==
    /\ pc[p] = "add_lock"
    /\ cache_lock = None
    /\ cache_lock' = p
    /\ pc' = [pc EXCEPT ![p] = "get_ptr"]
    /\ UNCHANGED <<ring, arena, pend, scan, added, db>>

(* The positions in the ring, oldest first, of the values with a text.     *)
TextPositions == {i \in 0 .. history_num - 1 : HasText(history[Slot(i)])}

(* Mutant: the buffer is not reset when no cached value has a text.        *)
VacuumOffsetUnreset ==
    IF TextPositions = {} THEN 0
    ELSE history[Slot(CHOOSE i \in TextPositions : \A j \in TextPositions : i <= j)].value_str

(* DCvacuum_text: drop what precedes the text of the oldest such value.    *)
VacuumOffset ==
    IF TextPositions = {} THEN last_text
    ELSE history[Slot(CHOOSE i \in TextPositions : \A j \in TextPositions : i <= j)].value_str

(* Mutant: the pointer to the source of a log value is not moved.          *)
MovedWithoutSource(e, offset) == [e EXCEPT !.value_str = IF HasText(e) THEN @ - offset ELSE @]

Moved(e, offset) ==
    [e EXCEPT !.value_str = IF HasText(e) THEN @ - offset ELSE @,
              !.source = IF @ # NULL THEN @ - offset ELSE @]

DCvacuum_text ==
    /\ text' = IF TextPositions = {} THEN text
               ELSE [c \in Cells |-> IF c + VacuumOffset \in Cells
                                     THEN text[c + VacuumOffset] ELSE text[c]]
    /\ history' = [i \in Slots |-> IF \E j \in TextPositions : i = Slot(j)
                                   THEN Moved(history[i], VacuumOffset) ELSE history[i]]
    /\ last_text' = last_text - VacuumOffset

(* Mutant: one cell too many.                                              *)
FitsOffByOne(len) == len <= TEXTBUFFER_SIZE - last_text + 1

Fits(len) == len <= TEXTBUFFER_SIZE - last_text
TextLen(p) == pend[p].len1 + pend[p].len2

(* Mutant: the process sleeps with the semaphore held.                     *)
SleepLocked(p) ==
    /\ pc' = [pc EXCEPT ![p] = "sleep"]
    /\ UNCHANGED <<cache_lock, history_num, history_first>>

(* The semaphore is released, the process sleeps for a second and retries. *)
SleepUnlocked(p) ==
    /\ cache_lock' = None
    /\ pc' = [pc EXCEPT ![p] = "sleep"]
    /\ UNCHANGED <<history_num, history_first>>

Reserve(p) ==
    /\ history_num' = history_num + 1
    /\ pc' = [pc EXCEPT ![p] = "fill"]
    /\ UNCHANGED <<cache_lock, history_first>>

DCget_history_ptr(p) ==
    /\ pc[p] = "get_ptr"
    /\ \/ /\ history_num >= HISTORY_SIZE
          /\ SleepUnlocked(p)
          /\ UNCHANGED <<history, arena>>
       \/ /\ history_num < HISTORY_SIZE
          /\ TextLen(p) = 0 \/ Fits(TextLen(p))
          /\ Reserve(p)
          /\ UNCHANGED <<history, arena>>
       \/ /\ history_num < HISTORY_SIZE
          /\ TextLen(p) > 0 /\ ~Fits(TextLen(p))
          /\ DCvacuum_text
          /\ IF TextLen(p) <= TEXTBUFFER_SIZE - (last_text - VacuumOffset)
             THEN Reserve(p) ELSE SleepUnlocked(p)
    /\ UNCHANGED <<pend, scan, added, db>>

Wake(p) ==
    /\ pc[p] = "sleep"
    /\ pc' = [pc EXCEPT ![p] = "add_lock"]
    /\ UNCHANGED <<ring, arena, cache_lock, pend, scan, added, db>>

NewEntry(v) ==
    [id |-> added + 1, itemid |-> v.itemid, len1 |-> v.len1, len2 |-> v.len2,
     value_str |-> IF v.len1 > 0 THEN last_text ELSE NULL,
     source |-> IF v.len2 > 0 THEN last_text + v.len1 ELSE NULL]

(* The rest of DCadd_history*: fill the reserved slot, copy the strings,   *)
(* unlock.                                                                 *)
Fill(p) ==
    /\ pc[p] = "fill"
    /\ history' = [history EXCEPT ![Slot(history_num - 1)] = NewEntry(pend[p])]
    /\ text' = [c \in Cells |->
                   IF c < last_text \/ c >= last_text + TextLen(p) THEN text[c]
                   ELSE IF c < last_text + pend[p].len1 THEN added + 1 ELSE -(added + 1)]
    /\ last_text' = last_text + TextLen(p)
    /\ added' = added + 1
    /\ cache_lock' = None
    /\ pend' = [pend EXCEPT ![p] = None]
    /\ pc' = [pc EXCEPT ![p] = IF p \in Syncers THEN "txn" ELSE "idle"]
    /\ UNCHANGED <<history_first, history_num, scan, db>>

-----------------------------------------------------------------------------
(* DCsync_history, called in a loop by main_dbsyncer_loop (ZBX_SYNC_PARTIAL) *)
(* and once by DCsync_all (ZBX_SYNC_FULL).                                 *)

(* Mutant: the loop of the db syncer ends after one sync.                  *)
SyncReturnOnce(s) == "done"

SyncReturn(s) == IF s \in FullSyncers THEN "done" ELSE "sync_start"

(* history_num is read here without the semaphore.  A sync of an empty     *)
(* cache returns at once, which takes a db syncer back to where it was.    *)
SyncStart(s) ==
    /\ pc[s] = "sync_start"
    /\ pc' = [pc EXCEPT ![s] = IF history_num = 0 THEN SyncReturn(s) ELSE "sync_lock"]
    /\ syncs' = [syncs EXCEPT ![s] = history_num \div SYNC_MAX]
    /\ UNCHANGED <<ring, arena, cache_lock, pend, batch, n, f, skipped, added, db>>

(* Mutant: the scan starts one slot late.                                  *)
SyncLockLate(s) ==
    /\ pc[s] = "sync_lock"
    /\ cache_lock = None
    /\ cache_lock' = s
    /\ pc' = [pc EXCEPT ![s] = "scan"]
    /\ batch' = [batch EXCEPT ![s] = <<>>]
    /\ n' = [n EXCEPT ![s] = history_num]
    /\ f' = [f EXCEPT ![s] = Slot(1)]
    /\ skipped' = [skipped EXCEPT ![s] = FALSE]
    /\ UNCHANGED <<ring, arena, pend, syncs, added, db>>

SyncLock(s) ==
    /\ pc[s] = "sync_lock"
    /\ cache_lock = None
    /\ cache_lock' = s
    /\ pc' = [pc EXCEPT ![s] = "scan"]
    /\ batch' = [batch EXCEPT ![s] = <<>>]
    /\ n' = [n EXCEPT ![s] = history_num]
    /\ f' = [f EXCEPT ![s] = history_first]
    /\ skipped' = [skipped EXCEPT ![s] = FALSE]
    /\ UNCHANGED <<ring, arena, pend, syncs, added, db>>

(* Mutant: the last value of the batch is not looked at.                   *)
ItemExistsOffByOne(s, itemid) == \E k \in 1 .. Len(batch[s]) - 1 : batch[s][k].itemid = itemid

DCitem_already_exists(s, itemid) == \E k \in 1 .. Len(batch[s]) : batch[s][k].itemid = itemid

ReadText(ptr, len) == [k \in 1 .. len |-> text[ptr + k - 1]]

(* A copy of an entry in the memory of the syncer, its strings duplicated. *)
Copied(e) ==
    [id |-> e.id, itemid |-> e.itemid,
     value_str |-> IF e.value_str = NULL THEN <<>> ELSE ReadText(e.value_str, e.len1),
     source |-> IF e.source = NULL THEN <<>> ELSE ReadText(e.source, e.len2)]

Before(i) == (IF i = 0 THEN HISTORY_SIZE ELSE i) - 1

(* The slots that the for loop of the scan visits: from slot g back to,    *)
(* and without, history_first.                                             *)
Visited(g) == {i \in Slots : i # history_first
                 /\ (i - history_first) % HISTORY_SIZE <= (g - history_first) % HISTORY_SIZE}

(* Mutant: the gap is not closed.                                          *)
ShiftNothing(g) == history

(* Mutant: the gap is filled with the oldest value.                        *)
ShiftOldest(g) == [history EXCEPT ![g] = history[history_first]]

(* The slots it visits take the content of the slot before them, which     *)
(* closes the gap that the value taken from slot g leaves.                 *)
ShiftUp(g) == [i \in Slots |-> IF i \in Visited(g) THEN history[Before(i)] ELSE history[i]]

Take(s) ==
    /\ Proxy \/ ~DCitem_already_exists(s, history[f[s]].itemid)
    /\ batch' = [batch EXCEPT ![s] = Append(@, Copied(history[f[s]]))]
    /\ history' = ShiftUp(f[s])
    /\ history_num' = history_num - 1
    /\ history_first' = (history_first + 1) % HISTORY_SIZE
    /\ UNCHANGED skipped

Skip(s) ==
    /\ ~Proxy /\ DCitem_already_exists(s, history[f[s]].itemid)
    /\ skipped' = [skipped EXCEPT ![s] = TRUE]
    /\ UNCHANGED <<ring, batch>>

(* One iteration of the loop over the ring, under the semaphore.           *)
Scan(s) ==
    /\ pc[s] = "scan"
    /\ n[s] > 0 /\ Len(batch[s]) < SYNC_MAX
    /\ Take(s) \/ Skip(s)
    /\ n' = [n EXCEPT ![s] = @ - 1]
    /\ f' = [f EXCEPT ![s] = (@ + 1) % HISTORY_SIZE]
    /\ UNCHANGED <<arena, cache_lock, pc, pend, syncs, added, db>>

ScanEnd(s) ==
    /\ pc[s] = "scan"
    /\ n[s] = 0 \/ Len(batch[s]) >= SYNC_MAX
    /\ cache_lock' = None
    /\ pc' = [pc EXCEPT ![s] = IF batch[s] = <<>> THEN SyncReturn(s) ELSE "txn"]
    /\ UNCHANGED <<ring, arena, pend, scan, added, db>>

Ids(q) == {q[k].id : k \in 1 .. Len(q)}

(* Mutant: a full sync stops where a partial one does.                     *)
MoreToSyncPartial(s, late) == syncs[s] > 1 \/ (skipped[s] /\ late)

(* The condition of the do loop: --syncs > 0, ZBX_SYNC_FULL, or a skipped  *)
(* value that is overdue (late stands for skipped_clock < max_delay).      *)
MoreToSync(s, late) == syncs[s] > 1 \/ s \in FullSyncers \/ (skipped[s] /\ late)

(* DBbegin ... DBcommit: the database operations of the batch take effect  *)
(* together; then the strings of the batch are freed.                      *)
Commit(s) ==
    /\ pc[s] = "txn"
    /\ stored' = stored \cup Ids(batch[s])
    /\ lastvalue' = IF Proxy THEN lastvalue
                    ELSE [i \in Items |->
                             IF DCitem_already_exists(s, i)
                             THEN batch[s][CHOOSE k \in 1 .. Len(batch[s]) :
                                              batch[s][k].itemid = i].id
                             ELSE lastvalue[i]]
    /\ batch' = [batch EXCEPT ![s] = <<>>]
    /\ syncs' = [syncs EXCEPT ![s] = IF @ = 0 THEN 0 ELSE @ - 1]
    /\ \E late \in BOOLEAN :
          pc' = [pc EXCEPT ![s] = IF MoreToSync(s, late) THEN "sync_lock" ELSE SyncReturn(s)]
    /\ UNCHANGED <<ring, arena, cache_lock, pend, n, f, skipped, added>>

-----------------------------------------------------------------------------
AddStep(p) == AddLock(p) \/ DCget_history_ptr(p) \/ Wake(p) \/ Fill(p)

SyncStep(s) == SyncStart(s) \/ SyncLock(s) \/ Scan(s) \/ ScanEnd(s) \/ Commit(s)

Next ==
    \/ \E p \in Producers : Report(p)
    \/ \E s \in Syncers : Syslog(s)
    \/ \E p \in Procs : AddStep(p)
    \/ \E s \in Syncers : SyncStep(s)

(* Every process keeps running.  The kernel wakes the waiters of a         *)
(* semaphore in turn, so a process that waits for the cache gets it.       *)
Fairness ==
    /\ \A p \in Procs : WF_vars(AddStep(p)) /\ SF_vars(AddLock(p))
    /\ \A s \in Syncers : WF_vars(SyncStep(s)) /\ SF_vars(SyncLock(s))

Spec == Init /\ [][Next]_vars

FairSpec == Spec /\ Fairness

-----------------------------------------------------------------------------
(* Properties.                                                             *)

InSection == {"get_ptr", "fill", "scan"}

Copy == [id : Nat, itemid : Items \cup {None}, value_str : Seq(Int), source : Seq(Int)]

TypeOK ==
    /\ history \in [Slots -> Entry]
    /\ history_first \in Slots
    /\ history_num \in 0 .. HISTORY_SIZE
    /\ text \in [Cells -> Int]
    /\ last_text \in 0 .. TEXTBUFFER_SIZE
    /\ cache_lock \in Procs \cup {None}
    /\ pc \in [Procs -> {"idle", "add_lock", "sleep", "off", "done", "sync_start",
                         "sync_lock", "txn"} \cup InSection]
    /\ pend \in [Procs -> Value \cup {None}]
    /\ batch \in [Syncers -> Seq(Copy)]
    /\ n \in [Syncers -> 0 .. HISTORY_SIZE]
    /\ f \in [Syncers -> Slots]
    /\ skipped \in [Syncers -> BOOLEAN]
    /\ syncs \in [Syncers -> Nat]
    /\ added \in Nat
    /\ stored \subseteq Nat
    /\ lastvalue \in [Items -> Nat]

(* The values in the ring; a slot that is reserved and not yet filled is   *)
(* not one of them.                                                        *)
Filled == history_num - (IF \E p \in Procs : pc[p] = "fill" THEN 1 ELSE 0)
Cached(i) == history[Slot(i)]
CachedIds == {Cached(i).id : i \in 0 .. Filled - 1}

(* The mutual exclusion that LOCK_CACHE and UNLOCK_CACHE provide: a process *)
(* is between them exactly when it holds the semaphore.                    *)
LockHeld == \A p \in Procs : pc[p] \in InSection <=> cache_lock = p

(* No value is lost, duplicated or stored twice: each one that entered the *)
(* cache is in one place, the ring, one batch or the database, whatever    *)
(* the syncers took out of the middle of the ring meanwhile.               *)
EachValueOnce ==
    /\ CachedIds \cup (UNION {Ids(batch[s]) : s \in Syncers}) \cup stored = 1 .. added
    /\ \A i, j \in 0 .. Filled - 1 : i # j => Cached(i).id # Cached(j).id
    /\ CachedIds \cap stored = {}
    /\ \A s \in Syncers :
          /\ Ids(batch[s]) \cap (CachedIds \cup stored) = {}
          /\ \A t \in Syncers \ {s} : Ids(batch[s]) \cap Ids(batch[t]) = {}
          /\ \A j, k \in 1 .. Len(batch[s]) : j # k => batch[s][j].id # batch[s][k].id

(* The strings of a value are its own, in the ring through every vacuum of *)
(* the text buffer and in the batch a syncer writes.                       *)
OwnText(c) ==
    /\ \A k \in 1 .. Len(c.value_str) : c.value_str[k] = c.id
    /\ \A k \in 1 .. Len(c.source) : c.source[k] = -c.id

TextIntact ==
    /\ \A i \in 0 .. Filled - 1 : OwnText(Copied(Cached(i)))
    /\ \A s \in Syncers : \A k \in 1 .. Len(batch[s]) : OwnText(batch[s][k])

(* A batch of the server holds one value of an item: DCmass_update_item,   *)
(* DCmass_function_update and DCmass_update_triggers use the first one     *)
(* they find.                                                              *)
OneValuePerItem ==
    ~Proxy => \A s \in Syncers : \A j, k \in 1 .. Len(batch[s]) :
                 j # k => batch[s][j].itemid # batch[s][k].itemid

(* With one db syncer the values of an item reach items.lastvalue in the   *)
(* order in which they were added.                                         *)
LastvalueAdvances == [][\A i \in Items : lastvalue'[i] >= lastvalue[i]]_lastvalue

(* The ring, with its shifted slots and its indices modulo the size, is a  *)
(* queue: the cache implements HistoryQueue.                               *)
Named(e) == [id |-> e.id, itemid |-> e.itemid]

Queue == INSTANCE HistoryQueue WITH
            queue <- [i \in 1 .. Filled |-> Named(Cached(i - 1))],
            batch <- [s \in Syncers |-> [k \in 1 .. Len(batch[s]) |-> Named(batch[s][k])]]

ImplementsQueue == Queue!Spec

(* Every value that entered the cache is eventually stored.                *)
EventuallyStored == \A v \in 1 .. MaxValues : added >= v ~> v \in stored

(* A process that adds a value, and sleeps while the ring or the text      *)
(* buffer is full, eventually gets it into the cache.                      *)
AddersProceed == \A p \in Procs : pend[p] # None ~> pend[p] = None

(* zlog.c: "save internal warning or error message in item zabbix[log]".   *)
(* The message of a db syncer is eventually in the cache, on its way to    *)
(* the database.                                                           *)
SyslogSaved == \A s \in Syncers : pend[s] # None ~> pend[s] = None
=============================================================================
