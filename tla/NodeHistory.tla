---------------------------- MODULE NodeHistory -----------------------------
(***************************************************************************)
(* The history of a node of a distributed setup and of its masters.  The   *)
(* node watcher of each node sends it to a trapper of the next master      *)
(* (nodewatcher/history.c, trapper/nodehistory.c).  The nodes are 1 .. N,  *)
(* each the master of the next; the history of the last one is followed,   *)
(* in one of two kinds of tables:                                          *)
(*   ZBX_HISTORY       the rows above the last id of the master are sent;  *)
(*   ZBX_HISTORY_SYNC  the rows of a table beside the history are sent and *)
(*                     deleted; each master gives them ids of its own.     *)
(* A value of the node N stands for the id it was given there.  The last   *)
(* values and trends of the items at the masters are left out, and so is   *)
(* the table events, whose rows process_event inserts.                     *)
(***************************************************************************)
EXTENDS Integers, FiniteSetsExt, Bags

CONSTANTS
    N,
    HistoryWriters,     \* db syncers of the node N
    MaxSelected,        \* rows of one selection, 10000 in the code
    Nobody,
    MaxValues, MaxStops \* bounds

ASSUME NodeHistoryAssumption ==
    /\ N \in Nat \ {0} /\ MaxSelected \in Nat \ {0}
    /\ Nobody \notin Nat \cup [step : {"select", "recv", "OK"}, lastid : Nat]

ZBX_HISTORY == "history_text"
ZBX_HISTORY_SYNC == "history_sync"

VARIABLES
    table,              \* the kind of table
    values,             \* values inserted at the node N
    inserted,           \* the value of each writer's open transaction, or Nobody
    hist,               \* at each node: the committed values, a bag
    sync, ids,          \* its *_sync table, rows [id, value], and its last id
    watcher,            \* its node watcher: [step, lastid], or Nobody
    trapper,            \* its trappers busy with History: sets of [step, alive, rows, no]
    late,               \* values that became visible when a larger id had been read
    stops

copied == <<hist, sync, ids>>
historyVars == <<table, values, inserted, copied, watcher, trapper, late, stops>>

Nodes == 1 .. N
Values(S) == {row.value : row \in S}

HistoryInit ==
    /\ table \in {ZBX_HISTORY, ZBX_HISTORY_SYNC}
    /\ values = 0
    /\ inserted = [w \in HistoryWriters |-> Nobody]
    /\ hist = [n \in Nodes |-> EmptyBag]
    /\ sync = [n \in Nodes |-> {}]
    /\ ids = [n \in Nodes |-> 0]
    /\ watcher = [n \in Nodes |-> Nobody]
    /\ trapper = [n \in Nodes |-> {}]
    /\ late = {}
    /\ stops = 0

(* select max(id): the last id that a master has.                          *)
LastIdAt(n) == Max({0} \cup BagToSet(hist[n]))

(* The rows that the node watcher of n selects from.                       *)
Rows(n) ==
    IF table = ZBX_HISTORY_SYNC THEN sync[n] ELSE {[id |-> v, value |-> v] : v \in BagToSet(hist[n])}

(* Whether a row that becomes visible now comes too late to be selected.   *)
PassedOver(n, id) ==
    /\ n > 1
    /\ IF table = ZBX_HISTORY_SYNC
       THEN watcher[n] # Nobody /\ id < watcher[n].lastid
       ELSE \/ id < LastIdAt(n - 1)
            \/ \E t \in trapper[n - 1] : \E row \in t.rows : id < row.value

(* The rows become visible at the node n.                                  *)
MadeVisible(n, data) ==
    /\ hist' = [hist EXCEPT ![n] = @ (+) SetToBag(Values(data))]
    /\ sync' = [sync EXCEPT ![n] = IF table = ZBX_HISTORY_SYNC /\ n > 1 THEN @ \cup data ELSE @]
    /\ late' = late \cup Values({row \in data : PassedOver(n, row.id)})

-----------------------------------------------------------------------------
(* The db syncers of the node N: an id is given out at the insert, others  *)
(* see the row when the transaction commits.                               *)
DCmass_add_history(w) ==
    /\ values < MaxValues
    /\ inserted[w] = Nobody
    /\ values' = values + 1
    /\ inserted' = [inserted EXCEPT ![w] = values + 1]
    /\ ids' = [ids EXCEPT ![N] = values + 1]
    /\ UNCHANGED <<table, hist, sync, watcher, trapper, late, stops>>

HistoryCommit(w) ==
    /\ inserted[w] # Nobody
    /\ MadeVisible(N, {[id |-> inserted[w], value |-> inserted[w]]})
    /\ inserted' = [inserted EXCEPT ![w] = Nobody]
    /\ UNCHANGED <<table, values, ids, watcher, trapper, stops>>

-----------------------------------------------------------------------------
(* The node watcher of n, a slave of n - 1: process_history_table_data.    *)

(* The master is asked for its last id.                                    *)
get_history_lastid(n) ==
    /\ n > 1
    /\ table = ZBX_HISTORY
    /\ watcher[n] = Nobody
    /\ watcher' = [watcher EXCEPT ![n] = [step |-> "select", lastid |-> LastIdAt(n - 1)]]
    /\ UNCHANGED <<table, values, inserted, copied, trapper, late, stops>>

(* Mutant: the rows come newest first.                                     *)
LastRows(S) == {row \in S : Cardinality({r \in S : r.id > row.id}) < MaxSelected}

(* order by id, at most MaxSelected rows.                                  *)
FirstRows(S) == {row \in S : Cardinality({r \in S : r.id < row.id}) < MaxSelected}

(* The rows are selected and sent to a trapper of the master.              *)
send_to_node(n) ==
    /\ n > 1
    /\ IF table = ZBX_HISTORY_SYNC THEN watcher[n] = Nobody ELSE watcher[n] # Nobody /\ watcher[n].step = "select"
    /\ LET above == IF table = ZBX_HISTORY_SYNC THEN 0 ELSE watcher[n].lastid
           data == FirstRows({row \in Rows(n) : row.id > above})
       IN  IF data = {}
           THEN /\ table = ZBX_HISTORY
                /\ watcher' = [watcher EXCEPT ![n] = Nobody]
                /\ UNCHANGED trapper
           ELSE /\ watcher' = [watcher EXCEPT ![n] = [step |-> "recv", lastid |-> Max({row.id : row \in data})]]
                /\ trapper' = [trapper EXCEPT ![n - 1] =
                                  @ \cup {[step |-> "insert", alive |-> TRUE, rows |-> data, no |-> stops]}]
    /\ UNCHANGED <<table, values, inserted, copied, late, stops>>

(* Mutant: all rows of the table are deleted.                              *)
AllDeleted(n, lastid) == {}

(* What the delete leaves, after OK.                                       *)
AfterDelete(n, lastid) == {row \in sync[n] : row.id > lastid}

DeleteSent(n) ==
    /\ watcher[n] # Nobody /\ watcher[n].step = "OK"
    /\ sync' = [sync EXCEPT ![n] = AfterDelete(n, watcher[n].lastid)]
    /\ watcher' = [watcher EXCEPT ![n] = Nobody]
    /\ UNCHANGED <<table, values, inserted, hist, ids, trapper, late, stops>>

(* The connection was closed without an answer.                            *)
NotOK(n) ==
    /\ watcher[n] # Nobody /\ watcher[n].step = "recv"
    /\ ~ \E t \in trapper[n - 1] : t.alive
    /\ watcher' = [watcher EXCEPT ![n] = Nobody]
    /\ UNCHANGED <<table, values, inserted, copied, trapper, late, stops>>

process_history_table_data(n) == get_history_lastid(n) \/ send_to_node(n) \/ DeleteSent(n) \/ NotOK(n)

-----------------------------------------------------------------------------
(* A trapper t of n, the master of n + 1: node_history.                    *)
Becomes(n, t, u) == trapper' = [trapper EXCEPT ![n] = (@ \ {t}) \cup u]

(* The rows of a master's own *_sync table, numbered in their order.       *)
Renumbered(n, data) ==
    {[id |-> ids[n] + Cardinality({r \in data : r.id <= row.id}), value |-> row.value] : row \in data}

(* A row of ZBX_HISTORY with an id that another transaction has inserted   *)
(* waits for its end, and fails when it is committed: all is rolled back.  *)
Inserts(n, t) ==
    /\ t \in trapper[n] /\ t.step = "insert"
    /\ IF table = ZBX_HISTORY_SYNC
       THEN /\ Becomes(n, t, {[t EXCEPT !.step = "commit", !.rows = IF n > 1 THEN Renumbered(n, @) ELSE @]})
            /\ ids' = [ids EXCEPT ![n] = @ + Cardinality(t.rows)]
       ELSE /\ ~ \E u \in trapper[n] : u.step = "commit" /\ u.rows \cap t.rows # {}
            /\ Becomes(n, t, IF Values(t.rows) \cap BagToSet(hist[n]) # {} THEN {}
                             ELSE {[t EXCEPT !.step = "commit"]})
            /\ UNCHANGED ids
    /\ UNCHANGED <<table, values, inserted, hist, sync, watcher, late, stops>>

Commits(n, t) ==
    /\ t \in trapper[n] /\ t.step = "commit"
    /\ MadeVisible(n, t.rows)
    /\ Becomes(n, t, {[t EXCEPT !.step = "answer"]})
    /\ UNCHANGED <<table, values, inserted, ids, watcher, stops>>

AnswersOK(n, t) ==
    /\ t \in trapper[n] /\ t.step = "answer"
    /\ Becomes(n, t, {})
    /\ watcher' = [watcher EXCEPT ![n + 1] = IF t.alive THEN [@ EXCEPT !.step = "OK"] ELSE @]
    /\ UNCHANGED <<table, values, inserted, copied, late, stops>>

node_history(n, t) == Inserts(n, t) \/ Commits(n, t) \/ AnswersOK(n, t)

-----------------------------------------------------------------------------
(* Faults.                                                                 *)

(* The node watcher of n is stopped, or its connection breaks; its trapper *)
(* goes on.                                                                *)
StopWatcher(n) ==
    /\ stops < MaxStops
    /\ watcher[n] # Nobody
    /\ watcher' = [watcher EXCEPT ![n] = Nobody]
    /\ trapper' = [trapper EXCEPT ![n - 1] = {[t EXCEPT !.alive = FALSE] : t \in @}]
    /\ stops' = stops + 1
    /\ UNCHANGED <<table, values, inserted, copied, late>>

(* A trapper is stopped: what it has not committed is rolled back.         *)
StopTrapper(n, t) ==
    /\ stops < MaxStops
    /\ Becomes(n, t, {})
    /\ stops' = stops + 1
    /\ UNCHANGED <<table, values, inserted, copied, watcher, late>>

-----------------------------------------------------------------------------
HistoryNext ==
    \/ \E w \in HistoryWriters : DCmass_add_history(w) \/ HistoryCommit(w)
    \/ \E n \in Nodes :
          \/ process_history_table_data(n) \/ StopWatcher(n)
          \/ \E t \in trapper[n] : node_history(n, t) \/ StopTrapper(n, t)

HistorySpec == HistoryInit /\ [][HistoryNext]_historyVars

(* Node watchers start again every 10 seconds, trappers finish; a node     *)
(* watcher asks for the last id again and again.                           *)
HistoryFairSpec ==
    /\ HistorySpec
    /\ \A n \in Nodes :
          /\ WF_historyVars(process_history_table_data(n))
          /\ WF_historyVars(\E t \in trapper[n] : node_history(n, t))
-----------------------------------------------------------------------------
(* Properties.                                                             *)

(* N, also for the states of a longer chain.                               *)
Last == CHOOSE n \in DOMAIN hist : n + 1 \notin DOMAIN hist

Times(n, v) == IF BagIn(v, hist[n]) THEN hist[n][v] ELSE 0

(* The value will still be selected by the node watcher of a node below n. *)
StillToSend(n, v) ==
    IF table = ZBX_HISTORY_SYNC
    THEN \E m \in DOMAIN sync : m > n /\ v \in Values(sync[m])
    ELSE v > LastIdAt(n)

(* Each value of the node is at each of its masters, or is still to be     *)
(* sent there, whatever was stopped or rolled back; and is there once      *)
(* unless an answer was lost.  Left out are values that became visible     *)
(* after a larger id had been read: the delete of the sent rows takes them *)
(* with it, or the master's last id is beyond them.                        *)
HistoryAccounted ==
    \A v \in BagToSet(hist[Last]) \ late, n \in DOMAIN hist \ {Last} :
        \/ Times(n, v) = 0 /\ StillToSend(n, v)
        \/ Times(n, v) = 1
        \/ Times(n, v) > 1 /\ stops > 0

(* Every other value has come to the first master.                         *)
AllArrived == BagToSet(hist[Last]) \subseteq BagToSet(hist[1]) \cup late
=============================================================================
