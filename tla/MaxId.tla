------------------------------- MODULE MaxId --------------------------------
(***************************************************************************)
(* DBget_maxid_num (src/libs/zbxdbhigh/db.c): how the processes of the     *)
(* server, each with its own database connection, draw ids for the rows of *)
(* one table from the counter that the table ids keeps for it.  No lock is *)
(* taken: a process reads the counter, adds num to it, reads it again, and *)
(* keeps the num ids if nobody else changed it in between.                 *)
(*                                                                         *)
(* Every step is one SQL statement.  The caller then inserts rows with its *)
(* ids, which is when select max() can see them.                           *)
(***************************************************************************)
EXTENDS Integers, FiniteSets

CONSTANTS
    Processes,              \* processes of the server
    Nums,               \* how many ids a caller asks for
    MIN, MAX,           \* first and last id of the node
    Existing            \* the ids that the table starts with

ASSUME MaxIdAssumption ==
    /\ Nums \subseteq Nat \ {0}
    /\ MIN \in Nat /\ MAX \in Nat /\ MIN < MAX
    /\ Existing \subseteq MIN .. MAX

VARIABLES
    nextid,             \* ids.nextid, Missing when there is no such row
    table,              \* the ids in use as keys of the table
    stmt, num, ret1,    \* each process: its step, its request, what it read
    ids,                \* the ids it was given and has not inserted yet
    deleted             \* the counter has left its range and was deleted

idVars == <<nextid, table, stmt, num, ret1, ids, deleted>>

Missing == -1

MaxIdInit ==
    /\ table = Existing
    /\ nextid \in {Missing} \cup {x \in MIN .. MAX : \A i \in Existing : i <= x}
    /\ stmt = [p \in Processes |-> "idle"]
    /\ num \in [Processes -> Nums]
    /\ ret1 = [p \in Processes |-> 0]
    /\ ids = [p \in Processes |-> {}]
    /\ deleted = FALSE

Goto(p, label) == stmt' = [stmt EXCEPT ![p] = label]

Request(p) ==
    /\ stmt[p] = "idle"
    /\ \E k \in Nums : num' = [num EXCEPT ![p] = k]
    /\ Goto(p, "select")
    /\ UNCHANGED <<nextid, table, ret1, ids, deleted>>

(* The select at the top of the loop.                                      *)
Select(p) ==
    /\ stmt[p] = "select"
    /\ IF nextid = Missing
       THEN Goto(p, "select_max") /\ UNCHANGED ret1
       ELSE /\ ret1' = [ret1 EXCEPT ![p] = nextid]
            /\ Goto(p, IF nextid < MIN \/ nextid >= MAX THEN "delete" ELSE "update")
    /\ UNCHANGED <<nextid, table, num, ids, deleted>>

(* No counter: it starts from the largest id in use.  With none left the   *)
(* process exits.                                                          *)
InUse == {i \in table : MIN <= i /\ i <= MAX}

SelectMax(p) ==
    /\ stmt[p] = "select_max"
    /\ \/ /\ InUse = {}
          /\ ret1' = [ret1 EXCEPT ![p] = MIN]
          /\ Goto(p, "insert")
       \/ \E m \in InUse :
             /\ \A i \in InUse : i <= m
             /\ ret1' = [ret1 EXCEPT ![p] = m]
             /\ Goto(p, IF m >= MAX THEN "exit" ELSE "insert")
    /\ UNCHANGED <<nextid, table, num, ids, deleted>>

Insert(p) ==
    /\ stmt[p] = "insert"
    /\ IF nextid = Missing
       THEN nextid' = ret1[p] /\ Goto(p, "select")
       ELSE UNCHANGED nextid /\ Goto(p, "bump")
    /\ UNCHANGED <<table, num, ret1, ids, deleted>>

(* The insert failed, a parallel transaction has created the counter.      *)
Bump(p) ==
    /\ stmt[p] = "bump"
    /\ nextid' = IF nextid = Missing THEN Missing ELSE nextid + 1
    /\ Goto(p, "select")
    /\ UNCHANGED <<table, num, ret1, ids, deleted>>

(* The counter is out of the node's range.                                 *)
Delete(p) ==
    /\ stmt[p] = "delete"
    /\ nextid' = Missing
    /\ deleted' = TRUE
    /\ Goto(p, "select")
    /\ UNCHANGED <<table, num, ret1, ids>>

Update(p) ==
    /\ stmt[p] = "update"
    /\ nextid' = IF nextid = Missing THEN Missing ELSE nextid + num[p]
    /\ Goto(p, "reselect")
    /\ UNCHANGED <<table, num, ret1, ids, deleted>>

(* Mutant: what the other processes did in between is not noticed.         *)
ReselectUnchecked(p) ==
    /\ stmt[p] = "reselect"
    /\ IF nextid # Missing
       THEN /\ ids' = [ids EXCEPT ![p] = (nextid - num[p] + 1) .. nextid]
            /\ Goto(p, "insert_rows")
       ELSE Goto(p, "select") /\ UNCHANGED ids
    /\ UNCHANGED <<nextid, table, num, ret1, deleted>>

(* The second select: ret2 is nextid.  The ids from ret2 - num + 1 are the *)
(* process's if the counter moved by num since the first select.           *)
Reselect(p) ==
    /\ stmt[p] = "reselect"
    /\ IF nextid # Missing /\ ret1[p] + num[p] = nextid
       THEN /\ ids' = [ids EXCEPT ![p] = (nextid - num[p] + 1) .. nextid]
            /\ Goto(p, "insert_rows")
       ELSE Goto(p, "select") /\ UNCHANGED ids
    /\ UNCHANGED <<nextid, table, num, ret1, deleted>>

(* The caller: insert into ... with the new ids.                           *)
InsertRows(p) ==
    /\ stmt[p] = "insert_rows"
    /\ table' = table \cup ids[p]
    /\ ids' = [ids EXCEPT ![p] = {}]
    /\ Goto(p, "idle")
    /\ UNCHANGED <<nextid, num, ret1, deleted>>

Step(p) ==
    \/ Request(p) \/ Select(p) \/ SelectMax(p) \/ Insert(p) \/ Bump(p)
    \/ Delete(p) \/ Update(p) \/ Reselect(p) \/ InsertRows(p)

MaxIdNext == \E p \in Processes : Step(p)

MaxIdSpec == MaxIdInit /\ [][MaxIdNext]_idVars

-----------------------------------------------------------------------------
IdsTypeOK ==
    /\ nextid \in Nat \cup {Missing}
    /\ table \subseteq Nat
    /\ stmt \in [Processes -> {"idle", "select", "select_max", "insert", "bump", "delete",
                               "update", "reselect", "insert_rows", "exit"}]
    /\ num \in [Processes -> Nums]
    /\ ret1 \in [Processes -> Nat]
    /\ ids \in [Processes -> SUBSET Nat]
    /\ deleted \in BOOLEAN

(* The ids that DBget_maxid_num gives to a process are neither given to    *)
(* another one nor in use in the table, for as long as the counter has not *)
(* run out of the node's range.  (When it has, the counter is rebuilt from *)
(* the rows of the table, which do not yet show the ids just given out.)   *)
UniqueIds ==
    ~deleted =>
        /\ \A p \in Processes : ids[p] \cap table = {}
        /\ \A p, q \in Processes : p # q => ids[p] \cap ids[q] = {}
=============================================================================
