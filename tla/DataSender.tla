----------------------------- MODULE DataSender -----------------------------
(***************************************************************************)
(* How a Zabbix proxy delivers its history to the server: db syncers       *)
(* insert rows into proxy_history, the data sender                         *)
(* (src/zabbix_proxy/datasender/datasender.c) sends them in batches and    *)
(* keeps the id of the last row it sent in the table ids, a trapper of the *)
(* server takes them in and answers, and the housekeeper of the proxy      *)
(* (src/zabbix_proxy/housekeeper/housekeeper.c) deletes old rows.          *)
(*                                                                         *)
(* Connections break, answers are lost or late, processes of both sides    *)
(* are stopped.  A trapper does not notice that the sender has given up:   *)
(* it may still be busy with a request when the rows are sent again.       *)
(*                                                                         *)
(* The items of the rows stay configured.  proxy_dhistory is sent by the   *)
(* same steps and is left out.                                             *)
(***************************************************************************)
EXTENDS Integers, Sequences, FiniteSets

CONSTANTS
    Writers,            \* db syncers of the proxy
    Trappers,           \* trappers of the server
    Items,
    MAX_HRECORDS,       \* rows of one request
    OFFLINE_BUFFER, LOCAL_BUFFER, HOUSEKEEPING_FREQUENCY,   \* in hours
    MaxRows, MaxClock, MaxFailures,     \* bounds
    None

ASSUME SenderAssumption ==
    /\ MAX_HRECORDS \in Nat \ {0}
    /\ OFFLINE_BUFFER \in Nat /\ LOCAL_BUFFER \in Nat /\ HOUSEKEEPING_FREQUENCY \in Nat
    /\ MaxRows \in Nat /\ MaxClock \in Nat /\ MaxFailures \in Nat
    /\ None \notin Trappers /\ None \notin Nat

Row == [id : Nat, itemid : Items, clock : Nat]

VARIABLES
    now,                \* the hour
    rows,               \* the auto_increment of proxy_history
    open,               \* rows of each writer's open transaction
    proxy_history,      \* committed rows
    nextid,             \* ids.nextid of history_lastid, None when there is no such row
    pc, j,              \* the data sender: its step, the rows in its request
    conn, answer,       \* the trapper at the other end, whether its answer is on the way
    todo,               \* each trapper: the rows it still has to process, None when idle
    received,           \* rows in the order in which the server first processed them
    hk,                 \* what the housekeeper has read, None when it sleeps
    deleted,            \* rows the housekeeper deleted
    failures            \* failures so far

sender   == <<pc, j, conn, answer>>
server   == <<todo, received>>
cleaning == <<hk, deleted>>
vars == <<now, rows, open, proxy_history, nextid, sender, server, cleaning, failures>>

Init ==
    /\ now = 0
    /\ rows = 0
    /\ open = [w \in Writers |-> {}]
    /\ proxy_history = {}
    /\ nextid = None
    /\ pc = "sleep" /\ j = {} /\ conn = None /\ answer = FALSE
    /\ todo = [t \in Trappers |-> None]
    /\ received = <<>>
    /\ hk = None
    /\ deleted = {}
    /\ failures = 0

Received == {received[k] : k \in 1 .. Len(received)}

Tick ==
    /\ now < MaxClock
    /\ now' = now + 1
    /\ UNCHANGED <<rows, open, proxy_history, nextid, sender, server, cleaning, failures>>

(* The database gives out the id when the row is inserted; others see the  *)
(* row when the transaction commits.                                       *)
DCmass_proxy_add_history(w) ==
    /\ rows < MaxRows
    /\ \E i \in Items :
          open' = [open EXCEPT ![w] = @ \cup {[id |-> rows + 1, itemid |-> i, clock |-> now]}]
    /\ rows' = rows + 1
    /\ UNCHANGED <<now, proxy_history, nextid, sender, server, cleaning, failures>>

DBcommit(w) ==
    /\ open[w] # {}
    /\ proxy_history' = proxy_history \cup open[w]
    /\ open' = [open EXCEPT ![w] = {}]
    /\ UNCHANGED <<now, rows, nextid, sender, server, cleaning, failures>>

-----------------------------------------------------------------------------
(* The data sender.                                                        *)

(* Mutant: without a row of ids the rows that are there count as sent.     *)
get_lastidNewest == IF nextid = None THEN rows ELSE nextid

get_lastid == IF nextid = None THEN 0 ELSE nextid

Unsent == {r \in proxy_history : r.id > get_lastid}

(* order by p.id, at most ZBX_MAX_HRECORDS rows.                           *)
FirstOf(S) == {r \in S : Cardinality({q \in S : q.id < r.id}) < MAX_HRECORDS}

LastId(S) == CHOOSE m \in {r.id : r \in S} : \A r \in S : r.id <= m

(* main_datasender_loop: the end of the sleep.                             *)
Wake ==
    /\ pc = "sleep"
    /\ pc' = "select"
    /\ UNCHANGED <<now, rows, open, proxy_history, nextid, j, conn, answer, server, cleaning, failures>>

(* get_history_data, called by history_sender.                             *)
get_history_data ==
    /\ pc = "select"
    /\ j' = FirstOf(Unsent)
    /\ pc' = IF Unsent = {} THEN "sleep" ELSE "connect"
    /\ UNCHANGED <<now, rows, open, proxy_history, nextid, conn, answer, server, cleaning, failures>>

(* connect_to_server and send_data_to_server.  If no connection is made    *)
(* the sender sleeps and tries again with the same request.                *)
Connect(t) ==
    /\ pc = "connect"
    /\ todo[t] = None
    /\ todo' = [todo EXCEPT ![t] = j]
    /\ conn' = t
    /\ pc' = "recv"
    /\ UNCHANGED <<now, rows, open, proxy_history, nextid, j, answer, received, cleaning, failures>>

(* disconnect_server, and back to the main loop.                           *)
Disconnect ==
    /\ pc' = "sleep"
    /\ j' = {}
    /\ conn' = None
    /\ answer' = FALSE

Fail ==
    /\ failures < MaxFailures
    /\ failures' = failures + 1

SendFail ==
    /\ pc = "connect"
    /\ Fail
    /\ Disconnect
    /\ UNCHANGED <<now, rows, open, proxy_history, nextid, server, cleaning>>

(* recv_data_from_server fails: the connection was closed by the other     *)
(* end, or the answer was lost or came too late.                           *)
RecvFail ==
    /\ pc = "recv"
    /\ IF conn = None THEN UNCHANGED failures ELSE Fail
    /\ Disconnect
    /\ UNCHANGED <<now, rows, open, proxy_history, nextid, server, cleaning>>

put_data_to_server ==
    /\ pc = "recv"
    /\ answer
    /\ pc' = "set_lastid"
    /\ UNCHANGED <<now, rows, open, proxy_history, nextid, j, conn, answer, server, cleaning, failures>>

(* Mutant: the last id is stored as soon as the request is sent.           *)
set_lastidUnanswered ==
    /\ pc \in {"recv", "set_lastid"}
    /\ nextid' = LastId(j)
    /\ Disconnect
    /\ UNCHANGED <<now, rows, open, proxy_history, server, cleaning, failures>>

set_lastid ==
    /\ pc = "set_lastid"
    /\ nextid' = LastId(j)
    /\ Disconnect
    /\ UNCHANGED <<now, rows, open, proxy_history, server, cleaning, failures>>

(* The proxy is stopped and started again: open transactions are rolled    *)
(* back, the sender forgets what it was doing.                             *)
Restart ==
    /\ Fail
    /\ open' = [w \in Writers |-> {}]
    /\ Disconnect
    /\ hk' = None
    /\ UNCHANGED <<now, rows, proxy_history, nextid, server, deleted>>

-----------------------------------------------------------------------------
(* A trapper of the server: process_proxy_values.                          *)

(* Mutant: the values of an item are processed in any order.               *)
NextValuesUnordered(S) == S

(* process_mass_data goes through the items it finds and, for each, through *)
(* the values of the request: those of an item in their order.             *)
NextValues(S) == {r \in S : \A q \in S : q.itemid = r.itemid => q.id >= r.id}

process_mass_data(t) ==
    /\ todo[t] # None
    /\ \E r \in NextValues(todo[t]) :
          /\ todo' = [todo EXCEPT ![t] = @ \ {r}]
          /\ received' = IF r \in Received THEN received ELSE Append(received, r)
    /\ UNCHANGED <<now, rows, open, proxy_history, nextid, sender, cleaning, failures>>

send_result(t) ==
    /\ todo[t] = {}
    /\ answer' = (answer \/ conn = t)
    /\ todo' = [todo EXCEPT ![t] = None]
    /\ UNCHANGED <<now, rows, open, proxy_history, nextid, pc, j, conn, received, cleaning, failures>>

(* The trapper closes the connection without an answer: the proxy is not   *)
(* known, or the server is stopped.                                        *)
TrapperExit(t) ==
    /\ todo[t] # None
    /\ Fail
    /\ todo' = [todo EXCEPT ![t] = None]
    /\ conn' = IF conn = t THEN None ELSE conn
    /\ UNCHANGED <<now, rows, open, proxy_history, nextid, pc, j, answer, received, cleaning>>

-----------------------------------------------------------------------------
(* The housekeeper of the proxy: delete_history.                           *)

(* What it reads first; without a last id or without rows it rolls back.   *)
HousekeeperRead ==
    /\ hk = None
    /\ nextid # None
    /\ \E m \in proxy_history :
          /\ \A r \in proxy_history : m.clock <= r.clock
          /\ hk' = [now |-> now, lastid |-> nextid, minclock |-> m.clock]
    /\ UNCHANGED <<now, rows, open, proxy_history, nextid, sender, server, deleted, failures>>

(* Mutant: rows that are not sent yet are treated as the sent ones.        *)
OutdatedUnsent(r) ==
    \/ r.clock < hk.now - OFFLINE_BUFFER
    \/ /\ r.clock < hk.now - LOCAL_BUFFER
       /\ r.clock < hk.minclock + 4 * HOUSEKEEPING_FREQUENCY

(* The condition of the delete: MIN(now - local buffer, minclock + 4 * ...) *)
(* for the rows before the last one sent.                                  *)
Outdated(r) ==
    \/ r.clock < hk.now - OFFLINE_BUFFER
    \/ /\ r.id < hk.lastid
       /\ r.clock < hk.now - LOCAL_BUFFER
       /\ r.clock < hk.minclock + 4 * HOUSEKEEPING_FREQUENCY

delete_history ==
    /\ hk # None
    /\ LET gone == {r \in proxy_history : Outdated(r)}
       IN  /\ proxy_history' = proxy_history \ gone
           /\ deleted' = deleted \cup gone
    /\ hk' = None
    /\ UNCHANGED <<now, rows, open, nextid, sender, server, failures>>

-----------------------------------------------------------------------------
Send ==
    \/ Wake \/ get_history_data \/ put_data_to_server \/ set_lastid
    \/ \E t \in Trappers : Connect(t)

Trap(t) == process_mass_data(t) \/ send_result(t)

Next ==
    \/ Tick
    \/ \E w \in Writers : DCmass_proxy_add_history(w) \/ DBcommit(w)
    \/ Send \/ SendFail \/ RecvFail \/ Restart
    \/ \E t \in Trappers : Trap(t) \/ TrapperExit(t)
    \/ HousekeeperRead \/ delete_history

Spec == Init /\ [][Next]_vars

(* Both sides keep running, and failures are finitely many (MaxFailures).  *)
(* The sender notices a connection that the other end has closed.          *)
FairSpec ==
    /\ Spec
    /\ WF_vars(Send)
    /\ WF_vars(conn = None /\ RecvFail)
    /\ \A t \in Trappers : WF_vars(Trap(t))

-----------------------------------------------------------------------------
(* Properties.                                                             *)

(* The last id never runs ahead of the server: with one db syncer every    *)
(* row up to it was processed by a trapper, whatever was lost or repeated. *)
(* A row that the sender passes over is never sent.                        *)
SentReceived ==
    \A r \in proxy_history \cup UNION {open[w] : w \in Writers} :
        r.id <= get_lastid => r \in Received

(* The server first sees the values of an item in the order in which the   *)
(* proxy stored them, although an old request may still be in process.     *)
(* Only a row that the proxy has given up as too old may come late.        *)
FirstReceiptsInOrder ==
    \A a, b \in 1 .. Len(received) :
        a < b /\ received[a].itemid = received[b].itemid
            => received[a].id < received[b].id \/ received[b] \in deleted

(* zabbix_proxy.conf, ProxyOfflineBuffer: "Offline buffer size in hours.   *)
(* It is used when server is not available. Older data is removed."  A row *)
(* that the server did not get is deleted only when it is older than that. *)
UnsentKept ==
    \A r \in deleted : r \in Received \/ r.clock < now - OFFLINE_BUFFER

(* Every committed row reaches the server or becomes too old.              *)
EventuallyReceived ==
    \A id \in 1 .. MaxRows :
        (\E r \in proxy_history : r.id = id)
            ~> \E r \in Received \cup deleted : r.id = id
=============================================================================
