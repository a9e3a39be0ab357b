----------------------------- MODULE NodeConfig -----------------------------
(***************************************************************************)
(* The configuration of a node of a distributed setup is kept by the node  *)
(* and by its masters, and may be edited at each of them.  The node        *)
(* watcher of a node (nodewatcher/nodesender.c) sends its changes to a     *)
(* trapper of its master (trapper/trapper.c, nodesync.c), which answers    *)
(* with its own.  What a side has is told from the check sums of the       *)
(* fields in node_cksum: those of before (OLD) and of now (NEW), and the   *)
(* characters of the column sync.                                          *)
(*                                                                         *)
(* The nodes are 1 .. N, each the master of the next; one record of the    *)
(* last one's configuration is followed.  A value stands for its check     *)
(* sum.  No transaction is used: users edit between any two statements.    *)
(***************************************************************************)
EXTENDS Integers, Sequences, FiniteSets

CONSTANTS
    N,
    Fields, First,      \* the fields of the record, and the first one
    Nil,
    Default,            \* of the columns, unlike what users enter
    MaxEdits, MaxBreaks  \* bounds

VARIABLES
    rec,                \* at each node: the record, Nil when absent
    old,                \* its row of node_cksum with the type OLD: [ck, sync]
    new,                \* and that with the type NEW
    watcher,            \* the node watcher: [step, data], or Nil
    waiting,            \* trappers that wait for node_sync_lock, in its order
    trapper,            \* the one that holds it: [step, alive, data], or Nil
    edits, breaks,
    writers, last,      \* of each field: who edited it, the last value
    gap                 \* what happened between a value and its check sum

copies == <<rec, old, new>>
processes == <<watcher, waiting, trapper>>
edited == <<edits, writers, last>>
nodeVars == <<copies, processes, edited, breaks, gap>>

Nodes == 1 .. N
MASTER == "master"
SLAVE == "slave"

Nothing == [op |-> "none"]
Added == [f \in Fields |-> 0]      \* the record as its user adds it
Blank == [f \in Fields |-> [s \in {SLAVE, MASTER} |-> " "]]
Synced == [f \in Fields |-> [s \in {SLAVE, MASTER} |-> "1"]]

(* All nodes have the record, or it was just added at one of them.         *)
NodesInit ==
    /\ \/ /\ rec = [n \in Nodes |-> Added]
          /\ old = [n \in Nodes |-> [ck |-> Added, sync |-> Synced]]
          /\ writers = [f \in Fields |-> {}]
       \/ \E e \in Nodes :
             /\ rec = [n \in Nodes |-> IF n = e THEN Added ELSE Nil]
             /\ old = [n \in Nodes |-> Nil]
             /\ writers = [f \in Fields |-> {e}]
    /\ new = [n \in Nodes |-> Nil]
    /\ watcher = [n \in Nodes |-> Nil]
    /\ waiting = [n \in Nodes |-> <<>>]
    /\ trapper = [n \in Nodes |-> Nil]
    /\ edits = 0 /\ breaks = 0
    /\ last = Added
    /\ gap = {}

-----------------------------------------------------------------------------
(* Mutant: all the fields of the record, as the other side has changed.    *)
ChangedAll(prev, curr, dest) == Fields

(* The fields that the side dest is not known to have.                     *)
Changed(prev, curr, dest) ==
    {f \in Fields : prev = Nil \/ prev.sync[f][dest] # "1" \/ prev.ck[f] # curr[f]}

(* get_config_data: what is sent to the side dest.                         *)
get_config_data(n, dest) ==
    LET prev == old[n]
        curr == new[n]
        changed == Changed(prev, curr, dest)
    IN  IF curr = Nil
        THEN IF prev # Nil /\ prev.sync[First][dest] # "2" THEN [op |-> "delete"] ELSE Nothing
        ELSE IF changed = {} \/ rec[n] = Nil THEN Nothing
             ELSE [op |-> "update", values |-> [f \in changed |-> rec[n][f]]]

(* The characters of a field whose check sum is now known to a side.  When *)
(* it has changed the other side does not have it.                         *)
(* Mutant: the other side's character is left.                             *)
MarkedOne(sync, side, same) == [sync EXCEPT ![side] = "1"]

Marked(sync, side, same) ==
    IF same THEN [sync EXCEPT ![side] = "1"] ELSE [s \in {SLAVE, MASTER} |-> IF s = side THEN "1" ELSE " "]

(* update_checksums for the fields of a list, with SUCCEED: the row OLD.   *)
(* What the code leaves of a deleted record has no check sums.             *)
update_checksums(prev, curr, side, list) ==
    LET ck == IF prev = Nil THEN [f \in Fields |-> Nil] ELSE prev.ck
        sync == IF prev = Nil THEN Blank ELSE prev.sync
    IN  IF curr = Nil
        THEN IF prev = Nil THEN Nil
             ELSE [ck |-> [f \in Fields |-> Nil],
                   sync |-> [Blank EXCEPT ![First] = [sync[First] EXCEPT ![side] = "2"]]]
        ELSE [ck |-> [f \in Fields |-> IF f \in list THEN curr[f] ELSE ck[f]],
              sync |-> [f \in Fields |-> IF f \in list THEN Marked(sync[f], side, ck[f] = curr[f]) ELSE sync[f]]]

(* process_record until its check sums: the record that was received.      *)
Stored(r, data) ==
    CASE data.op = "none" -> r
      [] data.op = "delete" -> Nil
      [] data.op = "update" ->
            [f \in Fields |-> IF f \in DOMAIN data.values THEN data.values[f] ELSE IF r = Nil THEN Default ELSE r[f]]

AfterStored(data) == IF data.op = "update" THEN "sign" ELSE "stored"

(* calculate_checksums and update_checksums of the record received.        *)
Sign(n, side, data) ==
    /\ old' = [old EXCEPT ![n] = update_checksums(@, rec[n], side, DOMAIN data.values)]
    /\ new' = [new EXCEPT ![n] = IF old[n] = Nil THEN Nil ELSE rec[n]]

Locked(n) == watcher[n] # Nil \/ trapper[n] # Nil

-----------------------------------------------------------------------------
(* The node watcher of n, a slave of n - 1: process_nodes.                 *)
calculate_checksums(n) ==
    /\ n > 1
    /\ ~Locked(n)
    /\ new' = [new EXCEPT ![n] = rec[n]]
    /\ watcher' = [watcher EXCEPT ![n] = [step |-> "collect", data |-> Nothing]]
    /\ UNCHANGED <<rec, old, waiting, trapper, edited, breaks, gap>>

SendChanges(n) ==
    /\ watcher[n] # Nil /\ watcher[n].step = "collect"
    /\ watcher' = [watcher EXCEPT ![n].step = "wait"]
    /\ waiting' = [waiting EXCEPT ![n - 1] = Append(@, [data |-> get_config_data(n, MASTER), alive |-> TRUE])]
    /\ UNCHANGED <<copies, trapper, edited, breaks, gap>>

(* The answer has come.                                                    *)
ReadAnswer(n) ==
    /\ watcher[n] # Nil /\ watcher[n].step = "answer"
    /\ old' = [old EXCEPT ![n] = update_checksums(@, new[n], MASTER, Fields)]
    /\ new' = [new EXCEPT ![n] = Nil]
    /\ rec' = [rec EXCEPT ![n] = Stored(@, watcher[n].data)]
    /\ watcher' = [watcher EXCEPT ![n].step = AfterStored(watcher[n].data)]
    /\ UNCHANGED <<waiting, trapper, edited, breaks, gap>>

SignAnswer(n) ==
    /\ watcher[n] # Nil /\ watcher[n].step = "sign"
    /\ Sign(n, MASTER, watcher[n].data)
    /\ watcher' = [watcher EXCEPT ![n].step = "stored"]
    /\ UNCHANGED <<rec, waiting, trapper, edited, breaks, gap>>

(* OK is sent to the master.                                               *)
EndExchange(n) ==
    /\ watcher[n] # Nil /\ watcher[n].step = "stored"
    /\ watcher' = [watcher EXCEPT ![n] = Nil]
    /\ trapper' = [trapper EXCEPT ![n - 1] = IF @ # Nil /\ @.alive THEN [@ EXCEPT !.step = "OK", !.alive = FALSE] ELSE @]
    /\ UNCHANGED <<copies, waiting, edited, breaks, gap>>

-----------------------------------------------------------------------------
(* A trapper of n that has read "Data" of its slave n + 1.                 *)
node_sync(n) ==
    /\ waiting[n] # <<>>
    /\ ~Locked(n)
    /\ LET request == Head(waiting[n])
       IN  /\ new' = [new EXCEPT ![n] = Nil]
           /\ rec' = [rec EXCEPT ![n] = Stored(@, request.data)]
           /\ trapper' = [trapper EXCEPT ![n] = [step |-> AfterStored(request.data), alive |-> request.alive,
                                                 data |-> request.data]]
    /\ waiting' = [waiting EXCEPT ![n] = Tail(@)]
    /\ UNCHANGED <<old, watcher, edited, breaks, gap>>

SignChanges(n) ==
    /\ trapper[n] # Nil /\ trapper[n].step = "sign"
    /\ Sign(n, SLAVE, trapper[n].data)
    /\ trapper' = [trapper EXCEPT ![n].step = "stored"]
    /\ UNCHANGED <<rec, watcher, waiting, edited, breaks, gap>>

CalculateAnswer(n) ==
    /\ trapper[n] # Nil /\ trapper[n].step = "stored"
    /\ new' = [new EXCEPT ![n] = rec[n]]
    /\ trapper' = [trapper EXCEPT ![n].step = "collect"]
    /\ UNCHANGED <<rec, old, watcher, waiting, edited, breaks, gap>>

SendAnswer(n) ==
    /\ trapper[n] # Nil /\ trapper[n].step = "collect"
    /\ IF trapper[n].alive
       THEN /\ watcher' = [watcher EXCEPT ![n + 1] = [step |-> "answer", data |-> get_config_data(n, SLAVE)]]
            /\ trapper' = [trapper EXCEPT ![n].step = "wait"]
       ELSE trapper' = [trapper EXCEPT ![n] = Nil] /\ UNCHANGED watcher
    /\ UNCHANGED <<copies, waiting, edited, breaks, gap>>

(* OK has come, or the connection is closed.                               *)
EndAnswer(n) ==
    /\ trapper[n] # Nil
    /\ \/ /\ trapper[n].step = "OK"
          /\ old' = [old EXCEPT ![n] = update_checksums(@, new[n], SLAVE, Fields)]
          /\ new' = [new EXCEPT ![n] = IF old[n] = Nil THEN Nil ELSE @]
       \/ trapper[n].step = "wait" /\ ~trapper[n].alive /\ UNCHANGED <<old, new>>
    /\ trapper' = [trapper EXCEPT ![n] = Nil]
    /\ UNCHANGED <<rec, watcher, waiting, edited, breaks, gap>>

-----------------------------------------------------------------------------
(* Faults and users.                                                       *)

(* The trapper of n finds the connection to its slave closed.              *)
Closed(n) ==
    /\ waiting' = [waiting EXCEPT ![n] = [k \in DOMAIN @ |-> [@[k] EXCEPT !.alive = FALSE]]]
    /\ trapper' = [trapper EXCEPT ![n] = IF @ = Nil THEN Nil ELSE [@ EXCEPT !.alive = FALSE]]

(* A connection breaks or the node watcher is stopped.                     *)
StopWatcher(n) ==
    /\ breaks < MaxBreaks
    /\ watcher[n] # Nil
    /\ watcher' = [watcher EXCEPT ![n] = Nil]
    /\ Closed(n - 1)
    /\ breaks' = breaks + 1
    /\ gap' = IF watcher[n].step = "sign" THEN gap \cup {"stop"} ELSE gap
    /\ UNCHANGED <<copies, edited>>

(* A trapper is stopped; the slave finds out when it waits for the answer. *)
StopTrapper(n) ==
    /\ breaks < MaxBreaks
    /\ trapper[n] # Nil
    /\ trapper' = [trapper EXCEPT ![n] = Nil]
    /\ watcher' = [watcher EXCEPT ![n + 1] = IF trapper[n].alive /\ @.step = "wait" THEN Nil ELSE @]
    /\ breaks' = breaks + 1
    /\ gap' = IF trapper[n].step = "sign" THEN gap \cup {"stop"} ELSE gap
    /\ UNCHANGED <<copies, waiting, edited>>

(* A check sum and its value are read, but not both.                       *)
Between(n) == \E p \in {watcher[n], trapper[n]} : p # Nil /\ p.step \in {"collect", "sign"}

(* A field, or the absence of the record, is again what the row OLD says.  *)
TakenBack(n) ==
    \/ rec'[n] = Nil /\ old[n] = Nil
    \/ rec'[n] # Nil /\ old[n] # Nil /\ \E f \in Fields : rec'[n][f] # rec[n][f] /\ rec'[n][f] = old[n].ck[f]

(* A user of the node edits a field, or deletes the record.                *)
Edit(n) ==
    /\ edits < MaxEdits
    /\ rec[n] # Nil
    /\ edits' = edits + 1
    /\ \/ \E f \in Fields, value \in {0, 1} :
             /\ rec[n][f] # value
             /\ rec' = [rec EXCEPT ![n][f] = value]
             /\ last' = [last EXCEPT ![f] = value]
             /\ writers' = [writers EXCEPT ![f] = @ \cup {n}]
       \/ /\ rec' = [rec EXCEPT ![n] = Nil]
          /\ writers' = [f \in Fields |-> Nodes]
          /\ UNCHANGED last
    /\ gap' = gap \cup (IF Between(n) THEN {"edit"} ELSE {})
                   \cup (IF TakenBack(n) THEN {"back"} ELSE {})
    /\ UNCHANGED <<old, new, processes, breaks>>

process_nodes(n) ==
    calculate_checksums(n) \/ SendChanges(n) \/ ReadAnswer(n) \/ SignAnswer(n) \/ EndExchange(n)

process_trapper(n) ==
    node_sync(n) \/ SignChanges(n) \/ CalculateAnswer(n) \/ SendAnswer(n) \/ EndAnswer(n)

NodesNext ==
    \E n \in Nodes : process_nodes(n) \/ process_trapper(n) \/ StopWatcher(n) \/ StopTrapper(n) \/ Edit(n)

(* Node watchers and trappers keep running, and wait for the lock in the   *)
(* queue of its semaphore.                                                 *)
NodesFairness == \A n \in Nodes : SF_nodeVars(process_nodes(n)) /\ SF_nodeVars(process_trapper(n))

NodesSpec == NodesInit /\ [][NodesNext]_nodeVars /\ NodesFairness
-----------------------------------------------------------------------------
(* Properties.                                                             *)

(* An edit of a field that only one node edits is not undone by older      *)
(* values that travel between the nodes, whatever fields others edit,      *)
(* unless a process is stopped between a value and its check sum.          *)
EditsKept ==
    \A f \in Fields, e \in DOMAIN rec :
        writers[f] = {e} /\ "stop" \notin gap => rec[e] # Nil /\ rec[e][f] = last[f]

(* When nobody edits any more all nodes come to have the same record, over *)
(* broken connections and stopped processes.  Two cases are left out: an   *)
(* edit, or a stop, between a value and its check sum, and an edit that is *)
(* taken back when an exchange was broken, or is before the next one.      *)
Converges ==
    <>[](gap \cap {"edit", "stop"} = {} /\ ("back" \notin gap \/ breaks = 0)
            => \A n \in DOMAIN rec : rec[n] = rec[1])
=============================================================================
