-------------------------- MODULE NodeConfig_proofs --------------------------
(***************************************************************************)
(* Proof that an edit is not undone by older values that travel between    *)
(* the nodes, for any number of nodes, fields, edits and broken exchanges. *)
(*                                                                         *)
(* For a field f that only the node e edits: every other node has its      *)
(* value from the neighbour on the side of e, and its check sums say so;   *)
(* what is sent away from e brings f to who does not have it; what is sent *)
(* towards e has no f.                                                     *)
(***************************************************************************)
EXTENDS NodeConfig, SequenceTheorems, TLAPS

Value == {0, 1, Default}
Record == [Fields -> Value]
Sides == {SLAVE, MASTER}
CheckSums == [ck: [Fields -> Value \cup {Nil}], sync: [Fields -> [Sides -> {" ", "1", "2"}]]]
Update == [op: {"update"}, values: UNION {[S -> Value] : S \in SUBSET Fields}]
Data == [op: {"none", "delete"}] \cup Update
Request == [data: Data, alive: BOOLEAN]
Watcher == [step: {"collect", "wait", "answer", "sign", "stored"}, data: Data]
Trapper == [step: {"sign", "stored", "collect", "wait", "OK"}, alive: BOOLEAN, data: Data]

(* Nil is no record, row or process, and a node has a neighbour.           *)
Distinct ==
    /\ N \in Nat \ {0, 1}
    /\ Nil \notin Record /\ Nil \notin CheckSums /\ Nil \notin Watcher /\ Nil \notin Trapper

Types ==
    /\ rec \in [Nodes -> Record \cup {Nil}]
    /\ old \in [Nodes -> CheckSums \cup {Nil}]
    /\ new \in [Nodes -> Record \cup {Nil}]
    /\ watcher \in [Nodes -> Watcher \cup {Nil}]
    /\ waiting \in [Nodes -> Seq(Request)]
    /\ trapper \in [Nodes -> Trapper \cup {Nil}]
    /\ writers \in [Fields -> SUBSET Nodes]
    /\ last \in [Fields -> Value]

(* The first node has no master and the last one no slave.  A node is in   *)
(* one exchange at a time, and signs what is an update.                    *)
Ends == watcher[1] = Nil /\ trapper[N] = Nil /\ waiting[N] = <<>>

OneExchange == \A n \in Nodes : watcher[n] = Nil \/ trapper[n] = Nil

SignsUpdates ==
    \A n \in Nodes : /\ watcher[n] # Nil /\ watcher[n].step = "sign" => watcher[n].data.op = "update"
                     /\ trapper[n] # Nil /\ trapper[n].step = "sign" => trapper[n].data.op = "update"

(* A node watcher that waits for its answer has at most one request alive, *)
(* in the queue or at a trapper; what is left of broken exchanges is not   *)
(* answered.                                                               *)
Sent(queue) == {queue[k] : k \in 1 .. Len(queue)}

Waits(n) == watcher[n] # Nil /\ watcher[n].step = "wait"

Answers(n) == trapper[n] # Nil /\ trapper[n].alive

AliveOnce(queue) == \A j, k \in 1 .. Len(queue) : queue[j].alive /\ queue[k].alive => j = k

OneAlive(n) ==
    /\ \A r \in Sent(waiting[n - 1]) : r.alive => Waits(n) /\ ~Answers(n - 1)
    /\ AliveOnce(waiting[n - 1])
    /\ Answers(n - 1) =>
          /\ trapper[n - 1].step # "OK"
          /\ trapper[n - 1].step # "wait" => Waits(n)
          /\ trapper[n - 1].step = "wait" => watcher[n] # Nil /\ watcher[n].step \in {"answer", "sign", "stored"}

Exchanges == Ends /\ OneExchange /\ SignsUpdates /\ \A n \in 2 .. N : OneAlive(n)

(* What is sent, by a node that has the record, does not touch f, or       *)
(* brings f to who does not have it.                                       *)
Carries(data, f) == data.op = "update" /\ f \in DOMAIN data.values

Harmless(data, f, sender) ==
    \/ data.op = "none"
    \/ data.op = "update" /\ f \notin DOMAIN data.values /\ sender # Nil

Brings(data, f, sender, receiver) ==
    \/ data.op = "none"
    \/ data.op = "update" /\ sender # Nil /\ (f \in DOMAIN data.values \/ receiver # Nil)

(* What a node knows of a side: it has the node's own value of f, or this  *)
(* is not known.                                                           *)
Known(n, f, side) ==
    old[n] # Nil /\ old[n].sync[f][side] = "1" /\ old[n].ck[f] = rec[n][f]

Unmarked(n, f, side) == old[n] = Nil \/ old[n].sync[f][side] # "1"

(* The check sums of now, when they are of use, are true of f.             *)
Collected(n) ==
    \/ watcher[n] # Nil /\ watcher[n].step \in {"collect", "wait", "answer"}
    \/ trapper[n] # Nil /\ trapper[n].step \in {"collect", "wait", "OK"}

Fresh(n, f, e) ==
    Collected(n) =>
        /\ new[n] = Nil <=> rec[n] = Nil
        /\ n # e /\ rec[n] # Nil => new[n][f] = rec[n][f]

(* The slave n has f from its master, which will not mark it as known to n *)
(* before.                                                                 *)
Told(n, f) ==
    \/ rec[n] # Nil
    \/ new[n - 1] = Nil
    \/ Answers(n - 1) /\ watcher[n].step = "answer" /\ Carries(watcher[n].data, f)

FromMaster(n, f) ==
    /\ \A r \in Sent(waiting[n - 1]) : Harmless(r.data, f, rec[n])
    /\ trapper[n - 1] # Nil => Harmless(trapper[n - 1].data, f, rec[n])
    /\ watcher[n] # Nil => Brings(watcher[n].data, f, rec[n - 1], rec[n])
    /\ rec[n] # Nil => /\ rec[n - 1] # Nil
                       /\ \/ Known(n, f, MASTER)
                          \/ watcher[n] # Nil /\ watcher[n].step = "sign" /\ Carries(watcher[n].data, f)
    /\ rec[n] = Nil => old[n] = Nil /\ Unmarked(n - 1, f, SLAVE)
    /\ trapper[n - 1] # Nil /\ trapper[n - 1].step = "OK" => Told(n, f)
    /\ Answers(n - 1) /\ trapper[n - 1].step = "wait" => Told(n, f)

(* The master n - 1 has f from its slave, likewise.                        *)
FromSlave(n, f) ==
    /\ watcher[n] # Nil => Harmless(watcher[n].data, f, rec[n - 1])
    /\ \A r \in Sent(waiting[n - 1]) : Brings(r.data, f, rec[n], rec[n - 1])
    /\ trapper[n - 1] # Nil => Brings(trapper[n - 1].data, f, rec[n], rec[n - 1])
    /\ rec[n - 1] # Nil =>
          /\ rec[n] # Nil
          /\ \/ Known(n - 1, f, SLAVE)
             \/ trapper[n - 1] # Nil /\ trapper[n - 1].step = "sign" /\ Carries(trapper[n - 1].data, f)
    /\ rec[n - 1] = Nil => old[n - 1] = Nil /\ Unmarked(n, f, MASTER)
    /\ \A r \in Sent(waiting[n - 1]) : r.alive => rec[n - 1] # Nil \/ new[n] = Nil \/ Carries(r.data, f)
    /\ Answers(n - 1) /\ trapper[n - 1].step # "wait" => rec[n - 1] # Nil \/ new[n] = Nil
    /\ watcher[n] # Nil /\ watcher[n].step = "answer" => rec[n - 1] # Nil \/ new[n] = Nil

Link(n, f, e) == IF e < n THEN FromMaster(n, f) ELSE FromSlave(n, f)

(* All of it, of a field that only e edits.                                *)
Undisturbed(f, e) ==
    /\ rec[e] # Nil /\ rec[e][f] = last[f]
    /\ \A n \in Nodes : Fresh(n, f, e)
    /\ \A n \in 2 .. N : Link(n, f, e)

EditsInv ==
    /\ Types /\ Exchanges
    /\ "stop" \notin gap => \A f \in Fields, e \in Nodes : writers[f] \subseteq {e} => Undisturbed(f, e)
-----------------------------------------------------------------------------
(* What is received and stored.                                            *)
LEMMA DataOps == ASSUME NEW data \in Data PROVE data.op \in {"none", "delete", "update"}
  BY DEF Data, Update

LEMMA CarriedValue ==
  ASSUME NEW data \in Data, data.op = "update", NEW f \in DOMAIN data.values
  PROVE  data.values[f] \in Value
  BY DEF Data, Update

LEMMA StoredType ==
  ASSUME Distinct, NEW data \in Data, NEW r \in Record \cup {Nil}
  PROVE  /\ Stored(r, data) \in Record \cup {Nil}
         /\ data.op = "update" => Stored(r, data) # Nil
         /\ data.op = "none" => Stored(r, data) = r
  <1>1. CASE data.op = "none"
    BY <1>1 DEF Stored
  <1>2. CASE data.op = "delete"
    BY <1>2 DEF Stored
  <1>3. CASE data.op = "update"
    <2>1. Stored(r, data) =
            [f \in Fields |-> IF f \in DOMAIN data.values THEN data.values[f] ELSE IF r = Nil THEN Default ELSE r[f]]
      BY <1>3 DEF Stored
    <2>2. \A f \in Fields : f \in DOMAIN data.values => data.values[f] \in Value
      BY <1>3, CarriedValue
    <2>3. \A f \in Fields : r # Nil => r[f] \in Value
      BY DEF Record
    <2>4. Stored(r, data) \in Record
      BY <2>1, <2>2, <2>3 DEF Record, Value
    <2> QED BY <2>4, <1>3 DEF Distinct
  <1> QED BY <1>1, <1>2, <1>3, DataOps

(* An update without f leaves it; nothing but a delete takes a record away. *)
LEMMA StoredField ==
  ASSUME Distinct, NEW data \in Data, NEW r \in Record, data.op # "delete",
         NEW f \in Fields, ~Carries(data, f)
  PROVE  Stored(r, data) # Nil /\ Stored(r, data)[f] = r[f]
  <1>1. r # Nil
    BY DEF Distinct
  <1>2. Stored(r, data) # Nil
    BY <1>1, StoredType, DataOps
  <1>3. CASE data.op = "none"
    BY <1>2, <1>3 DEF Stored
  <1>4. CASE data.op = "update"
    BY <1>1, <1>2, <1>4 DEF Stored, Carries
  <1> QED BY <1>3, <1>4, DataOps

-----------------------------------------------------------------------------
(* What update_checksums makes of a row.                                   *)
(* The field is marked as known to the side; the mark of the other side    *)
(* stays or goes.                                                          *)
MarkedFor(after, before, side) ==
    /\ after \in [Sides -> {" ", "1", "2"}]
    /\ after[side] = "1"
    /\ \A s \in Sides : s # side => after[s] = " " \/ after[s] = before[s]

LEMMA FieldMarked ==
  ASSUME NEW sync \in [Sides -> {" ", "1", "2"}], NEW side \in Sides, NEW same \in BOOLEAN
  PROVE  /\ MarkedFor(Marked(sync, side, same), sync, side)
         /\ same => \A s \in Sides : s # side => Marked(sync, side, same)[s] = sync[s]
  <1>1. CASE same
    <2>1. Marked(sync, side, same) = [sync EXCEPT ![side] = "1"]
      BY <1>1 DEF Marked
    <2> QED BY <2>1 DEF MarkedFor
  <1>2. CASE ~same
    <2>1. Marked(sync, side, same) = [s \in {SLAVE, MASTER} |-> IF s = side THEN "1" ELSE " "]
      BY <1>2 DEF Marked
    <2> QED BY <1>2, <2>1 DEF MarkedFor, Sides
  <1> QED BY <1>1, <1>2

(* The row of check sums before.                                           *)
Sync(prev) == IF prev = Nil THEN Blank ELSE prev.sync
Sums(prev) == IF prev = Nil THEN [f \in Fields |-> Nil] ELSE prev.ck

LEMMA RowType ==
  ASSUME NEW prev \in CheckSums \cup {Nil}
  PROVE  /\ Sync(prev) \in [Fields -> [Sides -> {" ", "1", "2"}]]
         /\ Sums(prev) \in [Fields -> Value \cup {Nil}]
  <1>1. Blank \in [Fields -> [Sides -> {" ", "1", "2"}]]
    BY DEF Blank, Sides
  <1> QED BY <1>1 DEF Sync, Sums, CheckSums

(* The row of a field in the list, and of one that is not.                 *)
FieldUpdated(row, prev, curr, side, f) ==
    /\ row.ck[f] = curr[f]
    /\ MarkedFor(row.sync[f], Sync(prev)[f], side)
    /\ Sums(prev)[f] = curr[f] => \A s \in Sides : s # side => row.sync[f][s] = Sync(prev)[f][s]

FieldLeft(row, prev, f) == row.ck[f] = Sums(prev)[f] /\ row.sync[f] = Sync(prev)[f]

LEMMA Updated ==
  ASSUME Distinct, NEW prev \in CheckSums \cup {Nil}, NEW curr \in Record, NEW side \in Sides, NEW list,
         NEW row, row = update_checksums(prev, curr, side, list)
  PROVE  /\ row \in CheckSums /\ row # Nil
         /\ \A f \in Fields : f \in list => FieldUpdated(row, prev, curr, side, f)
         /\ \A f \in Fields : f \notin list => FieldLeft(row, prev, f)
  <1>1. PICK ck : ck = [f \in Fields |-> IF f \in list THEN curr[f] ELSE Sums(prev)[f]]
    OBVIOUS
  <1>2. PICK sync : sync = [f \in Fields |-> IF f \in list THEN Marked(Sync(prev)[f], side, Sums(prev)[f] = curr[f])
                                           ELSE Sync(prev)[f]]
    OBVIOUS
  <1>3. curr # Nil
    BY DEF Distinct
  <1>4. row = [ck |-> ck, sync |-> sync]
    BY <1>1, <1>2, <1>3, Zenon DEF update_checksums, Sums, Sync
  <1>5. ck \in [Fields -> Value \cup {Nil}]
    BY <1>1, RowType DEF Record
  <1>6. ASSUME NEW f \in Fields
        PROVE  /\ sync[f] \in [Sides -> {" ", "1", "2"}]
               /\ f \in list =>
                     /\ MarkedFor(sync[f], Sync(prev)[f], side)
                     /\ Sums(prev)[f] = curr[f] => \A s \in Sides : s # side => sync[f][s] = Sync(prev)[f][s]
    <2>1. Sync(prev)[f] \in [Sides -> {" ", "1", "2"}]
      BY RowType
    <2>2. CASE f \in list
      <3>1. PICK same \in BOOLEAN : same <=> Sums(prev)[f] = curr[f]
        OBVIOUS
      <3>2. sync[f] = Marked(Sync(prev)[f], side, same)
        <4>1. same = (Sums(prev)[f] = curr[f])
          BY <3>1, Zenon
        <4> QED BY <1>2, <2>2, <4>1, Zenon
      <3>3. /\ MarkedFor(sync[f], Sync(prev)[f], side)
            /\ same => \A s \in Sides : s # side => sync[f][s] = Sync(prev)[f][s]
        <4>1. PICK before \in [Sides -> {" ", "1", "2"}] : before = Sync(prev)[f]
          BY <2>1
        <4>2. /\ MarkedFor(Marked(before, side, same), before, side)
              /\ same => \A s \in Sides : s # side => Marked(before, side, same)[s] = before[s]
          BY FieldMarked, Zenon
        <4> QED BY <3>2, <4>1, <4>2, Zenon
      <3>4. sync[f] \in [Sides -> {" ", "1", "2"}]
        BY <3>3 DEF MarkedFor
      <3> QED BY <3>1, <3>3, <3>4
    <2>3. CASE f \notin list
      BY <1>2, <2>1, <2>3, Zenon
    <2> QED BY <2>2, <2>3
  <1>7. sync \in [Fields -> [Sides -> {" ", "1", "2"}]]
    BY <1>2, <1>6
  <1>8. row \in CheckSums
    <2>1. [ck |-> ck, sync |-> sync] \in CheckSums
      BY <1>5, <1>7 DEF CheckSums
    <2> QED BY <1>4, <2>1
  <1>9. row # Nil /\ row.ck = ck /\ row.sync = sync
    BY <1>4, <1>8 DEF Distinct
  <1>10. ASSUME NEW f \in Fields, f \notin list PROVE FieldLeft(row, prev, f)
    BY <1>1, <1>2, <1>9, <1>10, Zenon DEF FieldLeft
  <1>11. ASSUME NEW f \in Fields, f \in list PROVE FieldUpdated(row, prev, curr, side, f)
    BY <1>1, <1>6, <1>9, <1>11 DEF FieldUpdated
  <1> QED BY <1>8, <1>9, <1>10, <1>11

(* What is left of the row of a deleted record.                            *)
RowDeleted(row, prev, side) ==
    /\ prev = Nil => row = Nil
    /\ row # Nil =>
          /\ row \in CheckSums
          /\ \A f \in Fields : row.sync[f][side] # "1"
          /\ \A f \in Fields, s \in Sides : s # side => row.sync[f][s] = " " \/ row.sync[f][s] = Sync(prev)[f][s]

LEMMA Deleted ==
  ASSUME Distinct, NEW prev \in CheckSums \cup {Nil}, NEW side \in Sides, NEW list,
         NEW row, row = update_checksums(prev, Nil, side, list)
  PROVE  RowDeleted(row, prev, side)
  <1>1. CASE prev = Nil
    BY <1>1 DEF update_checksums, RowDeleted
  <1>2. CASE prev # Nil
    <2>1. PICK sync : sync = [Blank EXCEPT ![First] = [prev.sync[First] EXCEPT ![side] = "2"]]
      OBVIOUS
    <2>2. row = [ck |-> [f \in Fields |-> Nil], sync |-> sync]
      BY <1>2, <2>1, Zenon DEF update_checksums
    <2>3. ASSUME NEW f \in Fields
          PROVE  /\ sync[f] \in [Sides -> {" ", "1", "2"}] /\ sync[f][side] # "1"
                 /\ \A s \in Sides : s # side => sync[f][s] = " " \/ sync[f][s] = Sync(prev)[f][s]
      <3>1. Blank[f] = [s \in {SLAVE, MASTER} |-> " "] /\ DOMAIN Blank = Fields
        BY DEF Blank
      <3>2. prev.sync[f] \in [Sides -> {" ", "1", "2"}] /\ Sync(prev)[f] = prev.sync[f]
        BY <1>2 DEF CheckSums, Sync
      <3>3. CASE f = First
        BY <2>1, <3>1, <3>2, <3>3 DEF Sides
      <3>4. CASE f # First
        BY <2>1, <3>1, <3>2, <3>4 DEF Sides
      <3> QED BY <3>3, <3>4
    <2>4. sync \in [Fields -> [Sides -> {" ", "1", "2"}]]
      <3>1. DOMAIN sync = Fields /\ sync = [f \in Fields |-> sync[f]]
        BY <2>1 DEF Blank
      <3> QED BY <2>3, <3>1
    <2>5. row.sync = sync /\ row \in CheckSums
      <3>1. [ck |-> [f \in Fields |-> Nil], sync |-> sync] \in CheckSums
        BY <2>4 DEF CheckSums
      <3> QED BY <2>2, <3>1
    <2> QED BY <1>2, <2>3, <2>5 DEF RowDeleted
  <1> QED BY <1>1, <1>2

LEMMA UpdatedType ==
  ASSUME Distinct, NEW prev \in CheckSums \cup {Nil}, NEW curr \in Record \cup {Nil}, NEW side \in Sides, NEW list,
         NEW row, row = update_checksums(prev, curr, side, list)
  PROVE  row \in CheckSums \cup {Nil} /\ (prev = Nil /\ curr = Nil => row = Nil)
  <1>1. CASE curr = Nil
    <2>1. RowDeleted(row, prev, side)
      BY <1>1, Deleted
    <2> QED BY <2>1 DEF RowDeleted
  <1>2. CASE curr \in Record
    <2>1. row \in CheckSums /\ curr # Nil
      BY <1>2, Updated DEF Distinct
    <2> QED BY <2>1
  <1> QED BY <1>1, <1>2

(* A field that is not known to a side is not known after the exchange     *)
(* with the other, nor after one without a record.                         *)
LEMMA StaysUnmarked ==
  ASSUME Distinct, NEW prev \in CheckSums \cup {Nil}, NEW curr \in Record \cup {Nil}, NEW side \in Sides, NEW list,
         NEW f \in Fields, NEW s \in Sides,
         \/ s # side /\ (prev = Nil \/ prev.sync[f][s] # "1")
         \/ s = side /\ curr = Nil,
         NEW row, row = update_checksums(prev, curr, side, list)
  PROVE  row = Nil \/ row.sync[f][s] # "1"
  <1>1. s # side => Sync(prev)[f][s] # "1"
    BY DEF Sync, Blank, Sides
  <1>2. CASE curr = Nil
    <2>1. RowDeleted(row, prev, side)
      BY <1>2, Deleted
    <2> QED BY <1>1, <2>1 DEF RowDeleted
  <1>3. CASE s # side /\ curr \in Record /\ f \in list
    <2>1. FieldUpdated(row, prev, curr, side, f)
      BY <1>3, Updated
    <2> QED BY <1>1, <1>3, <2>1 DEF FieldUpdated, MarkedFor
  <1>4. CASE s # side /\ curr \in Record /\ f \notin list
    <2>1. FieldLeft(row, prev, f)
      BY <1>4, Updated
    <2> QED BY <1>1, <1>4, <2>1 DEF FieldLeft
  <1> QED BY <1>2, <1>3, <1>4

LEMMA StaysKnown ==
  ASSUME Distinct, NEW prev \in CheckSums, NEW curr \in Record, NEW side \in Sides, NEW list,
         NEW f \in Fields, NEW s \in Sides, prev.sync[f][s] = "1", f \in list => curr[f] = prev.ck[f],
         NEW row, row = update_checksums(prev, curr, side, list)
  PROVE  row # Nil /\ row.sync[f][s] = "1" /\ row.ck[f] = prev.ck[f]
  <1>1. Sync(prev) = prev.sync /\ Sums(prev) = prev.ck
    BY DEF Sync, Sums, Distinct
  <1>2. row # Nil
    BY Updated
  <1>3. CASE f \in list
    <2>1. FieldUpdated(row, prev, curr, side, f)
      BY <1>3, Updated
    <2> QED BY <1>1, <1>2, <1>3, <2>1 DEF FieldUpdated, MarkedFor
  <1>4. CASE f \notin list
    <2>1. FieldLeft(row, prev, f)
      BY <1>4, Updated
    <2> QED BY <1>1, <1>2, <2>1 DEF FieldLeft
  <1> QED BY <1>3, <1>4

LEMMA BecomesKnown ==
  ASSUME Distinct, NEW prev \in CheckSums \cup {Nil}, NEW curr \in Record, NEW side \in Sides, NEW list,
         NEW f \in Fields, f \in list,
         NEW row, row = update_checksums(prev, curr, side, list)
  PROVE  row # Nil /\ row.sync[f][side] = "1" /\ row.ck[f] = curr[f]
  <1>1. row # Nil /\ FieldUpdated(row, prev, curr, side, f)
    BY Updated
  <1> QED BY <1>1 DEF FieldUpdated, MarkedFor

-----------------------------------------------------------------------------
(* What a node sends.                                                      *)
LEMMA ConfigDataType ==
  ASSUME Types, NEW n \in Nodes, NEW dest
  PROVE  /\ get_config_data(n, dest) \in Data
         /\ get_config_data(n, dest).op = "update" => rec[n] # Nil
  <1>1. PICK changed \in SUBSET Fields : changed = Changed(old[n], new[n], dest)
    BY DEF Changed
  <1>2. rec[n] \in Record \cup {Nil}
    BY DEF Types
  <1>3. CASE get_config_data(n, dest) = [op |-> "update", values |-> [f \in changed |-> rec[n][f]]] /\ rec[n] # Nil
    <2>1. [f \in changed |-> rec[n][f]] \in [changed -> Value]
      BY <1>2, <1>3 DEF Record
    <2>2. [op |-> "update", values |-> [f \in changed |-> rec[n][f]]] \in Update
      BY <2>1 DEF Update
    <2> QED BY <1>3, <2>2 DEF Data
  <1>4. CASE get_config_data(n, dest) \in {[op |-> "delete"], Nothing}
    <2>1. [op |-> "delete"] \in Data /\ [op |-> "none"] \in Data
      BY DEF Data
    <2> QED BY <1>4, <2>1 DEF Nothing
  <1> QED BY <1>1, <1>3, <1>4 DEF get_config_data

(* Nothing of f, to who is known to have it.                               *)
LEMMA SendsHarmless ==
  ASSUME NEW n \in Nodes, NEW f \in Fields, NEW dest,
         new[n] = Nil <=> rec[n] = Nil, rec[n] = Nil => old[n] = Nil,
         rec[n] # Nil => Known(n, f, dest) /\ new[n][f] = rec[n][f]
  PROVE  Harmless(get_config_data(n, dest), f, rec[n])
  <1>1. CASE rec[n] = Nil
    <2>1. get_config_data(n, dest) = Nothing
      BY <1>1 DEF get_config_data
    <2> QED BY <2>1 DEF Harmless, Nothing
  <1>2. CASE rec[n] # Nil
    <2>1. PICK changed : changed = Changed(old[n], new[n], dest)
      OBVIOUS
    <2>2. f \notin changed
      BY <1>2, <2>1 DEF Changed, Known
    <2>3. CASE get_config_data(n, dest) = Nothing
      BY <2>3 DEF Harmless, Nothing
    <2>4. CASE get_config_data(n, dest) = [op |-> "update", values |-> [g \in changed |-> rec[n][g]]]
      BY <1>2, <2>2, <2>4 DEF Harmless
    <2> QED BY <1>2, <2>1, <2>3, <2>4 DEF get_config_data
  <1> QED BY <1>1, <1>2

(* All of f, to who may not have it.                                       *)
LEMMA SendsAll ==
  ASSUME NEW n \in Nodes, NEW f \in Fields, NEW dest, NEW r,
         new[n] = Nil <=> rec[n] = Nil, rec[n] = Nil => old[n] = Nil,
         r = Nil => Unmarked(n, f, dest)
  PROVE  /\ Brings(get_config_data(n, dest), f, rec[n], r)
         /\ r # Nil \/ new[n] = Nil \/ Carries(get_config_data(n, dest), f)
  <1>1. CASE rec[n] = Nil
    <2>1. get_config_data(n, dest) = Nothing
      BY <1>1 DEF get_config_data
    <2> QED BY <1>1, <2>1 DEF Brings, Nothing
  <1>2. CASE rec[n] # Nil
    <2>1. PICK changed : changed = Changed(old[n], new[n], dest)
      OBVIOUS
    <2>2. r = Nil => f \in changed
      BY <2>1 DEF Changed, Unmarked
    <2>3. CASE get_config_data(n, dest) = Nothing /\ changed = {}
      BY <2>2, <2>3 DEF Brings, Nothing
    <2>4. CASE get_config_data(n, dest) = [op |-> "update", values |-> [g \in changed |-> rec[n][g]]]
      BY <1>2, <2>2, <2>4 DEF Brings, Carries
    <2> QED BY <1>2, <2>1, <2>3, <2>4 DEF get_config_data
  <1> QED BY <1>1, <1>2
-----------------------------------------------------------------------------
(* The requests of a queue.                                                *)
LEMMA Queued ==
  ASSUME NEW q \in Seq(Request), NEW x \in Request
  PROVE  /\ Append(q, x) \in Seq(Request)
         /\ Sent(Append(q, x)) = Sent(q) \cup {x}
         /\ (\A r \in Sent(q) : ~r.alive) => AliveOnce(Append(q, x))
  <1>1. PICK n \in Nat : n = Len(q)
    OBVIOUS
  <1>2. /\ Append(q, x) \in Seq(Request) /\ Len(Append(q, x)) = n + 1
        /\ \A k \in 1 .. n : Append(q, x)[k] = q[k]
        /\ Append(q, x)[n + 1] = x
    BY <1>1
  <1>3. Sent(Append(q, x)) = Sent(q) \cup {x}
    <2>1. ASSUME NEW k \in 1 .. n + 1 PROVE Append(q, x)[k] \in Sent(q) \cup {x}
      <3>1. CASE k \in 1 .. n
        BY <1>1, <1>2, <3>1 DEF Sent
      <3>2. CASE k = n + 1
        BY <1>2, <3>2
      <3>3. k \in 1 .. n \/ k = n + 1
        OBVIOUS
      <3> QED BY <3>1, <3>2, <3>3
    <2>2. ASSUME NEW k \in 1 .. n PROVE q[k] \in Sent(Append(q, x))
      BY <1>2 DEF Sent
    <2>3. x \in Sent(Append(q, x))
      BY <1>2 DEF Sent
    <2> QED BY <1>1, <1>2, <2>1, <2>2, <2>3 DEF Sent
  <1>4. ASSUME \A r \in Sent(q) : ~r.alive PROVE AliveOnce(Append(q, x))
    <2>1. \A k \in 1 .. n : ~Append(q, x)[k].alive
      BY <1>1, <1>2, <1>4 DEF Sent
    <2> QED BY <1>2, <2>1 DEF AliveOnce
  <1> QED BY <1>2, <1>3, <1>4

LEMMA Taken ==
  ASSUME NEW q \in Seq(Request), q # <<>>
  PROVE  /\ Head(q) \in Request /\ Tail(q) \in Seq(Request)
         /\ Head(q) \in Sent(q) /\ Sent(Tail(q)) \subseteq Sent(q)
         /\ AliveOnce(q) => AliveOnce(Tail(q)) /\ (Head(q).alive => \A r \in Sent(Tail(q)) : ~r.alive)
  <1>1. PICK n \in Nat \ {0} : n = Len(q)
    OBVIOUS
  <1>2. /\ Head(q) \in Request /\ Tail(q) \in Seq(Request) /\ Len(Tail(q)) = n - 1
        /\ Head(q) = q[1] /\ \A k \in 1 .. n - 1 : Tail(q)[k] = q[k + 1]
    BY <1>1
  <1>3. Head(q) \in Sent(q) /\ Sent(Tail(q)) \subseteq Sent(q)
    <2>1. \A k \in 1 .. n - 1 : Tail(q)[k] = q[k + 1] /\ k + 1 \in 1 .. n
      BY <1>2
    <2> QED BY <1>1, <1>2, <2>1 DEF Sent
  <1>4. ASSUME AliveOnce(q) PROVE AliveOnce(Tail(q)) /\ (Head(q).alive => \A r \in Sent(Tail(q)) : ~r.alive)
    <2>1. \A j, k \in 1 .. n : q[j].alive /\ q[k].alive => j = k
      BY <1>1, <1>4 DEF AliveOnce
    <2>2. ASSUME NEW j \in 1 .. n - 1, NEW k \in 1 .. n - 1, Tail(q)[j].alive, Tail(q)[k].alive PROVE j = k
      <3>1. q[j + 1].alive /\ q[k + 1].alive /\ j + 1 \in 1 .. n /\ k + 1 \in 1 .. n
        BY <1>2, <2>2
      <3>2. j + 1 = k + 1
        BY <2>1, <3>1
      <3> QED BY <3>2
    <2>3. ASSUME Head(q).alive, NEW k \in 1 .. n - 1 PROVE ~Tail(q)[k].alive
      <3>1. q[1].alive /\ Tail(q)[k] = q[k + 1] /\ 1 \in 1 .. n /\ k + 1 \in 1 .. n /\ k + 1 # 1
        BY <1>2, <2>3
      <3> QED BY <2>1, <3>1
    <2> QED BY <1>2, <2>2, <2>3 DEF AliveOnce, Sent
  <1> QED BY <1>2, <1>3, <1>4

LEMMA AllClosed ==
  ASSUME NEW q \in Seq(Request), NEW c, c = [k \in DOMAIN q |-> [q[k] EXCEPT !.alive = FALSE]]
  PROVE  /\ c \in Seq(Request)
         /\ \A r \in Sent(c) : ~r.alive /\ \E u \in Sent(q) : r.data = u.data
         /\ AliveOnce(c)
  <1>1. PICK n \in Nat : n = Len(q) /\ DOMAIN q = 1 .. n
    OBVIOUS
  <1>2. \A k \in 1 .. n : q[k] \in Request /\ c[k] = [q[k] EXCEPT !.alive = FALSE]
    BY <1>1
  <1>3. ASSUME NEW k \in 1 .. n PROVE c[k] \in Request /\ ~c[k].alive /\ c[k].data = q[k].data
    <2>1. PICK u \in Request : u = q[k]
      BY <1>2
    <2>2. [u EXCEPT !.alive = FALSE] \in Request /\ ~[u EXCEPT !.alive = FALSE].alive
            /\ [u EXCEPT !.alive = FALSE].data = u.data
      BY DEF Request
    <2> QED BY <1>2, <2>1, <2>2
  <1>4. c \in Seq(Request) /\ Len(c) = n
    BY <1>1, <1>3
  <1> QED BY <1>1, <1>3, <1>4 DEF Sent, AliveOnce
-----------------------------------------------------------------------------
(* What the steps do to the tables and processes of a node.                *)
LEMMA WatcherGoesOn ==
  ASSUME Distinct, NEW w \in Watcher, NEW step \in {"collect", "wait", "answer", "sign", "stored"},
         NEW v, v = [w EXCEPT !.step = step]
  PROVE  v \in Watcher /\ v # Nil /\ v.step = step /\ v.data = w.data
  BY DEF Watcher, Distinct

LEMMA TrapperGoesOn ==
  ASSUME Distinct, NEW t \in Trapper, NEW step \in {"sign", "stored", "collect", "wait", "OK"},
         NEW v, v = [t EXCEPT !.step = step]
  PROVE  v \in Trapper /\ v # Nil /\ v.step = step /\ v.data = t.data /\ v.alive = t.alive
  BY DEF Trapper, Distinct

(* The end of the exchange at the master: OK has come, or nobody is there. *)
LEMMA TrapperCut ==
  ASSUME Distinct, NEW t \in Trapper, NEW v,
         v \in {[t EXCEPT !.alive = FALSE], [t EXCEPT !.step = "OK", !.alive = FALSE]}
  PROVE  v \in Trapper /\ v # Nil /\ ~v.alive /\ v.data = t.data /\ v.step \in {"OK", t.step}
  BY DEF Trapper, Distinct

NodesKept(n) == \A m \in Nodes : m # n => rec'[m] = rec[m] /\ old'[m] = old[m] /\ new'[m] = new[m]
WatchersKept(n) == \A m \in Nodes : m # n => watcher'[m] = watcher[m]
TrappersKept(n) == \A m \in Nodes : m # n => trapper'[m] = trapper[m] /\ waiting'[m] = waiting[m]

LEMMA CalculateEffect ==
  ASSUME Distinct, Types, Exchanges, NEW n \in Nodes, calculate_checksums(n)
  PROVE  /\ n \in 2 .. N /\ watcher[n] = Nil /\ trapper[n] = Nil
         /\ watcher'[n] # Nil /\ watcher'[n].step = "collect" /\ watcher'[n].data = Nothing
         /\ new'[n] = rec[n] /\ NodesKept(n) /\ WatchersKept(n)
         /\ UNCHANGED <<rec, old, waiting, trapper, writers, last, gap>>
         /\ Types'
  <1>1. [step |-> "collect", data |-> Nothing] \in Watcher
    BY DEF Watcher, Data, Nothing
  <1>2. PICK w \in Watcher : w = [step |-> "collect", data |-> Nothing]
    BY <1>1
  <1>3. w # Nil /\ w.step = "collect" /\ w.data = Nothing
    BY <1>2 DEF Distinct
  <1>4. /\ n > 1 /\ ~Locked(n)
        /\ new' = [new EXCEPT ![n] = rec[n]]
        /\ watcher' = [watcher EXCEPT ![n] = w]
        /\ UNCHANGED <<rec, old, waiting, trapper, writers, last, gap>>
    BY <1>2 DEF calculate_checksums, edited
  <1>5. Types'
    BY <1>4 DEF Types
  <1> QED BY <1>3, <1>4, <1>5 DEF Types, Nodes, Locked, NodesKept, WatchersKept, Distinct

LEMMA SendChangesEffect ==
  ASSUME Distinct, Types, Exchanges, NEW n \in Nodes, SendChanges(n)
  PROVE  /\ n \in 2 .. N /\ n - 1 \in Nodes /\ watcher[n] # Nil /\ watcher[n].step = "collect"
         /\ watcher'[n] # Nil /\ watcher'[n].step = "wait" /\ watcher'[n].data = watcher[n].data
         /\ WatchersKept(n) /\ TrappersKept(n - 1)
         /\ \E x \in Request : /\ x.data = get_config_data(n, MASTER) /\ x.alive
                               /\ waiting[n - 1] \in Seq(Request)
                               /\ waiting'[n - 1] = Append(waiting[n - 1], x)
         /\ UNCHANGED <<rec, old, new, trapper, writers, last, gap>>
         /\ Types'
  <1>1. PICK x \in Request : x = [data |-> get_config_data(n, MASTER), alive |-> TRUE]
    BY ConfigDataType DEF Request
  <1>2. x.data = get_config_data(n, MASTER) /\ x.alive
    BY <1>1
  <1>3. /\ watcher[n] # Nil /\ watcher[n].step = "collect"
        /\ watcher' = [watcher EXCEPT ![n] = [watcher[n] EXCEPT !.step = "wait"]]
        /\ waiting' = [waiting EXCEPT ![n - 1] = Append(waiting[n - 1], x)]
        /\ UNCHANGED <<rec, old, new, trapper, writers, last, gap>>
    BY <1>1 DEF SendChanges, edited, copies, Types
  <1>4. n \in 2 .. N /\ n - 1 \in Nodes
    BY <1>3 DEF Exchanges, Ends, Nodes, Distinct
  <1>5. watcher[n] \in Watcher /\ waiting[n - 1] \in Seq(Request)
    BY <1>3, <1>4 DEF Types
  <1>6. PICK w \in Watcher : /\ w = [watcher[n] EXCEPT !.step = "wait"]
                             /\ w # Nil /\ w.step = "wait" /\ w.data = watcher[n].data
    BY <1>5, WatcherGoesOn
  <1>7. Append(waiting[n - 1], x) \in Seq(Request)
    BY <1>5
  <1>8. Types'
    BY <1>3, <1>6, <1>7 DEF Types
  <1>9. watcher'[n] = w /\ waiting'[n - 1] = Append(waiting[n - 1], x)
    BY <1>3, <1>4, <1>6 DEF Types
  <1>10. WatchersKept(n) /\ TrappersKept(n - 1)
    BY <1>3 DEF Types, WatchersKept, TrappersKept
  <1> QED BY <1>2, <1>3, <1>4, <1>5, <1>6, <1>8, <1>9, <1>10

LEMMA ReadAnswerEffect ==
  ASSUME Distinct, Types, Exchanges, NEW n \in Nodes, ReadAnswer(n)
  PROVE  /\ n \in 2 .. N /\ n - 1 \in Nodes /\ watcher[n] # Nil /\ watcher[n].step = "answer" /\ watcher[n].data \in Data
         /\ watcher'[n] # Nil /\ watcher'[n].data = watcher[n].data
         /\ watcher'[n].step = AfterStored(watcher[n].data)
         /\ old'[n] = update_checksums(old[n], new[n], MASTER, Fields)
         /\ new'[n] = Nil /\ rec'[n] = Stored(rec[n], watcher[n].data)
         /\ NodesKept(n) /\ WatchersKept(n)
         /\ UNCHANGED <<waiting, trapper, writers, last, gap>>
         /\ Types'
  <1>1. /\ watcher[n] # Nil /\ watcher[n].step = "answer"
        /\ old' = [old EXCEPT ![n] = update_checksums(old[n], new[n], MASTER, Fields)]
        /\ new' = [new EXCEPT ![n] = Nil]
        /\ rec' = [rec EXCEPT ![n] = Stored(rec[n], watcher[n].data)]
        /\ watcher' = [watcher EXCEPT ![n] = [watcher[n] EXCEPT !.step = AfterStored(watcher[n].data)]]
        /\ UNCHANGED <<waiting, trapper, writers, last, gap>>
    BY DEF ReadAnswer, edited, Types
  <1>2. n \in 2 .. N /\ n - 1 \in Nodes
    BY <1>1 DEF Exchanges, Ends, Nodes, Distinct
  <1>3. watcher[n] \in Watcher /\ watcher[n].data \in Data
    BY <1>1 DEF Types, Watcher
  <1>4. AfterStored(watcher[n].data) \in {"sign", "stored"}
    BY DEF AfterStored
  <1>5. PICK w \in Watcher : /\ w = [watcher[n] EXCEPT !.step = AfterStored(watcher[n].data)]
                             /\ w # Nil /\ w.step = AfterStored(watcher[n].data) /\ w.data = watcher[n].data
    <2>1. PICK step \in {"collect", "wait", "answer", "sign", "stored"} : step = AfterStored(watcher[n].data)
      BY <1>4
    <2>2. PICK w : w = [watcher[n] EXCEPT !.step = step]
      OBVIOUS
    <2>3. w \in Watcher /\ w # Nil /\ w.step = step /\ w.data = watcher[n].data
      BY <1>3, <2>2, WatcherGoesOn
    <2> QED BY <2>1, <2>2, <2>3
  <1>6. PICK r \in Record \cup {Nil} : r = Stored(rec[n], watcher[n].data)
    BY <1>3, StoredType DEF Types
  <1>7. PICK row \in CheckSums \cup {Nil} : row = update_checksums(old[n], new[n], MASTER, Fields)
    <2>1. old[n] \in CheckSums \cup {Nil} /\ new[n] \in Record \cup {Nil} /\ MASTER \in Sides
      BY DEF Types, Sides
    <2> QED BY <2>1, UpdatedType
  <1>8. Types'
    BY <1>1, <1>5, <1>6, <1>7 DEF Types
  <1>9. watcher'[n] = w /\ rec'[n] = r /\ old'[n] = row /\ new'[n] = Nil
    BY <1>1, <1>5, <1>6, <1>7 DEF Types
  <1>10. NodesKept(n) /\ WatchersKept(n)
    BY <1>1 DEF Types, NodesKept, WatchersKept
  <1> QED BY <1>1, <1>2, <1>3, <1>5, <1>6, <1>7, <1>8, <1>9, <1>10

LEMMA SignAnswerEffect ==
  ASSUME Distinct, Types, Exchanges, NEW n \in Nodes, SignAnswer(n)
  PROVE  /\ n \in 2 .. N /\ n - 1 \in Nodes /\ watcher[n] # Nil /\ watcher[n].step = "sign" /\ watcher[n].data.op = "update"
         /\ watcher'[n] # Nil /\ watcher'[n].data = watcher[n].data /\ watcher'[n].step = "stored"
         /\ old'[n] = update_checksums(old[n], rec[n], MASTER, DOMAIN watcher[n].data.values)
         /\ NodesKept(n) /\ WatchersKept(n)
         /\ UNCHANGED <<rec, waiting, trapper, writers, last, gap>>
         /\ Types'
  <1>1. /\ watcher[n] # Nil /\ watcher[n].step = "sign"
        /\ old' = [old EXCEPT ![n] = update_checksums(old[n], rec[n], MASTER, DOMAIN watcher[n].data.values)]
        /\ new' = [new EXCEPT ![n] = IF old[n] = Nil THEN Nil ELSE rec[n]]
        /\ watcher' = [watcher EXCEPT ![n] = [watcher[n] EXCEPT !.step = "stored"]]
        /\ UNCHANGED <<rec, waiting, trapper, writers, last, gap>>
    BY DEF SignAnswer, Sign, edited, Types
  <1>2. n \in 2 .. N /\ n - 1 \in Nodes /\ watcher[n].data.op = "update"
    BY <1>1 DEF Exchanges, Ends, SignsUpdates, Nodes, Distinct
  <1>3. PICK w \in Watcher : /\ w = [watcher[n] EXCEPT !.step = "stored"]
                             /\ w # Nil /\ w.step = "stored" /\ w.data = watcher[n].data
    <2>1. watcher[n] \in Watcher
      BY <1>1 DEF Types
    <2> QED BY <2>1, WatcherGoesOn
  <1>4. PICK row \in CheckSums \cup {Nil} :
           row = update_checksums(old[n], rec[n], MASTER, DOMAIN watcher[n].data.values)
    <2>1. old[n] \in CheckSums \cup {Nil} /\ rec[n] \in Record \cup {Nil} /\ MASTER \in Sides
      BY DEF Types, Sides
    <2> QED BY <2>1, UpdatedType
  <1>5. Types'
    BY <1>1, <1>3, <1>4 DEF Types
  <1>6. watcher'[n] = w /\ old'[n] = row
    BY <1>1, <1>3, <1>4 DEF Types
  <1>7. NodesKept(n) /\ WatchersKept(n)
    BY <1>1 DEF Types, NodesKept, WatchersKept
  <1> QED BY <1>1, <1>2, <1>3, <1>4, <1>5, <1>6, <1>7

LEMMA EndExchangeEffect ==
  ASSUME Distinct, Types, Exchanges, NEW n \in Nodes, EndExchange(n)
  PROVE  /\ n \in 2 .. N /\ n - 1 \in Nodes /\ watcher[n] # Nil /\ watcher[n].step = "stored" /\ watcher'[n] = Nil
         /\ WatchersKept(n) /\ TrappersKept(n - 1) /\ ~Answers(n - 1)'
         /\ trapper[n - 1] = Nil => trapper'[n - 1] = Nil
         /\ trapper[n - 1] # Nil => /\ trapper'[n - 1] # Nil /\ trapper'[n - 1].data = trapper[n - 1].data
                                    /\ trapper'[n - 1].step = IF trapper[n - 1].alive THEN "OK" ELSE trapper[n - 1].step
         /\ UNCHANGED <<rec, old, new, waiting, writers, last, gap>>
         /\ Types'
  <1>1. /\ watcher[n] # Nil /\ watcher[n].step = "stored"
        /\ watcher' = [watcher EXCEPT ![n] = Nil]
        /\ trapper' = [trapper EXCEPT ![n - 1] = IF @ # Nil /\ @.alive THEN [@ EXCEPT !.step = "OK", !.alive = FALSE] ELSE @]
        /\ UNCHANGED <<rec, old, new, waiting, writers, last, gap>>
    BY DEF EndExchange, edited, copies
  <1>2. n \in 2 .. N /\ n - 1 \in Nodes
    BY <1>1 DEF Exchanges, Ends, Nodes, Distinct
  <1>3. PICK t \in Trapper \cup {Nil} : t = trapper[n - 1]
    BY <1>2 DEF Types
  <1>4. PICK u : u = IF t # Nil /\ t.alive THEN [t EXCEPT !.step = "OK", !.alive = FALSE] ELSE t
    OBVIOUS
  <1>5. trapper' = [trapper EXCEPT ![n - 1] = u]
    BY <1>1, <1>2, <1>3, <1>4 DEF Types
  <1>6. CASE t # Nil /\ t.alive
    <2>1. u \in Trapper /\ u # Nil /\ ~u.alive /\ u.data = t.data /\ u.step = "OK"
      BY <1>4, <1>6 DEF Trapper, Distinct
    <2>2. trapper'[n - 1] = u
      BY <1>2, <1>5 DEF Types
    <2>3. Types'
      BY <1>1, <1>5, <2>1 DEF Types
    <2>4. WatchersKept(n) /\ TrappersKept(n - 1) /\ watcher'[n] = Nil
      BY <1>1, <1>5 DEF Types, WatchersKept, TrappersKept
    <2> QED BY <1>1, <1>2, <1>3, <1>6, <2>1, <2>2, <2>3, <2>4 DEF Answers
  <1>7. CASE ~(t # Nil /\ t.alive)
    <2>1. trapper' = trapper
      BY <1>2, <1>3, <1>4, <1>5, <1>7 DEF Types
    <2>2. Types'
      BY <1>1, <2>1 DEF Types
    <2>3. WatchersKept(n) /\ TrappersKept(n - 1) /\ watcher'[n] = Nil
      BY <1>1, <2>1 DEF Types, WatchersKept, TrappersKept
    <2> QED BY <1>1, <1>2, <1>3, <1>7, <2>1, <2>2, <2>3 DEF Answers
  <1> QED BY <1>6, <1>7

LEMMA NodeSyncEffect ==
  ASSUME Distinct, Types, Exchanges, NEW n \in Nodes, node_sync(n)
  PROVE  /\ n \in 1 .. N - 1 /\ n + 1 \in Nodes /\ watcher[n] = Nil /\ trapper[n] = Nil
         /\ waiting[n] \in Seq(Request) /\ waiting[n] # <<>> /\ waiting'[n] = Tail(waiting[n])
         /\ LET x == Head(waiting[n])
            IN  /\ x.data \in Data /\ rec'[n] = Stored(rec[n], x.data)
                /\ trapper'[n] # Nil /\ trapper'[n].data = x.data /\ trapper'[n].alive = x.alive
                /\ trapper'[n].step = AfterStored(x.data)
         /\ new'[n] = Nil /\ NodesKept(n) /\ TrappersKept(n)
         /\ UNCHANGED <<old, watcher, writers, last, gap>>
         /\ Types'
  <1>1. /\ waiting[n] # <<>> /\ watcher[n] = Nil /\ trapper[n] = Nil
        /\ new' = [new EXCEPT ![n] = Nil]
        /\ rec' = [rec EXCEPT ![n] = Stored(rec[n], Head(waiting[n]).data)]
        /\ trapper' = [trapper EXCEPT ![n] = [step |-> AfterStored(Head(waiting[n]).data), alive |-> Head(waiting[n]).alive,
                                              data |-> Head(waiting[n]).data]]
        /\ waiting' = [waiting EXCEPT ![n] = Tail(waiting[n])]
        /\ UNCHANGED <<old, watcher, writers, last, gap>>
    BY DEF node_sync, Locked, edited, Types
  <1>2. n \in 1 .. N - 1 /\ n + 1 \in Nodes
    <2>1. n # N
      BY <1>1 DEF Exchanges, Ends
    <2> QED BY <2>1 DEF Nodes, Distinct
  <1>3. waiting[n] \in Seq(Request)
    BY DEF Types
  <1>4. PICK x \in Request : x = Head(waiting[n])
    BY <1>1, <1>3, Taken
  <1>5. x.data \in Data /\ x.alive \in BOOLEAN /\ AfterStored(x.data) \in {"sign", "stored"}
    BY DEF Request, AfterStored
  <1>6. PICK t : t = [step |-> AfterStored(x.data), alive |-> x.alive, data |-> x.data]
    OBVIOUS
  <1>7. t \in Trapper /\ t # Nil /\ t.data = x.data /\ t.alive = x.alive /\ t.step = AfterStored(x.data)
    <2>1. [step |-> AfterStored(x.data), alive |-> x.alive, data |-> x.data] \in Trapper
      BY <1>5 DEF Trapper
    <2> QED BY <1>6, <2>1 DEF Distinct
  <1>8. PICK r \in Record \cup {Nil} : r = Stored(rec[n], x.data)
    BY <1>5, StoredType DEF Types
  <1>9. Tail(waiting[n]) \in Seq(Request)
    BY <1>1, <1>3
  <1>10. Types'
    BY <1>1, <1>4, <1>6, <1>7, <1>8, <1>9 DEF Types
  <1>11. trapper'[n] = t /\ rec'[n] = r /\ new'[n] = Nil /\ waiting'[n] = Tail(waiting[n])
    BY <1>1, <1>4, <1>6, <1>8 DEF Types
  <1>12. NodesKept(n) /\ TrappersKept(n)
    BY <1>1 DEF Types, NodesKept, TrappersKept
  <1> QED BY <1>1, <1>2, <1>3, <1>4, <1>5, <1>7, <1>8, <1>10, <1>11, <1>12

LEMMA SignChangesEffect ==
  ASSUME Distinct, Types, Exchanges, NEW n \in Nodes, SignChanges(n)
  PROVE  /\ n \in 1 .. N - 1 /\ n + 1 \in Nodes /\ watcher[n] = Nil
         /\ trapper[n] # Nil /\ trapper[n].step = "sign" /\ trapper[n].data.op = "update"
         /\ trapper'[n] # Nil /\ trapper'[n].data = trapper[n].data /\ trapper'[n].alive = trapper[n].alive
         /\ trapper'[n].step = "stored"
         /\ old'[n] = update_checksums(old[n], rec[n], SLAVE, DOMAIN trapper[n].data.values)
         /\ NodesKept(n) /\ TrappersKept(n)
         /\ UNCHANGED <<rec, watcher, waiting, writers, last, gap>>
         /\ Types'
  <1>1. /\ trapper[n] # Nil /\ trapper[n].step = "sign"
        /\ old' = [old EXCEPT ![n] = update_checksums(old[n], rec[n], SLAVE, DOMAIN trapper[n].data.values)]
        /\ new' = [new EXCEPT ![n] = IF old[n] = Nil THEN Nil ELSE rec[n]]
        /\ trapper' = [trapper EXCEPT ![n] = [trapper[n] EXCEPT !.step = "stored"]]
        /\ UNCHANGED <<rec, watcher, waiting, writers, last, gap>>
    BY DEF SignChanges, Sign, edited, Types
  <1>2. n \in 1 .. N - 1 /\ n + 1 \in Nodes /\ watcher[n] = Nil /\ trapper[n].data.op = "update"
    <2>1. n # N /\ watcher[n] = Nil /\ trapper[n].data.op = "update"
      BY <1>1 DEF Exchanges, Ends, OneExchange, SignsUpdates
    <2> QED BY <2>1 DEF Nodes, Distinct
  <1>3. PICK t \in Trapper : /\ t = [trapper[n] EXCEPT !.step = "stored"]
                             /\ t # Nil /\ t.step = "stored" /\ t.data = trapper[n].data /\ t.alive = trapper[n].alive
    <2>1. trapper[n] \in Trapper
      BY <1>1 DEF Types
    <2> QED BY <2>1, TrapperGoesOn
  <1>4. PICK row \in CheckSums \cup {Nil} :
           row = update_checksums(old[n], rec[n], SLAVE, DOMAIN trapper[n].data.values)
    <2>1. old[n] \in CheckSums \cup {Nil} /\ rec[n] \in Record \cup {Nil} /\ SLAVE \in Sides
      BY DEF Types, Sides
    <2> QED BY <2>1, UpdatedType
  <1>5. Types'
    BY <1>1, <1>3, <1>4 DEF Types
  <1>6. trapper'[n] = t /\ old'[n] = row
    BY <1>1, <1>3, <1>4 DEF Types
  <1>7. NodesKept(n) /\ TrappersKept(n)
    BY <1>1 DEF Types, NodesKept, TrappersKept
  <1> QED BY <1>1, <1>2, <1>3, <1>4, <1>5, <1>6, <1>7

LEMMA CalculateAnswerEffect ==
  ASSUME Distinct, Types, Exchanges, NEW n \in Nodes, CalculateAnswer(n)
  PROVE  /\ n \in 1 .. N - 1 /\ n + 1 \in Nodes /\ watcher[n] = Nil
         /\ trapper[n] # Nil /\ trapper[n].step = "stored"
         /\ trapper'[n] # Nil /\ trapper'[n].data = trapper[n].data /\ trapper'[n].alive = trapper[n].alive
         /\ trapper'[n].step = "collect"
         /\ new'[n] = rec[n] /\ NodesKept(n) /\ TrappersKept(n)
         /\ UNCHANGED <<rec, old, watcher, waiting, writers, last, gap>>
         /\ Types'
  <1>1. /\ trapper[n] # Nil /\ trapper[n].step = "stored"
        /\ new' = [new EXCEPT ![n] = rec[n]]
        /\ trapper' = [trapper EXCEPT ![n] = [trapper[n] EXCEPT !.step = "collect"]]
        /\ UNCHANGED <<rec, old, watcher, waiting, writers, last, gap>>
    BY DEF CalculateAnswer, edited, Types
  <1>2. n \in 1 .. N - 1 /\ n + 1 \in Nodes /\ watcher[n] = Nil
    <2>1. n # N /\ watcher[n] = Nil
      BY <1>1 DEF Exchanges, Ends, OneExchange
    <2> QED BY <2>1 DEF Nodes, Distinct
  <1>3. PICK t \in Trapper : /\ t = [trapper[n] EXCEPT !.step = "collect"]
                             /\ t # Nil /\ t.step = "collect" /\ t.data = trapper[n].data /\ t.alive = trapper[n].alive
    <2>1. trapper[n] \in Trapper
      BY <1>1 DEF Types
    <2> QED BY <2>1, TrapperGoesOn
  <1>4. Types'
    BY <1>1, <1>3 DEF Types
  <1>5. trapper'[n] = t /\ new'[n] = rec[n]
    BY <1>1, <1>3 DEF Types
  <1>6. NodesKept(n) /\ TrappersKept(n)
    BY <1>1 DEF Types, NodesKept, TrappersKept
  <1> QED BY <1>1, <1>2, <1>3, <1>4, <1>5, <1>6

LEMMA SendAnswerEffect ==
  ASSUME Distinct, Types, Exchanges, NEW n \in Nodes, SendAnswer(n)
  PROVE  /\ n \in 1 .. N - 1 /\ n + 1 \in Nodes /\ watcher[n] = Nil
         /\ trapper[n] # Nil /\ trapper[n].step = "collect"
         /\ TrappersKept(n)
         /\ \/ /\ trapper[n].alive
               /\ watcher'[n + 1] # Nil /\ watcher'[n + 1].step = "answer"
               /\ watcher'[n + 1].data = get_config_data(n, SLAVE) /\ WatchersKept(n + 1)
               /\ trapper'[n] # Nil /\ trapper'[n].data = trapper[n].data /\ trapper'[n].alive
               /\ trapper'[n].step = "wait"
            \/ ~trapper[n].alive /\ trapper'[n] = Nil /\ watcher' = watcher
         /\ UNCHANGED <<rec, old, new, waiting, writers, last, gap>>
         /\ Types'
  <1>1. /\ trapper[n] # Nil /\ trapper[n].step = "collect"
        /\ UNCHANGED <<rec, old, new, waiting, writers, last, gap>>
    BY DEF SendAnswer, edited, copies
  <1>2. n \in 1 .. N - 1 /\ n + 1 \in Nodes /\ watcher[n] = Nil
    <2>1. n # N /\ watcher[n] = Nil
      BY <1>1 DEF Exchanges, Ends, OneExchange
    <2> QED BY <2>1 DEF Nodes, Distinct
  <1>3. CASE trapper[n].alive
    <2>1. PICK w : w = [step |-> "answer", data |-> get_config_data(n, SLAVE)]
      OBVIOUS
    <2>2. w \in Watcher /\ w # Nil /\ w.step = "answer" /\ w.data = get_config_data(n, SLAVE)
      <3>1. [step |-> "answer", data |-> get_config_data(n, SLAVE)] \in Watcher
        BY ConfigDataType DEF Watcher
      <3> QED BY <2>1, <3>1 DEF Distinct
    <2>3. watcher' = [watcher EXCEPT ![n + 1] = w] /\ trapper' = [trapper EXCEPT ![n] = [trapper[n] EXCEPT !.step = "wait"]]
      BY <1>3, <2>1 DEF SendAnswer, Types
    <2>4. PICK t \in Trapper : /\ t = [trapper[n] EXCEPT !.step = "wait"]
                               /\ t # Nil /\ t.step = "wait" /\ t.data = trapper[n].data /\ t.alive = trapper[n].alive
      <3>1. trapper[n] \in Trapper
        BY <1>1 DEF Types
      <3> QED BY <3>1, TrapperGoesOn
    <2>5. Types'
      BY <1>1, <2>2, <2>3, <2>4 DEF Types
    <2>6. watcher'[n + 1] = w /\ trapper'[n] = t /\ WatchersKept(n + 1) /\ TrappersKept(n)
      BY <1>1, <1>2, <2>3, <2>4 DEF Types, WatchersKept, TrappersKept
    <2> QED BY <1>1, <1>2, <1>3, <2>2, <2>4, <2>5, <2>6
  <1>4. CASE ~trapper[n].alive
    <2>1. watcher' = watcher /\ trapper' = [trapper EXCEPT ![n] = Nil]
      BY <1>4 DEF SendAnswer
    <2>2. Types'
      BY <1>1, <2>1 DEF Types
    <2>3. trapper'[n] = Nil /\ TrappersKept(n)
      BY <1>1, <2>1 DEF Types, TrappersKept
    <2> QED BY <1>1, <1>2, <1>4, <2>1, <2>2, <2>3
  <1> QED BY <1>3, <1>4

LEMMA EndAnswerEffect ==
  ASSUME Distinct, Types, Exchanges, NEW n \in Nodes, EndAnswer(n)
  PROVE  /\ n \in 1 .. N - 1 /\ n + 1 \in Nodes /\ watcher[n] = Nil /\ trapper[n] # Nil /\ trapper'[n] = Nil
         /\ \/ /\ trapper[n].step = "OK"
               /\ old'[n] = update_checksums(old[n], new[n], SLAVE, Fields)
            \/ trapper[n].step = "wait" /\ ~trapper[n].alive /\ old' = old
         /\ NodesKept(n) /\ TrappersKept(n)
         /\ UNCHANGED <<rec, watcher, waiting, writers, last, gap>>
         /\ Types'
  <1>1. /\ trapper[n] # Nil /\ trapper' = [trapper EXCEPT ![n] = Nil]
        /\ UNCHANGED <<rec, watcher, waiting, writers, last, gap>>
    BY DEF EndAnswer, edited
  <1>2. n \in 1 .. N - 1 /\ n + 1 \in Nodes /\ watcher[n] = Nil
    <2>1. n # N /\ watcher[n] = Nil
      BY <1>1 DEF Exchanges, Ends, OneExchange
    <2> QED BY <2>1 DEF Nodes, Distinct
  <1>3. trapper'[n] = Nil /\ TrappersKept(n)
    BY <1>1 DEF Types, TrappersKept
  <1>4. CASE trapper[n].step = "OK" /\ old' = [old EXCEPT ![n] = update_checksums(old[n], new[n], SLAVE, Fields)]
              /\ new' = [new EXCEPT ![n] = IF old[n] = Nil THEN Nil ELSE new[n]]
    <2>1. PICK row \in CheckSums \cup {Nil} : row = update_checksums(old[n], new[n], SLAVE, Fields)
      <3>1. old[n] \in CheckSums \cup {Nil} /\ new[n] \in Record \cup {Nil} /\ SLAVE \in Sides
        BY DEF Types, Sides
      <3> QED BY <3>1, UpdatedType
    <2>2. Types'
      BY <1>1, <1>4, <2>1 DEF Types
    <2>3. old'[n] = row /\ NodesKept(n)
      BY <1>1, <1>4, <2>1 DEF Types, NodesKept
    <2> QED BY <1>1, <1>2, <1>3, <1>4, <2>1, <2>2, <2>3
  <1>5. CASE trapper[n].step = "wait" /\ ~trapper[n].alive /\ UNCHANGED <<old, new>>
    <2>1. Types'
      BY <1>1, <1>5 DEF Types
    <2> QED BY <1>1, <1>2, <1>3, <1>5, <2>1 DEF NodesKept
  <1> QED BY <1>1, <1>4, <1>5 DEF EndAnswer, Types

(* A connection that breaks does so for all that is at the master.         *)
LEMMA StopWatcherEffect ==
  ASSUME Distinct, Types, Exchanges, NEW n \in Nodes, StopWatcher(n)
  PROVE  /\ n \in 2 .. N /\ n - 1 \in Nodes /\ watcher[n] # Nil /\ watcher'[n] = Nil
         /\ "stop" \notin gap' => watcher[n].step # "sign" /\ gap' = gap
         /\ WatchersKept(n) /\ TrappersKept(n - 1) /\ ~Answers(n - 1)'
         /\ \A r \in Sent(waiting'[n - 1]) : ~r.alive /\ \E u \in Sent(waiting[n - 1]) : r.data = u.data
         /\ AliveOnce(waiting'[n - 1])
         /\ trapper[n - 1] = Nil => trapper'[n - 1] = Nil
         /\ trapper[n - 1] # Nil => /\ trapper'[n - 1] # Nil /\ trapper'[n - 1].data = trapper[n - 1].data
                                    /\ trapper'[n - 1].step = trapper[n - 1].step
         /\ UNCHANGED <<rec, old, new, writers, last>>
         /\ Types'
  <1>1. /\ watcher[n] # Nil
        /\ watcher' = [watcher EXCEPT ![n] = Nil]
        /\ UNCHANGED <<rec, old, new, writers, last>>
        /\ gap' = IF watcher[n].step = "sign" THEN gap \cup {"stop"} ELSE gap
    BY DEF StopWatcher, edited, copies
  <1>2. n \in 2 .. N /\ n - 1 \in Nodes /\ n - 1 # N
    BY <1>1 DEF Exchanges, Ends, Nodes, Distinct
  <1>3. PICK c : c = [k \in DOMAIN waiting[n - 1] |-> [waiting[n - 1][k] EXCEPT !.alive = FALSE]]
    OBVIOUS
  <1>4. PICK t \in Trapper \cup {Nil} : t = trapper[n - 1]
    BY <1>2 DEF Types
  <1>5. PICK u : u = IF t = Nil THEN Nil ELSE [t EXCEPT !.alive = FALSE]
    OBVIOUS
  <1>6. waiting' = [waiting EXCEPT ![n - 1] = c] /\ trapper' = [trapper EXCEPT ![n - 1] = u]
    BY <1>2, <1>3, <1>4, <1>5 DEF StopWatcher, Closed, Types
  <1>7. /\ c \in Seq(Request) /\ AliveOnce(c)
        /\ \A r \in Sent(c) : ~r.alive /\ \E v \in Sent(waiting[n - 1]) : r.data = v.data
    <2>1. waiting[n - 1] \in Seq(Request)
      BY <1>2 DEF Types
    <2> QED BY <1>3, <2>1, AllClosed
  <1>8. /\ u \in Trapper \cup {Nil} /\ (t = Nil => u = Nil)
        /\ t # Nil => u # Nil /\ ~u.alive /\ u.data = t.data /\ u.step = t.step
    <2>1. CASE t = Nil
      BY <1>5, <2>1
    <2>2. CASE t # Nil
      <3>1. u = [t EXCEPT !.alive = FALSE] /\ t \in Trapper
        BY <1>5, <2>2
      <3> QED BY <2>2, <3>1 DEF Trapper, Distinct
    <2> QED BY <2>1, <2>2
  <1>9. waiting'[n - 1] = c /\ trapper'[n - 1] = u /\ watcher'[n] = Nil
    BY <1>1, <1>2, <1>6 DEF Types
  <1>10. Types'
    BY <1>1, <1>6, <1>7, <1>8 DEF Types
  <1>11. WatchersKept(n) /\ TrappersKept(n - 1)
    BY <1>1, <1>6 DEF Types, WatchersKept, TrappersKept
  <1>12. ~Answers(n - 1)'
    BY <1>8, <1>9 DEF Answers
  <1> QED BY <1>1, <1>2, <1>4, <1>7, <1>8, <1>9, <1>10, <1>11, <1>12

LEMMA StopTrapperEffect ==
  ASSUME Distinct, Types, Exchanges, NEW n \in Nodes, StopTrapper(n)
  PROVE  /\ n \in 1 .. N - 1 /\ n + 1 \in Nodes /\ trapper[n] # Nil /\ trapper'[n] = Nil
         /\ "stop" \notin gap' => trapper[n].step # "sign" /\ gap' = gap
         /\ WatchersKept(n + 1) /\ TrappersKept(n)
         /\ \/ watcher'[n + 1] = watcher[n + 1] /\ ~(trapper[n].alive /\ Waits(n + 1))
            \/ watcher'[n + 1] = Nil /\ trapper[n].alive /\ Waits(n + 1)
         /\ UNCHANGED <<rec, old, new, waiting, writers, last>>
         /\ Types'
  <1>1. /\ trapper[n] # Nil
        /\ trapper' = [trapper EXCEPT ![n] = Nil]
        /\ watcher' = [watcher EXCEPT ![n + 1] = IF trapper[n].alive /\ @.step = "wait" THEN Nil ELSE @]
        /\ UNCHANGED <<rec, old, new, waiting, writers, last>>
        /\ gap' = IF trapper[n].step = "sign" THEN gap \cup {"stop"} ELSE gap
    BY DEF StopTrapper, edited, copies
  <1>2. n \in 1 .. N - 1 /\ n + 1 \in Nodes
    <2>1. n # N
      BY <1>1 DEF Exchanges, Ends
    <2> QED BY <2>1 DEF Nodes, Distinct
  <1>3. OneAlive(n + 1) /\ (n + 1) - 1 = n
    <2>1. n + 1 \in 2 .. N /\ (n + 1) - 1 = n
      BY <1>2 DEF Distinct
    <2> QED BY <2>1 DEF Exchanges
  <1>4. CASE trapper[n].alive /\ watcher[n + 1].step = "wait"
    <2>1. watcher[n + 1] # Nil
      BY <1>1, <1>3, <1>4 DEF OneAlive, Answers, Waits
    <2>2. watcher' = [watcher EXCEPT ![n + 1] = Nil]
      BY <1>1, <1>2, <1>4 DEF Types
    <2>3. Types'
      BY <1>1, <2>2 DEF Types
    <2>4. watcher'[n + 1] = Nil /\ trapper'[n] = Nil /\ WatchersKept(n + 1) /\ TrappersKept(n)
      BY <1>1, <1>2, <2>2 DEF Types, WatchersKept, TrappersKept
    <2> QED BY <1>1, <1>2, <1>4, <2>1, <2>3, <2>4 DEF Waits
  <1>5. CASE ~(trapper[n].alive /\ watcher[n + 1].step = "wait")
    <2>1. watcher' = watcher
      BY <1>1, <1>2, <1>5 DEF Types
    <2>2. Types'
      BY <1>1, <2>1 DEF Types
    <2>3. trapper'[n] = Nil /\ WatchersKept(n + 1) /\ TrappersKept(n)
      BY <1>1, <2>1 DEF Types, WatchersKept, TrappersKept
    <2> QED BY <1>1, <1>2, <1>5, <2>1, <2>2, <2>3 DEF Waits
  <1> QED BY <1>4, <1>5

LEMMA EditEffect ==
  ASSUME Distinct, Types, NEW n \in Nodes, Edit(n)
  PROVE  /\ rec[n] # Nil
         /\ \/ \E g \in Fields, value \in {0, 1} :
                  /\ rec'[n] # Nil /\ rec'[n][g] = value /\ last'[g] = value
                  /\ \A f \in Fields : f # g => rec'[n][f] = rec[n][f] /\ last'[f] = last[f] /\ writers'[f] = writers[f]
                  /\ writers'[g] = writers[g] \cup {n}
            \/ \A f \in Fields : writers'[f] = Nodes
         /\ \A m \in Nodes : m # n => rec'[m] = rec[m]
         /\ "stop" \in gap => "stop" \in gap'
         /\ UNCHANGED <<old, new, watcher, waiting, trapper>>
         /\ Types'
  <1>1. /\ rec[n] # Nil
        /\ gap' = gap \cup (IF Between(n) THEN {"edit"} ELSE {}) \cup (IF TakenBack(n) THEN {"back"} ELSE {})
        /\ UNCHANGED <<old, new, watcher, waiting, trapper>>
    BY DEF Edit, processes
  <1>2. ASSUME NEW g \in Fields, NEW value \in {0, 1},
               rec' = [rec EXCEPT ![n] = [rec[n] EXCEPT ![g] = value]], last' = [last EXCEPT ![g] = value],
               writers' = [writers EXCEPT ![g] = writers[g] \cup {n}]
        PROVE  /\ rec'[n] # Nil /\ rec'[n][g] = value /\ last'[g] = value
               /\ \A f \in Fields : f # g => rec'[n][f] = rec[n][f] /\ last'[f] = last[f] /\ writers'[f] = writers[f]
               /\ writers'[g] = writers[g] \cup {n}
               /\ \A m \in Nodes : m # n => rec'[m] = rec[m]
               /\ Types'
    <2>1. PICK r : r = [rec[n] EXCEPT ![g] = value]
      OBVIOUS
    <2>2. r \in Record /\ r[g] = value /\ \A f \in Fields : f # g => r[f] = rec[n][f]
      <3>1. rec[n] \in Record
        BY <1>1 DEF Types
      <3> QED BY <2>1, <3>1 DEF Record, Value
    <2>3. rec' = [rec EXCEPT ![n] = r] /\ rec'[n] = r /\ r # Nil
      BY <1>2, <2>1, <2>2 DEF Types, Distinct
    <2>4. /\ last'[g] = value /\ last' \in [Fields -> Value]
          /\ \A f \in Fields : f # g => last'[f] = last[f]
      BY <1>2 DEF Types, Value
    <2>5. /\ writers'[g] = writers[g] \cup {n} /\ writers' \in [Fields -> SUBSET Nodes]
          /\ \A f \in Fields : f # g => writers'[f] = writers[f]
      BY <1>2 DEF Types
    <2>6. Types'
      BY <1>1, <2>2, <2>3, <2>4, <2>5 DEF Types
    <2>7. \A m \in Nodes : m # n => rec'[m] = rec[m]
      BY <2>3 DEF Types
    <2> QED BY <2>2, <2>3, <2>4, <2>5, <2>6, <2>7
  <1>3. ASSUME rec' = [rec EXCEPT ![n] = Nil], writers' = [f \in Fields |-> Nodes], last' = last
        PROVE  /\ \A f \in Fields : writers'[f] = Nodes
               /\ \A m \in Nodes : m # n => rec'[m] = rec[m]
               /\ Types'
    BY <1>1, <1>3 DEF Types
  <1>4. "stop" \in gap => "stop" \in gap'
    BY <1>1
  <1>5. \/ \E g \in Fields, value \in {0, 1} :
              /\ rec' = [rec EXCEPT ![n] = [rec[n] EXCEPT ![g] = value]] /\ last' = [last EXCEPT ![g] = value]
              /\ writers' = [writers EXCEPT ![g] = writers[g] \cup {n}]
        \/ rec' = [rec EXCEPT ![n] = Nil] /\ writers' = [f \in Fields |-> Nodes] /\ last' = last
    BY DEF Edit, Types
  <1>6. CASE \E g \in Fields, value \in {0, 1} :
              /\ rec' = [rec EXCEPT ![n] = [rec[n] EXCEPT ![g] = value]] /\ last' = [last EXCEPT ![g] = value]
              /\ writers' = [writers EXCEPT ![g] = writers[g] \cup {n}]
    <2>1. PICK g \in Fields, value \in {0, 1} :
              /\ rec' = [rec EXCEPT ![n] = [rec[n] EXCEPT ![g] = value]] /\ last' = [last EXCEPT ![g] = value]
              /\ writers' = [writers EXCEPT ![g] = writers[g] \cup {n}]
      BY <1>6
    <2> QED BY <1>1, <1>2, <1>4, <2>1
  <1> QED BY <1>1, <1>3, <1>4, <1>5, <1>6
-----------------------------------------------------------------------------
(* The exchange between n and its master is all that a step touches.       *)
LEMMA OneExchangeStep ==
  ASSUME Distinct, Exchanges, NEW n \in 2 .. N, WatchersKept(n), TrappersKept(n - 1),
         watcher'[n] # Nil => trapper[n] = Nil /\ (watcher'[n].step = "sign" => watcher'[n].data.op = "update"),
         trapper'[n - 1] # Nil =>
            watcher[n - 1] = Nil /\ (trapper'[n - 1].step = "sign" => trapper'[n - 1].data.op = "update"),
         OneAlive(n)'
  PROVE  Exchanges'
  <1>1. /\ n \in Nodes /\ n - 1 \in Nodes /\ n # 1 /\ n - 1 # N /\ n - 1 # n /\ 1 \in Nodes /\ N \in Nodes
        /\ N \in Nat
    BY DEF Nodes, Distinct
  <1>2. Ends'
    BY <1>1 DEF Exchanges, Ends, WatchersKept, TrappersKept
  <1>3. OneExchange'
    <2> SUFFICES ASSUME NEW m \in Nodes PROVE watcher'[m] = Nil \/ trapper'[m] = Nil
      BY DEF OneExchange
    <2>1. watcher[m] = Nil \/ trapper[m] = Nil
      BY DEF Exchanges, OneExchange
    <2>2. CASE m = n
      BY <1>1, <2>2 DEF TrappersKept
    <2>3. CASE m = n - 1
      BY <1>1, <2>3 DEF WatchersKept
    <2>4. CASE m # n /\ m # n - 1
      BY <2>1, <2>4 DEF WatchersKept, TrappersKept
    <2> QED BY <2>2, <2>3, <2>4
  <1>4. SignsUpdates'
    <2> SUFFICES ASSUME NEW m \in Nodes
                 PROVE  /\ watcher'[m] # Nil /\ watcher'[m].step = "sign" => watcher'[m].data.op = "update"
                        /\ trapper'[m] # Nil /\ trapper'[m].step = "sign" => trapper'[m].data.op = "update"
      BY DEF SignsUpdates
    <2>1. /\ m # n => watcher'[m] = watcher[m]
          /\ m # n - 1 => trapper'[m] = trapper[m]
      BY DEF WatchersKept, TrappersKept
    <2> QED BY <2>1 DEF Exchanges, SignsUpdates
  <1>5. ASSUME NEW m \in 2 .. N PROVE OneAlive(m)'
    <2>1. m \in Nodes /\ m - 1 \in Nodes /\ (m # n => m - 1 # n - 1)
      BY <1>1 DEF Nodes
    <2>2. CASE m = n
      BY <2>2
    <2>3. CASE m # n
      <3>1. /\ watcher'[m] = watcher[m] /\ trapper'[m - 1] = trapper[m - 1] /\ waiting'[m - 1] = waiting[m - 1]
            /\ OneAlive(m)
        BY <2>1, <2>3 DEF Exchanges, WatchersKept, TrappersKept
      <3> QED BY <3>1, Zenon DEF OneAlive, Waits, Answers
    <2> QED BY <2>2, <2>3
  <1> QED BY <1>2, <1>3, <1>4, <1>5 DEF Exchanges

LEMMA NodeAlive ==
  ASSUME Exchanges, NEW n \in 2 .. N
  PROVE  OneAlive(n)
  BY DEF Exchanges

(* A step of the node watcher of n, and one of a trapper of n - 1.         *)
LEMMA WatcherExchanges ==
  ASSUME Distinct, Types, Exchanges, NEW n \in Nodes, process_nodes(n) \/ StopWatcher(n)
  PROVE  Exchanges'
  <1>1. ASSUME watcher[n] # Nil PROVE trapper[n] = Nil
    BY <1>1 DEF Exchanges, OneExchange
  <1>2. ASSUME NEW m \in Nodes, trapper[m] # Nil PROVE watcher[m] = Nil
    BY <1>2 DEF Exchanges, OneExchange
  <1>3. ASSUME NEW m \in Nodes, trapper[m] # Nil, trapper[m].step = "sign" PROVE trapper[m].data.op = "update"
    BY <1>3 DEF Exchanges, SignsUpdates
  <1>4. CASE calculate_checksums(n)
    <2>1. /\ n \in 2 .. N /\ watcher[n] = Nil /\ trapper[n] = Nil
          /\ watcher'[n] # Nil /\ watcher'[n].step = "collect"
          /\ WatchersKept(n) /\ waiting' = waiting /\ trapper' = trapper
      BY <1>4, CalculateEffect
    <2>2. OneAlive(n)'
      BY <2>1, NodeAlive DEF OneAlive, Waits, Answers
    <2>3. n - 1 \in Nodes /\ TrappersKept(n - 1)
      BY <2>1 DEF Nodes, TrappersKept, Distinct
    <2> QED BY <1>2, <1>3, <2>1, <2>2, <2>3, OneExchangeStep
  <1>5. CASE SendChanges(n)
    <2>1. /\ n \in 2 .. N /\ n - 1 \in Nodes /\ watcher[n] # Nil /\ watcher[n].step = "collect"
          /\ watcher'[n] # Nil /\ watcher'[n].step = "wait"
          /\ WatchersKept(n) /\ TrappersKept(n - 1) /\ trapper' = trapper
          /\ \E x \in Request : waiting[n - 1] \in Seq(Request) /\ waiting'[n - 1] = Append(waiting[n - 1], x)
      BY <1>5, SendChangesEffect
    <2>2. (\A r \in Sent(waiting[n - 1]) : ~r.alive) /\ ~Answers(n - 1)
      BY <2>1, NodeAlive DEF OneAlive, Waits
    <2>3. PICK x \in Request : /\ waiting[n - 1] \in Seq(Request) /\ waiting'[n - 1] = Append(waiting[n - 1], x)
      BY <2>1
    <2>4. AliveOnce(waiting'[n - 1]) /\ Waits(n)' /\ ~Answers(n - 1)'
      BY <2>1, <2>2, <2>3, Queued DEF Waits, Answers
    <2>5. OneAlive(n)'
      BY <2>4 DEF OneAlive
    <2> QED BY <1>1, <1>2, <1>3, <2>1, <2>5, OneExchangeStep
  <1>6. CASE ReadAnswer(n)
    <2>1. /\ n \in 2 .. N /\ n - 1 \in Nodes /\ watcher[n] # Nil /\ watcher[n].step = "answer"
          /\ watcher'[n] # Nil /\ watcher'[n].data = watcher[n].data /\ watcher'[n].step = AfterStored(watcher[n].data)
          /\ WatchersKept(n) /\ waiting' = waiting /\ trapper' = trapper
      BY <1>6, ReadAnswerEffect
    <2>2. watcher'[n].step \in {"sign", "stored"} /\ (watcher'[n].step = "sign" => watcher'[n].data.op = "update")
      BY <2>1 DEF AfterStored
    <2>3. OneAlive(n)'
      BY <2>1, <2>2, NodeAlive DEF OneAlive, Waits, Answers
    <2> QED BY <1>1, <1>2, <1>3, <2>1, <2>2, <2>3, OneExchangeStep DEF TrappersKept
  <1>7. CASE SignAnswer(n)
    <2>1. /\ n \in 2 .. N /\ n - 1 \in Nodes /\ watcher[n] # Nil /\ watcher[n].step = "sign"
          /\ watcher'[n] # Nil /\ watcher'[n].step = "stored"
          /\ WatchersKept(n) /\ waiting' = waiting /\ trapper' = trapper
      BY <1>7, SignAnswerEffect
    <2>2. OneAlive(n)'
      BY <2>1, NodeAlive DEF OneAlive, Waits, Answers
    <2> QED BY <1>1, <1>2, <1>3, <2>1, <2>2, OneExchangeStep DEF TrappersKept
  <1>8. CASE EndExchange(n)
    <2>1. /\ n \in 2 .. N /\ n - 1 \in Nodes /\ watcher[n] # Nil /\ watcher[n].step = "stored" /\ watcher'[n] = Nil
          /\ WatchersKept(n) /\ TrappersKept(n - 1) /\ ~Answers(n - 1)' /\ waiting' = waiting
          /\ trapper[n - 1] = Nil => trapper'[n - 1] = Nil
          /\ trapper[n - 1] # Nil => /\ trapper'[n - 1].data = trapper[n - 1].data
                                     /\ trapper'[n - 1].step \in {"OK", trapper[n - 1].step}
      BY <1>8, EndExchangeEffect
    <2>2. OneAlive(n)'
      BY <2>1, NodeAlive DEF OneAlive, Waits
    <2> QED BY <1>2, <1>3, <2>1, <2>2, OneExchangeStep
  <1>9. CASE StopWatcher(n)
    <2>1. /\ n \in 2 .. N /\ n - 1 \in Nodes /\ watcher[n] # Nil /\ watcher'[n] = Nil
          /\ WatchersKept(n) /\ TrappersKept(n - 1) /\ ~Answers(n - 1)'
          /\ (\A r \in Sent(waiting'[n - 1]) : ~r.alive) /\ AliveOnce(waiting'[n - 1])
          /\ trapper[n - 1] = Nil => trapper'[n - 1] = Nil
          /\ trapper[n - 1] # Nil => /\ trapper'[n - 1].data = trapper[n - 1].data
                                     /\ trapper'[n - 1].step = trapper[n - 1].step
      BY <1>9, StopWatcherEffect
    <2>2. OneAlive(n)'
      BY <2>1 DEF OneAlive
    <2> QED BY <1>2, <1>3, <2>1, <2>2, OneExchangeStep
  <1> QED BY <1>4, <1>5, <1>6, <1>7, <1>8, <1>9 DEF process_nodes

LEMMA TrapperExchanges ==
  ASSUME Distinct, Types, Exchanges, NEW n \in 2 .. N, process_trapper(n - 1) \/ StopTrapper(n - 1)
  PROVE  Exchanges'
  <1>1. n \in Nodes /\ n - 1 \in Nodes /\ (n - 1) + 1 = n
    BY DEF Nodes, Distinct
  <1>2. ASSUME watcher[n] # Nil
        PROVE  trapper[n] = Nil /\ (watcher[n].step = "sign" => watcher[n].data.op = "update")
    BY <1>1, <1>2 DEF Exchanges, OneExchange, SignsUpdates
  <1>3. CASE node_sync(n - 1)
    <2>1. PICK m \in Nodes : m = n - 1
      BY <1>1
    <2>2. /\ watcher[m] = Nil /\ trapper[m] = Nil
          /\ waiting[m] \in Seq(Request) /\ waiting[m] # <<>> /\ waiting'[m] = Tail(waiting[m])
          /\ trapper'[m] # Nil /\ trapper'[m].data = Head(waiting[m]).data
          /\ trapper'[m].alive = Head(waiting[m]).alive
          /\ trapper'[m].step = AfterStored(Head(waiting[m]).data)
          /\ TrappersKept(m) /\ watcher' = watcher
      BY <1>3, <2>1, NodeSyncEffect
    <2>3. trapper'[m].step \in {"sign", "stored"} /\ (trapper'[m].step = "sign" => trapper'[m].data.op = "update")
      BY <2>2 DEF AfterStored
    <2>4. /\ \A r \in Sent(waiting[m]) : r.alive => Waits(n)
          /\ AliveOnce(waiting[m])
      BY <2>1, NodeAlive DEF OneAlive
    <2>5. PICK x : x = Head(waiting[m])
      OBVIOUS
    <2>6. /\ x \in Sent(waiting[m]) /\ Sent(waiting'[m]) \subseteq Sent(waiting[m])
          /\ AliveOnce(waiting'[m]) /\ (x.alive => \A r \in Sent(waiting'[m]) : ~r.alive)
      BY <2>2, <2>4, <2>5, Taken
    <2>7. Waits(n)' = Waits(n) /\ (Answers(m)' => x.alive)
      BY <2>2, <2>5 DEF Waits, Answers
    <2>8. \A r \in Sent(waiting'[m]) : r.alive => Waits(n)' /\ ~Answers(m)'
      BY <2>4, <2>6, <2>7
    <2>9. Answers(m)' => Waits(n)'
      BY <2>4, <2>6, <2>7
    <2>10. OneAlive(n)'
      BY <2>1, <2>3, <2>6, <2>8, <2>9 DEF OneAlive
    <2> QED BY <1>2, <2>1, <2>2, <2>3, <2>10, OneExchangeStep DEF WatchersKept
  <1>4. CASE SignChanges(n - 1)
    <2>1. /\ watcher[n - 1] = Nil /\ trapper[n - 1] # Nil /\ trapper[n - 1].step = "sign"
          /\ trapper'[n - 1] # Nil /\ trapper'[n - 1].alive = trapper[n - 1].alive /\ trapper'[n - 1].step = "stored"
          /\ TrappersKept(n - 1) /\ watcher' = watcher /\ waiting' = waiting
      BY <1>1, <1>4, SignChangesEffect
    <2>2. OneAlive(n)'
      BY <2>1, NodeAlive DEF OneAlive, Waits, Answers
    <2> QED BY <1>2, <2>1, <2>2, OneExchangeStep DEF WatchersKept
  <1>5. CASE CalculateAnswer(n - 1)
    <2>1. /\ watcher[n - 1] = Nil /\ trapper[n - 1] # Nil /\ trapper[n - 1].step = "stored"
          /\ trapper'[n - 1] # Nil /\ trapper'[n - 1].alive = trapper[n - 1].alive /\ trapper'[n - 1].step = "collect"
          /\ TrappersKept(n - 1) /\ watcher' = watcher /\ waiting' = waiting
      BY <1>1, <1>5, CalculateAnswerEffect
    <2>2. OneAlive(n)'
      BY <2>1, NodeAlive DEF OneAlive, Waits, Answers
    <2> QED BY <1>2, <2>1, <2>2, OneExchangeStep DEF WatchersKept
  <1>6. CASE SendAnswer(n - 1)
    <2>1. /\ watcher[n - 1] = Nil /\ trapper[n - 1] # Nil /\ trapper[n - 1].step = "collect" /\ TrappersKept(n - 1)
          /\ \/ /\ trapper[n - 1].alive /\ watcher'[n] # Nil /\ watcher'[n].step = "answer" /\ WatchersKept(n)
                /\ trapper'[n - 1] # Nil /\ trapper'[n - 1].alive /\ trapper'[n - 1].step = "wait"
             \/ ~trapper[n - 1].alive /\ trapper'[n - 1] = Nil /\ watcher' = watcher
          /\ waiting' = waiting
      BY <1>1, <1>6, SendAnswerEffect
    <2>2. WatchersKept(n)
      BY <2>1 DEF WatchersKept
    <2>3. CASE trapper[n - 1].alive /\ watcher'[n] # Nil /\ watcher'[n].step = "answer"
               /\ trapper'[n - 1] # Nil /\ trapper'[n - 1].alive /\ trapper'[n - 1].step = "wait"
      <3>1. OneAlive(n)' /\ watcher[n] # Nil
        BY <2>1, <2>3, NodeAlive DEF OneAlive, Waits, Answers
      <3> QED BY <1>2, <2>1, <2>2, <2>3, <3>1, OneExchangeStep
    <2>4. CASE ~trapper[n - 1].alive /\ trapper'[n - 1] = Nil /\ watcher' = watcher
      <3>1. OneAlive(n)'
        BY <2>1, <2>4, NodeAlive DEF OneAlive, Waits, Answers
      <3> QED BY <1>2, <2>1, <2>2, <2>4, <3>1, OneExchangeStep
    <2> QED BY <2>1, <2>3, <2>4
  <1>7. CASE EndAnswer(n - 1)
    <2>1. /\ trapper[n - 1] # Nil /\ trapper'[n - 1] = Nil
          /\ trapper[n - 1].step = "OK" \/ ~trapper[n - 1].alive
          /\ TrappersKept(n - 1) /\ watcher' = watcher /\ waiting' = waiting
      BY <1>1, <1>7, EndAnswerEffect
    <2>2. OneAlive(n)'
      BY <2>1, NodeAlive DEF OneAlive, Waits, Answers
    <2> QED BY <1>2, <2>1, <2>2, OneExchangeStep DEF WatchersKept
  <1>8. CASE StopTrapper(n - 1)
    <2>1. /\ trapper[n - 1] # Nil /\ trapper'[n - 1] = Nil
          /\ WatchersKept(n) /\ TrappersKept(n - 1)
          /\ \/ watcher'[n] = watcher[n] /\ ~(trapper[n - 1].alive /\ Waits(n))
             \/ watcher'[n] = Nil /\ trapper[n - 1].alive /\ Waits(n)
          /\ waiting' = waiting
      BY <1>1, <1>8, StopTrapperEffect
    <2>2. OneAlive(n)'
      <3>1. OneAlive(n) /\ (trapper[n - 1].alive => Answers(n - 1))
        BY <2>1, NodeAlive DEF Answers
      <3>2. CASE watcher'[n] = watcher[n]
        BY <2>1, <3>1, <3>2 DEF OneAlive, Waits, Answers
      <3>3. CASE trapper[n - 1].alive
        BY <2>1, <3>1, <3>3 DEF OneAlive, Waits, Answers
      <3> QED BY <2>1, <3>2, <3>3
    <2> QED BY <1>2, <2>1, <2>2, OneExchangeStep
  <1> QED BY <1>3, <1>4, <1>5, <1>6, <1>7, <1>8 DEF process_trapper
-----------------------------------------------------------------------------
(* What a step leaves of a field that only e edits.                        *)
LEMMA LinkSame ==
  ASSUME NEW n \in 2 .. N, NEW f, NEW e, Link(n, f, e),
         rec'[n] = rec[n], old'[n] = old[n], new'[n] = new[n],
         rec'[n - 1] = rec[n - 1], old'[n - 1] = old[n - 1], new'[n - 1] = new[n - 1],
         watcher'[n] = watcher[n], trapper'[n - 1] = trapper[n - 1], waiting'[n - 1] = waiting[n - 1]
  PROVE  Link(n, f, e)'
  <1>1. CASE e < n
    <2>1. FromMaster(n, f)
      BY <1>1 DEF Link
    <2>2. FromMaster(n, f)'
      BY <2>1, Zenon DEF FromMaster, Known, Unmarked, Told, Answers
    <2> QED BY <1>1, <2>2 DEF Link
  <1>2. CASE ~(e < n)
    <2>1. FromSlave(n, f)
      BY <1>2 DEF Link
    <2>2. FromSlave(n, f)'
      BY <2>1, Zenon DEF FromSlave, Known, Unmarked, Answers
    <2> QED BY <1>2, <2>2 DEF Link
  <1> QED BY <1>1, <1>2

LEMMA FreshSame ==
  ASSUME NEW n \in Nodes, NEW f, NEW e, Fresh(n, f, e), rec'[n] = rec[n], new'[n] = new[n],
         Collected(n)' => Collected(n)
  PROVE  Fresh(n, f, e)'
  BY DEF Fresh

(* The neighbour that is not in the exchange: the tables of the master of  *)
(* n, or of n itself, change while it waits.                               *)
LEMMA LinkBelow ==
  ASSUME NEW n \in 2 .. N, NEW f, NEW e, Link(n, f, e),
         rec'[n] = rec[n], old'[n] = old[n], new'[n] = new[n],
         watcher'[n] = watcher[n], trapper'[n - 1] = trapper[n - 1], waiting'[n - 1] = waiting[n - 1],
         trapper[n - 1] = Nil, rec[n - 1] # Nil => rec'[n - 1] # Nil,
         e < n /\ Unmarked(n - 1, f, SLAVE) => Unmarked(n - 1, f, SLAVE)',
         ~(e < n) /\ Known(n - 1, f, SLAVE) => Known(n - 1, f, SLAVE)',
         ~(e < n) /\ rec[n - 1] = Nil => rec'[n - 1] = Nil /\ old'[n - 1] = Nil
  PROVE  Link(n, f, e)'
  <1>1. CASE e < n
    <2>1. FromMaster(n, f) /\ Known(n, f, MASTER)' = Known(n, f, MASTER) /\ ~Answers(n - 1)'
      BY <1>1 DEF Link, Known, Answers
    <2>2. FromMaster(n, f)'
      BY <1>1, <2>1 DEF FromMaster, Harmless, Brings
    <2> QED BY <1>1, <2>2 DEF Link
  <1>2. CASE ~(e < n)
    <2>1. FromSlave(n, f) /\ Unmarked(n, f, MASTER)' = Unmarked(n, f, MASTER) /\ ~Answers(n - 1)'
      BY <1>2 DEF Link, Unmarked, Answers
    <2>2. FromSlave(n, f)'
      BY <1>2, <2>1 DEF FromSlave, Harmless, Brings
    <2> QED BY <1>2, <2>2 DEF Link
  <1> QED BY <1>1, <1>2

LEMMA LinkAbove ==
  ASSUME NEW n \in 2 .. N, NEW f, NEW e, Link(n, f, e), OneAlive(n),
         rec'[n - 1] = rec[n - 1], old'[n - 1] = old[n - 1], new'[n - 1] = new[n - 1],
         watcher'[n] = watcher[n], trapper'[n - 1] = trapper[n - 1], waiting'[n - 1] = waiting[n - 1],
         watcher[n] = Nil, rec[n] # Nil => rec'[n] # Nil,
         ~(e < n) /\ Unmarked(n, f, MASTER) => Unmarked(n, f, MASTER)',
         e < n /\ Known(n, f, MASTER) => Known(n, f, MASTER)',
         e < n /\ rec[n] = Nil => rec'[n] = Nil /\ old'[n] = Nil
  PROVE  Link(n, f, e)'
  <1>1. ~Waits(n) /\ Answers(n - 1)' = Answers(n - 1)
    BY DEF Waits, Answers
  <1>2. CASE e < n
    <2>1. FromMaster(n, f) /\ Unmarked(n - 1, f, SLAVE)' = Unmarked(n - 1, f, SLAVE)
      BY <1>2 DEF Link, Unmarked
    <2>2. Told(n, f) => Told(n, f)'
      BY <1>1 DEF Told
    <2>3. FromMaster(n, f)'
      BY <1>1, <1>2, <2>1, <2>2 DEF FromMaster, Harmless, Brings
    <2> QED BY <1>2, <2>3 DEF Link
  <1>3. CASE ~(e < n)
    <2>1. FromSlave(n, f) /\ Known(n - 1, f, SLAVE)' = Known(n - 1, f, SLAVE)
      BY <1>3 DEF Link, Known
    <2>2. (\A r \in Sent(waiting[n - 1]) : ~r.alive) /\ (Answers(n - 1) => trapper[n - 1].step = "wait")
      BY <1>1 DEF OneAlive
    <2>3. FromSlave(n, f)'
      BY <1>1, <1>3, <2>1, <2>2 DEF FromSlave, Harmless, Brings
    <2> QED BY <1>3, <2>3 DEF Link
  <1> QED BY <1>2, <1>3

LEMMA WatcherStep ==
  ASSUME Distinct, Types, NEW n \in 2 .. N, NEW f \in Fields, NEW e \in Nodes, Undisturbed(f, e), last' = last,
         NodesKept(n), WatchersKept(n), TrappersKept(n - 1), trapper[n] = Nil,
         Collected(n - 1)' => Collected(n - 1), Fresh(n, f, e)', Link(n, f, e)',
         rec[n] # Nil => rec'[n] # Nil, e = n => rec'[n][f] = rec[n][f],
         ~(n < e) /\ Unmarked(n, f, SLAVE) => Unmarked(n, f, SLAVE)',
         n < e /\ Known(n, f, SLAVE) => Known(n, f, SLAVE)',
         n < e /\ rec[n] = Nil => rec'[n] = Nil /\ old'[n] = Nil
  PROVE  Undisturbed(f, e)'
  <1>1. n \in Nodes /\ n - 1 \in Nodes /\ n - 1 # n /\ N \in Nat
    BY DEF Nodes, Distinct
  <1>2. rec'[e] # Nil /\ rec'[e][f] = last'[f]
    BY DEF Undisturbed, NodesKept
  <1>3. ASSUME NEW m \in Nodes PROVE Fresh(m, f, e)'
    <2>1. Fresh(m, f, e)
      BY DEF Undisturbed
    <2>2. CASE m = n
      BY <2>2
    <2>3. CASE m = n - 1
      <3>1. rec'[m] = rec[m] /\ new'[m] = new[m]
        BY <1>1, <2>3 DEF NodesKept
      <3> QED BY <2>1, <2>3, <3>1, FreshSame
    <2>4. CASE m # n /\ m # n - 1
      <3>1. rec'[m] = rec[m] /\ new'[m] = new[m] /\ watcher'[m] = watcher[m] /\ trapper'[m] = trapper[m]
        BY <2>4 DEF NodesKept, WatchersKept, TrappersKept
      <3> QED BY <2>1, <3>1, FreshSame DEF Collected
    <2> QED BY <2>2, <2>3, <2>4
  <1>4. ASSUME NEW m \in 2 .. N PROVE Link(m, f, e)'
    <2>1. m \in Nodes /\ m - 1 \in Nodes /\ Link(m, f, e) /\ (m # n => m - 1 # n - 1)
      BY <1>1 DEF Undisturbed, Nodes
    <2>2. CASE m = n
      BY <2>2
    <2>3. CASE m # n /\ m - 1 # n
      <3>1. /\ rec'[m] = rec[m] /\ old'[m] = old[m] /\ new'[m] = new[m]
            /\ rec'[m - 1] = rec[m - 1] /\ old'[m - 1] = old[m - 1] /\ new'[m - 1] = new[m - 1]
            /\ watcher'[m] = watcher[m] /\ trapper'[m - 1] = trapper[m - 1] /\ waiting'[m - 1] = waiting[m - 1]
        BY <2>1, <2>3 DEF NodesKept, WatchersKept, TrappersKept
      <3> QED BY <2>1, <3>1, LinkSame
    <2>4. CASE m - 1 = n
      <3>1. m # n /\ (e < m <=> ~(n < e))
        BY <2>4 DEF Nodes
      <3>2. /\ rec'[m] = rec[m] /\ old'[m] = old[m] /\ new'[m] = new[m]
            /\ watcher'[m] = watcher[m] /\ trapper'[m - 1] = trapper[m - 1] /\ waiting'[m - 1] = waiting[m - 1]
        BY <2>1, <2>4, <3>1 DEF NodesKept, WatchersKept, TrappersKept
      <3>3. /\ trapper[m - 1] = Nil /\ (rec[m - 1] # Nil => rec'[m - 1] # Nil)
            /\ e < m /\ Unmarked(m - 1, f, SLAVE) => Unmarked(m - 1, f, SLAVE)'
            /\ ~(e < m) /\ Known(m - 1, f, SLAVE) => Known(m - 1, f, SLAVE)'
            /\ ~(e < m) /\ rec[m - 1] = Nil => rec'[m - 1] = Nil /\ old'[m - 1] = Nil
        BY <2>4, <3>1 DEF Unmarked, Known
      <3> QED BY <2>1, <3>2, <3>3, LinkBelow
    <2> QED BY <2>2, <2>3, <2>4
  <1> QED BY <1>2, <1>3, <1>4 DEF Undisturbed

LEMMA TrapperStep ==
  ASSUME Distinct, Types, Exchanges, NEW n \in 2 .. N, NEW k \in Nodes, k = n - 1,
         NEW f \in Fields, NEW e \in Nodes, Undisturbed(f, e), last' = last,
         NodesKept(k), WatchersKept(n), TrappersKept(k), watcher[k] = Nil,
         Collected(n)' => Collected(n), Fresh(k, f, e)', Link(n, f, e)',
         rec[k] # Nil => rec'[k] # Nil, e = k => rec'[k][f] = rec[k][f],
         ~(e < k) /\ Unmarked(k, f, MASTER) => Unmarked(k, f, MASTER)',
         e < k /\ Known(k, f, MASTER) => Known(k, f, MASTER)',
         e < k /\ rec[k] = Nil => rec'[k] = Nil /\ old'[k] = Nil
  PROVE  Undisturbed(f, e)'
  <1>1. n \in Nodes /\ k # n /\ N \in Nat
    BY DEF Nodes, Distinct
  <1>2. rec'[e] # Nil /\ rec'[e][f] = last'[f]
    BY DEF Undisturbed, NodesKept
  <1>3. ASSUME NEW m \in Nodes PROVE Fresh(m, f, e)'
    <2>1. Fresh(m, f, e)
      BY DEF Undisturbed
    <2>2. CASE m = k
      BY <2>2
    <2>3. CASE m = n
      <3>1. rec'[m] = rec[m] /\ new'[m] = new[m]
        BY <1>1, <2>3 DEF NodesKept
      <3> QED BY <2>1, <2>3, <3>1, FreshSame
    <2>4. CASE m # n /\ m # k
      <3>1. rec'[m] = rec[m] /\ new'[m] = new[m] /\ watcher'[m] = watcher[m] /\ trapper'[m] = trapper[m]
        BY <2>4 DEF NodesKept, WatchersKept, TrappersKept
      <3> QED BY <2>1, <3>1, FreshSame DEF Collected
    <2> QED BY <2>2, <2>3, <2>4
  <1>4. ASSUME NEW m \in 2 .. N PROVE Link(m, f, e)'
    <2>1. m \in Nodes /\ m - 1 \in Nodes /\ Link(m, f, e) /\ (m # n => m - 1 # k)
      BY <1>1 DEF Undisturbed, Nodes
    <2>2. CASE m = n
      BY <2>2
    <2>3. CASE m # n /\ m # k
      <3>1. /\ rec'[m] = rec[m] /\ old'[m] = old[m] /\ new'[m] = new[m]
            /\ rec'[m - 1] = rec[m - 1] /\ old'[m - 1] = old[m - 1] /\ new'[m - 1] = new[m - 1]
            /\ watcher'[m] = watcher[m] /\ trapper'[m - 1] = trapper[m - 1] /\ waiting'[m - 1] = waiting[m - 1]
        BY <2>1, <2>3 DEF NodesKept, WatchersKept, TrappersKept
      <3> QED BY <2>1, <3>1, LinkSame
    <2>4. CASE m = k
      <3>1. m # n /\ m - 1 # k
        BY <1>1, <2>1, <2>4
      <3>2. /\ rec'[m - 1] = rec[m - 1] /\ old'[m - 1] = old[m - 1] /\ new'[m - 1] = new[m - 1]
            /\ watcher'[m] = watcher[m] /\ trapper'[m - 1] = trapper[m - 1] /\ waiting'[m - 1] = waiting[m - 1]
        BY <2>1, <3>1 DEF NodesKept, WatchersKept, TrappersKept
      <3>3. OneAlive(m)
        BY NodeAlive
      <3>4. /\ watcher[m] = Nil /\ (rec[m] # Nil => rec'[m] # Nil)
            /\ ~(e < m) /\ Unmarked(m, f, MASTER) => Unmarked(m, f, MASTER)'
            /\ e < m /\ Known(m, f, MASTER) => Known(m, f, MASTER)'
            /\ e < m /\ rec[m] = Nil => rec'[m] = Nil /\ old'[m] = Nil
        BY <2>4 DEF Unmarked, Known
      <3> QED BY <2>1, <3>2, <3>3, <3>4, LinkAbove
    <2> QED BY <2>2, <2>3, <2>4
  <1> QED BY <1>2, <1>3, <1>4 DEF Undisturbed

LEMMA NoRow ==
  ASSUME Distinct, NEW f \in Fields, NEW e \in Nodes, Undisturbed(f, e), NEW n \in Nodes, rec[n] = Nil
  PROVE  old[n] = Nil
  <1>1. n # e /\ N \in Nat
    BY DEF Undisturbed, Distinct
  <1>2. CASE e < n
    <2>1. n \in 2 .. N
      BY <1>1, <1>2 DEF Nodes
    <2>2. FromMaster(n, f)
      BY <1>2, <2>1 DEF Undisturbed, Link
    <2> QED BY <2>2 DEF FromMaster
  <1>3. CASE ~(e < n)
    <2>1. PICK m \in 2 .. N : n = m - 1 /\ ~(e < m)
      <3>1. n + 1 \in 2 .. N /\ n = (n + 1) - 1 /\ ~(e < n + 1)
        BY <1>1, <1>3 DEF Nodes
      <3> QED BY <3>1
    <2>2. FromSlave(m, f)
      BY <2>1 DEF Undisturbed, Link
    <2> QED BY <2>1, <2>2 DEF FromSlave
  <1> QED BY <1>2, <1>3

(* The steps that change neither records nor rows of before.               *)
LEMMA WatcherStepOnly ==
  ASSUME Distinct, Types, NEW n \in 2 .. N, NEW f \in Fields, NEW e \in Nodes, Undisturbed(f, e), last' = last,
         rec' = rec, old' = old, NodesKept(n), WatchersKept(n), TrappersKept(n - 1), trapper[n] = Nil,
         Collected(n - 1)' => Collected(n - 1), Fresh(n, f, e)', Link(n, f, e)'
  PROVE  Undisturbed(f, e)'
  <1>1. \A s : Known(n, f, s)' = Known(n, f, s) /\ Unmarked(n, f, s)' = Unmarked(n, f, s)
    BY DEF Known, Unmarked
  <1>2. n \in Nodes
    BY DEF Nodes, Distinct
  <1>3. rec[n] = Nil => old[n] = Nil
    BY <1>2, NoRow
  <1> QED BY <1>1, <1>3, WatcherStep

LEMMA TrapperStepOnly ==
  ASSUME Distinct, Types, Exchanges, NEW n \in 2 .. N, NEW k \in Nodes, k = n - 1,
         NEW f \in Fields, NEW e \in Nodes, Undisturbed(f, e), last' = last,
         rec' = rec, old' = old, NodesKept(k), WatchersKept(n), TrappersKept(k), watcher[k] = Nil,
         Collected(n)' => Collected(n), Fresh(k, f, e)', Link(n, f, e)'
  PROVE  Undisturbed(f, e)'
  <1>1. \A s : Known(k, f, s)' = Known(k, f, s) /\ Unmarked(k, f, s)' = Unmarked(k, f, s)
    BY DEF Known, Unmarked
  <1>2. rec[k] = Nil => old[k] = Nil
    BY NoRow
  <1> QED BY <1>1, <1>2, TrapperStep

(* The check sums of a node after an update of them.                       *)
LEMMA OtherSide ==
  ASSUME Distinct, Types, NEW n \in Nodes, NEW f \in Fields, NEW curr \in Record \cup {Nil},
         NEW side \in Sides, NEW s \in Sides, s # side \/ curr = Nil, NEW list,
         old'[n] = update_checksums(old[n], curr, side, list), s # side => Unmarked(n, f, s)
  PROVE  Unmarked(n, f, s)'
  <1>1. PICK prev \in CheckSums \cup {Nil} : prev = old[n]
    BY DEF Types
  <1>2. \/ s # side /\ (prev = Nil \/ prev.sync[f][s] # "1")
        \/ s = side /\ curr = Nil
    BY <1>1 DEF Unmarked
  <1>3. PICK row : row = update_checksums(prev, curr, side, list)
    OBVIOUS
  <1>4. row = Nil \/ row.sync[f][s] # "1"
    BY <1>2, <1>3, StaysUnmarked
  <1> QED BY <1>1, <1>3, <1>4 DEF Unmarked

LEMMA StillKnown ==
  ASSUME Distinct, Types, NEW n \in Nodes, NEW f \in Fields, NEW curr \in Record,
         NEW side \in Sides, NEW s \in Sides, NEW list, Known(n, f, s),
         f \in list => curr[f] = rec[n][f], rec'[n][f] = rec[n][f],
         old'[n] = update_checksums(old[n], curr, side, list)
  PROVE  Known(n, f, s)'
  <1>1. PICK prev \in CheckSums : prev = old[n]
    BY DEF Types, Known
  <1>2. prev.sync[f][s] = "1" /\ prev.ck[f] = rec[n][f]
    BY <1>1 DEF Known
  <1>3. PICK row : row = update_checksums(prev, curr, side, list)
    OBVIOUS
  <1>4. row # Nil /\ row.sync[f][s] = "1" /\ row.ck[f] = prev.ck[f]
    BY <1>2, <1>3, StaysKnown
  <1> QED BY <1>1, <1>2, <1>3, <1>4 DEF Known

LEMMA NowKnown ==
  ASSUME Distinct, Types, NEW n \in Nodes, NEW f \in Fields, NEW side \in Sides, NEW list, f \in list,
         rec[n] # Nil, rec'[n] = rec[n], old'[n] = update_checksums(old[n], rec[n], side, list)
  PROVE  Known(n, f, side)'
  <1>1. PICK prev \in CheckSums \cup {Nil} : prev = old[n]
    BY DEF Types
  <1>2. PICK curr \in Record : curr = rec[n]
    BY DEF Types
  <1>3. PICK row : row = update_checksums(prev, curr, side, list)
    OBVIOUS
  <1>4. row # Nil /\ row.sync[f][side] = "1" /\ row.ck[f] = curr[f]
    BY <1>3, BecomesKnown
  <1> QED BY <1>1, <1>2, <1>3, <1>4 DEF Known

LEMMA StillNoRow ==
  ASSUME Distinct, NEW n \in Nodes, NEW side \in Sides, NEW list, old[n] = Nil,
         old'[n] = update_checksums(old[n], Nil, side, list)
  PROVE  old'[n] = Nil
  BY UpdatedType

-----------------------------------------------------------------------------
(* The steps of the node watcher of n.                                     *)
LEMMA CalculateKeeps ==
  ASSUME Distinct, Types, Exchanges, NEW n \in Nodes, calculate_checksums(n),
         NEW f \in Fields, NEW e \in Nodes, Undisturbed(f, e)
  PROVE  Undisturbed(f, e)'
  <1>1. /\ n \in 2 .. N /\ watcher[n] = Nil /\ trapper[n] = Nil
        /\ watcher'[n] # Nil /\ watcher'[n].step = "collect" /\ watcher'[n].data = Nothing
        /\ new'[n] = rec[n] /\ NodesKept(n) /\ WatchersKept(n)
        /\ rec' = rec /\ old' = old /\ waiting' = waiting /\ trapper' = trapper /\ last' = last
    BY CalculateEffect
  <1>2. n - 1 \in Nodes /\ n - 1 # n /\ TrappersKept(n - 1) /\ Link(n, f, e)
    BY <1>1 DEF Nodes, TrappersKept, Distinct, Undisturbed
  <1>3. ~Answers(n - 1) /\ \A r \in Sent(waiting[n - 1]) : ~r.alive
    BY <1>1, NodeAlive DEF OneAlive, Waits
  <1>4. Fresh(n, f, e)'
    BY <1>1 DEF Fresh
  <1>5. Collected(n - 1)' => Collected(n - 1)
    BY <1>1, <1>2 DEF Collected, WatchersKept
  <1>6. CASE e < n
    <2>1. FromMaster(n, f)
      BY <1>2, <1>6 DEF Link
    <2>2. new'[n - 1] = new[n - 1] /\ ~Answers(n - 1)'
      BY <1>1, <1>2, <1>3 DEF NodesKept, Answers
    <2>3. Told(n, f) => Told(n, f)'
      BY <1>1, <1>3, <2>2 DEF Told
    <2>4. Brings(watcher'[n].data, f, rec[n - 1], rec[n])
      BY <1>1 DEF Brings, Nothing
    <2>5. /\ Known(n, f, MASTER)' = Known(n, f, MASTER) /\ Unmarked(n - 1, f, SLAVE)' = Unmarked(n - 1, f, SLAVE)
      BY <1>1 DEF Known, Unmarked
    <2>6. FromMaster(n, f)'
      BY <1>1, <2>1, <2>2, <2>3, <2>4, <2>5 DEF FromMaster
    <2>7. Link(n, f, e)'
      BY <1>6, <2>6 DEF Link
    <2> QED BY <1>1, <1>2, <1>4, <1>5, <2>7, WatcherStepOnly
  <1>7. CASE ~(e < n)
    <2>1. FromSlave(n, f)
      BY <1>2, <1>7 DEF Link
    <2>2. ~Answers(n - 1)' /\ Harmless(watcher'[n].data, f, rec[n - 1])
      BY <1>1, <1>3 DEF Answers, Harmless, Nothing
    <2>3. /\ Known(n - 1, f, SLAVE)' = Known(n - 1, f, SLAVE) /\ Unmarked(n, f, MASTER)' = Unmarked(n, f, MASTER)
      BY <1>1 DEF Known, Unmarked
    <2>4. FromSlave(n, f)'
      BY <1>1, <1>3, <2>1, <2>2, <2>3 DEF FromSlave
    <2>5. Link(n, f, e)'
      BY <1>7, <2>4 DEF Link
    <2> QED BY <1>1, <1>2, <1>4, <1>5, <2>5, WatcherStepOnly
  <1> QED BY <1>6, <1>7

LEMMA SendChangesKeeps ==
  ASSUME Distinct, Types, Exchanges, NEW n \in Nodes, SendChanges(n),
         NEW f \in Fields, NEW e \in Nodes, Undisturbed(f, e)
  PROVE  Undisturbed(f, e)'
  <1>1. /\ n \in 2 .. N /\ n - 1 \in Nodes /\ watcher[n] # Nil /\ watcher[n].step = "collect"
        /\ watcher'[n] # Nil /\ watcher'[n].step = "wait" /\ watcher'[n].data = watcher[n].data
        /\ WatchersKept(n) /\ TrappersKept(n - 1)
        /\ \E x \in Request : /\ x.data = get_config_data(n, MASTER) /\ x.alive
                              /\ waiting[n - 1] \in Seq(Request)
                              /\ waiting'[n - 1] = Append(waiting[n - 1], x)
        /\ rec' = rec /\ old' = old /\ new' = new /\ trapper' = trapper /\ last' = last
    BY SendChangesEffect
  <1>2. /\ trapper[n] = Nil /\ n - 1 # n /\ Link(n, f, e) /\ Fresh(n, f, e) /\ Collected(n) /\ NodesKept(n)
        /\ (rec[n] = Nil => old[n] = Nil)
    BY <1>1, NoRow DEF Exchanges, OneExchange, Undisturbed, Collected, NodesKept
  <1>3. ~Answers(n - 1) /\ \A r \in Sent(waiting[n - 1]) : ~r.alive
    BY <1>1, NodeAlive DEF OneAlive, Waits
  <1>4. Fresh(n, f, e)'
    BY <1>1, <1>2 DEF Fresh
  <1>5. Collected(n - 1)' => Collected(n - 1)
    BY <1>1, <1>2 DEF Collected, WatchersKept
  <1>6. PICK x \in Request : /\ x.data = get_config_data(n, MASTER)
                            /\ waiting[n - 1] \in Seq(Request) /\ waiting'[n - 1] = Append(waiting[n - 1], x)
    BY <1>1
  <1>7. Sent(waiting'[n - 1]) = Sent(waiting[n - 1]) \cup {x}
    BY <1>6, Queued
  <1>8. /\ \A m, s : Known(m, f, s)' = Known(m, f, s) /\ Unmarked(m, f, s)' = Unmarked(m, f, s)
        /\ ~Answers(n - 1)'
    BY <1>1, <1>3 DEF Known, Unmarked, Answers
  <1>9. CASE e < n
    <2>1. FromMaster(n, f) /\ n # e
      BY <1>2, <1>9 DEF Link, Nodes
    <2>2. Told(n, f) => Told(n, f)'
      BY <1>1, <1>3 DEF Told
    <2>3. Harmless(x.data, f, rec[n])
      <3>1. new[n] = Nil <=> rec[n] = Nil
        BY <1>2 DEF Fresh
      <3>2. ASSUME rec[n] # Nil PROVE Known(n, f, MASTER) /\ new[n][f] = rec[n][f]
        BY <1>1, <1>2, <2>1, <3>2 DEF Fresh, FromMaster
      <3> QED BY <1>2, <1>6, <3>1, <3>2, SendsHarmless
    <2>4. FromMaster(n, f)'
      BY <1>1, <1>7, <1>8, <2>1, <2>2, <2>3 DEF FromMaster
    <2>5. Link(n, f, e)'
      BY <1>9, <2>4 DEF Link
    <2> QED BY <1>1, <1>2, <1>4, <1>5, <2>5, WatcherStepOnly
  <1>10. CASE ~(e < n)
    <2>1. FromSlave(n, f)
      BY <1>2, <1>10 DEF Link
    <2>2. /\ Brings(x.data, f, rec[n], rec[n - 1])
          /\ rec[n - 1] # Nil \/ new[n] = Nil \/ Carries(x.data, f)
      <3>1. new[n] = Nil <=> rec[n] = Nil
        BY <1>2 DEF Fresh
      <3>2. rec[n - 1] = Nil => Unmarked(n, f, MASTER)
        BY <2>1 DEF FromSlave
      <3> QED BY <1>2, <1>6, <3>1, <3>2, SendsAll
    <2>3. FromSlave(n, f)'
      BY <1>1, <1>3, <1>7, <1>8, <2>1, <2>2 DEF FromSlave
    <2>4. Link(n, f, e)'
      BY <1>10, <2>3 DEF Link
    <2> QED BY <1>1, <1>2, <1>4, <1>5, <2>4, WatcherStepOnly
  <1> QED BY <1>9, <1>10

LEMMA ReadAnswerKeeps ==
  ASSUME Distinct, Types, Exchanges, NEW n \in Nodes, ReadAnswer(n),
         NEW f \in Fields, NEW e \in Nodes, Undisturbed(f, e)
  PROVE  Undisturbed(f, e)'
  <1>1. /\ n \in 2 .. N /\ n - 1 \in Nodes /\ watcher[n] # Nil /\ watcher[n].step = "answer" /\ watcher[n].data \in Data
        /\ watcher'[n] # Nil /\ watcher'[n].data = watcher[n].data
        /\ watcher'[n].step = AfterStored(watcher[n].data)
        /\ old'[n] = update_checksums(old[n], new[n], MASTER, Fields)
        /\ new'[n] = Nil /\ rec'[n] = Stored(rec[n], watcher[n].data)
        /\ NodesKept(n) /\ WatchersKept(n)
        /\ waiting' = waiting /\ trapper' = trapper /\ last' = last
    BY ReadAnswerEffect
  <1>2. /\ trapper[n] = Nil /\ n - 1 # n /\ Link(n, f, e) /\ Fresh(n, f, e) /\ Collected(n) /\ TrappersKept(n - 1)
        /\ (rec[n] = Nil => old[n] = Nil)
    <2>1. trapper[n] = Nil /\ n - 1 # n /\ TrappersKept(n - 1)
      BY <1>1 DEF Exchanges, OneExchange, TrappersKept
    <2>2. Link(n, f, e) /\ Fresh(n, f, e) /\ Collected(n)
      BY <1>1 DEF Undisturbed, Collected
    <2> QED BY <2>1, <2>2, NoRow
  <1>3. PICK data \in Data : data = watcher[n].data
    BY <1>1
  <1>4. /\ data.op \in {"none", "delete", "update"} /\ rec[n] \in Record \cup {Nil} /\ new[n] \in Record \cup {Nil}
        /\ data.op = "update" => rec'[n] # Nil
        /\ data.op = "none" => rec'[n] = rec[n]
    BY <1>1, <1>3, StoredType, DataOps DEF Types
  <1>5. ASSUME rec[n] # Nil, data.op # "delete", ~Carries(data, f) PROVE rec'[n][f] = rec[n][f]
    BY <1>1, <1>3, <1>4, <1>5, StoredField
  <1>6. watcher'[n].step = IF data.op = "update" THEN "sign" ELSE "stored"
    BY <1>1, <1>3 DEF AfterStored
  <1>7. Fresh(n, f, e)'
    BY <1>1, <1>2, <1>6 DEF Fresh, Collected
  <1>8. Collected(n - 1)' => Collected(n - 1)
    BY <1>1, <1>2 DEF Collected, WatchersKept
  <1>9. MASTER \in Sides /\ SLAVE \in Sides /\ SLAVE # MASTER
    BY DEF Sides, MASTER, SLAVE
  <1>10. Unmarked(n, f, SLAVE) => Unmarked(n, f, SLAVE)'
    BY <1>1, <1>4, <1>9, OtherSide
  <1>11. ASSUME NEW s \in Sides, Known(n, f, s), rec[n] # Nil, n # e, rec'[n][f] = rec[n][f] PROVE Known(n, f, s)'
    <2>1. new[n] \in Record /\ new[n][f] = rec[n][f]
      BY <1>2, <1>4, <1>11 DEF Fresh
    <2> QED BY <1>1, <1>9, <1>11, <2>1, StillKnown
  <1>12. ASSUME rec[n] = Nil PROVE old'[n] = Nil
    <2>1. new[n] = Nil /\ old[n] = Nil
      BY <1>2, <1>12 DEF Fresh
    <2> QED BY <1>1, <1>9, <2>1, StillNoRow
  <1>13. rec'[n - 1] = rec[n - 1] /\ old'[n - 1] = old[n - 1] /\ new'[n - 1] = new[n - 1]
    BY <1>1, <1>2 DEF NodesKept
  <1>14. CASE e < n
    <2>1. FromMaster(n, f) /\ n # e /\ ~(n < e)
      BY <1>2, <1>14 DEF Link, Nodes
    <2>2. Brings(data, f, rec[n - 1], rec[n])
      BY <1>1, <1>3, <2>1 DEF FromMaster
    <2>3. rec[n] # Nil => rec'[n] # Nil
      BY <1>4, <2>2 DEF Brings
    <2>4. Told(n, f) => Told(n, f)'
      BY <1>3, <1>4, <1>13, <2>3 DEF Told, Carries
    <2>5. Brings(data, f, rec[n - 1], rec'[n])
      BY <2>2, <2>3 DEF Brings
    <2>6. ASSUME rec'[n] # Nil
          PROVE rec[n - 1] # Nil /\ (Known(n, f, MASTER)' \/ (watcher'[n].step = "sign" /\ Carries(data, f)))
      <3>1. rec[n - 1] # Nil
        BY <1>1, <1>4, <2>1, <2>2, <2>6 DEF FromMaster, Brings
      <3>2. CASE Carries(data, f)
        BY <1>6, <3>1, <3>2 DEF Carries
      <3>3. CASE ~Carries(data, f)
        <4>1. rec[n] # Nil /\ data.op # "delete"
          BY <1>4, <2>2, <2>6, <3>3 DEF Brings, Carries
        <4>2. Known(n, f, MASTER)
          BY <1>1, <2>1, <4>1 DEF FromMaster
        <4> QED BY <1>5, <1>9, <1>11, <2>1, <3>1, <3>3, <4>1, <4>2
      <3> QED BY <3>2, <3>3
    <2>7. rec'[n] = Nil => old'[n] = Nil /\ Unmarked(n - 1, f, SLAVE)'
      BY <1>12, <1>13, <2>1, <2>3 DEF FromMaster, Unmarked
    <2>8. ASSUME NEW r \in Sent(waiting[n - 1]) PROVE Harmless(r.data, f, rec'[n])
      BY <2>1, <2>3 DEF FromMaster, Harmless
    <2>9. trapper[n - 1] # Nil => Harmless(trapper[n - 1].data, f, rec'[n])
      BY <2>1, <2>3 DEF FromMaster, Harmless
    <2>10. Answers(n - 1)' = Answers(n - 1)
      BY <1>1 DEF Answers
    <2>11. FromMaster(n, f)'
      BY <1>1, <1>3, <1>13, <2>1, <2>4, <2>5, <2>6, <2>7, <2>8, <2>9, <2>10 DEF FromMaster
    <2>12. Link(n, f, e)'
      BY <1>14, <2>11 DEF Link
    <2> QED BY <1>1, <1>2, <1>7, <1>8, <1>10, <2>1, <2>3, <2>12, WatcherStep
  <1>15. CASE ~(e < n)
    <2>1. FromSlave(n, f) /\ (n # e <=> n < e)
      BY <1>2, <1>15 DEF Link, Nodes
    <2>2. Harmless(data, f, rec[n - 1])
      BY <1>1, <1>3, <2>1 DEF FromSlave
    <2>3. rec[n] # Nil => rec'[n] # Nil /\ rec'[n][f] = rec[n][f]
      BY <1>4, <1>5, <2>2 DEF Harmless, Carries
    <2>4. rec[n] = Nil => rec'[n] = Nil
      BY <1>4, <2>1, <2>2 DEF Harmless, FromSlave
    <2>5. rec[n - 1] = Nil => Unmarked(n, f, MASTER)'
      <3>1. ASSUME rec[n - 1] = Nil PROVE new[n] = Nil
        BY <1>1, <2>1, <3>1 DEF FromSlave
      <3> QED BY <1>1, <1>4, <1>9, <3>1, OtherSide
    <2>6. ASSUME NEW r \in Sent(waiting[n - 1]) PROVE Brings(r.data, f, rec'[n], rec[n - 1])
      BY <2>1, <2>3 DEF FromSlave, Brings
    <2>7. trapper[n - 1] # Nil => Brings(trapper[n - 1].data, f, rec'[n], rec[n - 1])
      BY <2>1, <2>3 DEF FromSlave, Brings
    <2>8. Answers(n - 1)' = Answers(n - 1) /\ Known(n - 1, f, SLAVE)' = Known(n - 1, f, SLAVE)
      BY <1>1, <1>13 DEF Answers, Known
    <2>9. FromSlave(n, f)'
      BY <1>1, <1>3, <1>13, <2>1, <2>2, <2>3, <2>5, <2>6, <2>7, <2>8 DEF FromSlave
    <2>10. Link(n, f, e)'
      BY <1>15, <2>9 DEF Link
    <2>11. n < e /\ Known(n, f, SLAVE) => Known(n, f, SLAVE)'
      BY <1>2, <1>9, <1>11, <2>1, <2>3 DEF Known
    <2> QED BY <1>1, <1>2, <1>7, <1>8, <1>10, <1>12, <2>3, <2>4, <2>10, <2>11, WatcherStep
             DEF Undisturbed
  <1> QED BY <1>14, <1>15

LEMMA SignAnswerKeeps ==
  ASSUME Distinct, Types, Exchanges, NEW n \in Nodes, SignAnswer(n),
         NEW f \in Fields, NEW e \in Nodes, Undisturbed(f, e)
  PROVE  Undisturbed(f, e)'
  <1>1. /\ n \in 2 .. N /\ n - 1 \in Nodes /\ watcher[n] # Nil /\ watcher[n].step = "sign" /\ watcher[n].data.op = "update"
        /\ watcher'[n] # Nil /\ watcher'[n].data = watcher[n].data /\ watcher'[n].step = "stored"
        /\ old'[n] = update_checksums(old[n], rec[n], MASTER, DOMAIN watcher[n].data.values)
        /\ NodesKept(n) /\ WatchersKept(n)
        /\ rec' = rec /\ waiting' = waiting /\ trapper' = trapper /\ last' = last
    BY SignAnswerEffect
  <1>2. /\ trapper[n] = Nil /\ n - 1 # n /\ Link(n, f, e) /\ TrappersKept(n - 1)
        /\ (rec[n] = Nil => old[n] = Nil)
    <2>1. trapper[n] = Nil /\ n - 1 # n /\ TrappersKept(n - 1)
      BY <1>1 DEF Exchanges, OneExchange, TrappersKept
    <2>2. Link(n, f, e)
      BY <1>1 DEF Undisturbed
    <2> QED BY <2>1, <2>2, NoRow
  <1>3. PICK list : list = DOMAIN watcher[n].data.values
    OBVIOUS
  <1>4. old'[n] = update_checksums(old[n], rec[n], MASTER, list)
    BY <1>1, <1>3
  <1>5. Fresh(n, f, e)'
    BY <1>1, <1>2 DEF Fresh, Collected
  <1>6. Collected(n - 1)' => Collected(n - 1)
    BY <1>1, <1>2 DEF Collected, WatchersKept
  <1>7. MASTER \in Sides /\ SLAVE \in Sides /\ SLAVE # MASTER /\ rec[n] \in Record \cup {Nil}
    BY DEF Sides, MASTER, SLAVE, Types
  <1>8. Unmarked(n, f, SLAVE) => Unmarked(n, f, SLAVE)'
    BY <1>4, <1>7, OtherSide
  <1>9. ASSUME NEW s \in Sides, Known(n, f, s) PROVE Known(n, f, s)'
    <2>1. rec[n] \in Record
      BY <1>2, <1>7, <1>9 DEF Known
    <2> QED BY <1>1, <1>4, <1>7, <1>9, <2>1, StillKnown
  <1>10. ASSUME rec[n] = Nil PROVE old'[n] = Nil
    BY <1>2, <1>4, <1>7, <1>10, StillNoRow
  <1>11. rec'[n - 1] = rec[n - 1] /\ old'[n - 1] = old[n - 1] /\ new'[n - 1] = new[n - 1]
    BY <1>1, <1>2 DEF NodesKept
  <1>12. Answers(n - 1)' = Answers(n - 1)
    BY <1>1 DEF Answers
  <1>13. CASE e < n
    <2>1. FromMaster(n, f)
      BY <1>2, <1>13 DEF Link
    <2>2. Told(n, f) => Told(n, f)'
      BY <1>1, <1>11 DEF Told
    <2>3. ASSUME rec[n] # Nil PROVE Known(n, f, MASTER)'
      <3>1. CASE f \in list
        BY <1>1, <1>4, <1>7, <2>3, <3>1, NowKnown
      <3>2. CASE f \notin list
        <4>1. Known(n, f, MASTER)
          BY <1>3, <2>1, <2>3, <3>2 DEF FromMaster, Carries
        <4> QED BY <1>7, <1>9, <4>1
      <3> QED BY <3>1, <3>2
    <2>4. Unmarked(n - 1, f, SLAVE)' = Unmarked(n - 1, f, SLAVE)
      BY <1>11 DEF Unmarked
    <2>5. FromMaster(n, f)'
      BY <1>1, <1>10, <1>12, <2>1, <2>2, <2>3, <2>4 DEF FromMaster
    <2>6. Link(n, f, e)'
      BY <1>13, <2>5 DEF Link
    <2> QED BY <1>1, <1>2, <1>5, <1>6, <1>7, <1>8, <1>9, <1>10, <2>6, WatcherStep
  <1>14. CASE ~(e < n)
    <2>1. FromSlave(n, f)
      BY <1>2, <1>14 DEF Link
    <2>2. Harmless(watcher[n].data, f, rec[n - 1])
      BY <1>1, <2>1 DEF FromSlave
    <2>3. rec[n - 1] # Nil
      BY <1>1, <2>2 DEF Harmless
    <2>4. Known(n - 1, f, SLAVE)' = Known(n - 1, f, SLAVE)
      BY <1>11 DEF Known
    <2>5. FromSlave(n, f)'
      BY <1>1, <1>11, <1>12, <2>1, <2>2, <2>3, <2>4 DEF FromSlave
    <2>6. Link(n, f, e)'
      BY <1>14, <2>5 DEF Link
    <2> QED BY <1>1, <1>2, <1>5, <1>6, <1>7, <1>8, <1>9, <1>10, <2>6, WatcherStep
  <1> QED BY <1>13, <1>14

LEMMA EndExchangeKeeps ==
  ASSUME Distinct, Types, Exchanges, NEW n \in Nodes, EndExchange(n),
         NEW f \in Fields, NEW e \in Nodes, Undisturbed(f, e)
  PROVE  Undisturbed(f, e)'
  <1>1. /\ n \in 2 .. N /\ n - 1 \in Nodes /\ watcher[n] # Nil /\ watcher[n].step = "stored" /\ watcher'[n] = Nil
        /\ WatchersKept(n) /\ TrappersKept(n - 1) /\ ~Answers(n - 1)'
        /\ trapper[n - 1] = Nil => trapper'[n - 1] = Nil
        /\ trapper[n - 1] # Nil => /\ trapper'[n - 1] # Nil /\ trapper'[n - 1].data = trapper[n - 1].data
                                   /\ trapper'[n - 1].step = IF trapper[n - 1].alive THEN "OK" ELSE trapper[n - 1].step
        /\ rec' = rec /\ old' = old /\ new' = new /\ waiting' = waiting /\ last' = last
    BY EndExchangeEffect
  <1>2. /\ trapper[n] = Nil /\ n - 1 # n /\ Link(n, f, e) /\ NodesKept(n) /\ trapper'[n] = Nil
    BY <1>1 DEF Exchanges, OneExchange, Undisturbed, NodesKept, TrappersKept
  <1>3. /\ \A r \in Sent(waiting[n - 1]) : ~r.alive
        /\ trapper[n - 1] # Nil /\ trapper[n - 1].alive => trapper[n - 1].step = "wait"
    BY <1>1, NodeAlive DEF OneAlive, Waits, Answers
  <1>4. Fresh(n, f, e)'
    BY <1>1, <1>2 DEF Fresh, Collected
  <1>5. Collected(n - 1)' => Collected(n - 1)
    BY <1>1, <1>2, <1>3 DEF Collected, WatchersKept
  <1>6. \A m, s : Known(m, f, s)' = Known(m, f, s) /\ Unmarked(m, f, s)' = Unmarked(m, f, s)
    BY <1>1 DEF Known, Unmarked
  <1>7. CASE e < n
    <2>1. FromMaster(n, f)
      BY <1>2, <1>7 DEF Link
    <2>2. Told(n, f) => Told(n, f)'
      BY <1>1 DEF Told
    <2>3. trapper'[n - 1] # Nil /\ trapper'[n - 1].step = "OK" => Told(n, f)'
      BY <1>1, <1>3, <2>1, <2>2 DEF FromMaster, Answers
    <2>4. FromMaster(n, f)'
      BY <1>1, <1>6, <2>1, <2>3 DEF FromMaster
    <2>5. Link(n, f, e)'
      BY <1>7, <2>4 DEF Link
    <2> QED BY <1>1, <1>2, <1>4, <1>5, <2>5, WatcherStepOnly
  <1>8. CASE ~(e < n)
    <2>1. FromSlave(n, f)
      BY <1>2, <1>8 DEF Link
    <2>2. trapper[n - 1] # Nil /\ trapper[n - 1].step = "sign" => trapper'[n - 1].step = "sign"
      BY <1>1, <1>3
    <2>3. FromSlave(n, f)'
      BY <1>1, <1>6, <2>1, <2>2 DEF FromSlave
    <2>4. Link(n, f, e)'
      BY <1>8, <2>3 DEF Link
    <2> QED BY <1>1, <1>2, <1>4, <1>5, <2>4, WatcherStepOnly
  <1> QED BY <1>7, <1>8

(* Not between a value and its check sum.                                  *)
LEMMA StopWatcherKeeps ==
  ASSUME Distinct, Types, Exchanges, NEW n \in Nodes, StopWatcher(n), "stop" \notin gap',
         NEW f \in Fields, NEW e \in Nodes, Undisturbed(f, e)
  PROVE  Undisturbed(f, e)'
  <1>1. /\ n \in 2 .. N /\ n - 1 \in Nodes /\ watcher[n] # Nil /\ watcher'[n] = Nil /\ watcher[n].step # "sign"
        /\ WatchersKept(n) /\ TrappersKept(n - 1) /\ ~Answers(n - 1)'
        /\ \A r \in Sent(waiting'[n - 1]) : ~r.alive /\ \E u \in Sent(waiting[n - 1]) : r.data = u.data
        /\ trapper[n - 1] = Nil => trapper'[n - 1] = Nil
        /\ trapper[n - 1] # Nil => /\ trapper'[n - 1] # Nil /\ trapper'[n - 1].data = trapper[n - 1].data
                                   /\ trapper'[n - 1].step = trapper[n - 1].step
        /\ rec' = rec /\ old' = old /\ new' = new /\ last' = last
    BY StopWatcherEffect
  <1>2. /\ trapper[n] = Nil /\ n - 1 # n /\ Link(n, f, e) /\ NodesKept(n) /\ trapper'[n] = Nil
    BY <1>1 DEF Exchanges, OneExchange, Undisturbed, NodesKept, TrappersKept
  <1>3. trapper[n - 1] # Nil /\ trapper[n - 1].step = "OK" => ~Answers(n - 1)
    BY <1>1, NodeAlive DEF OneAlive
  <1>4. Fresh(n, f, e)'
    BY <1>1, <1>2 DEF Fresh, Collected
  <1>5. Collected(n - 1)' => Collected(n - 1)
    BY <1>1, <1>2 DEF Collected, WatchersKept
  <1>6. \A m, s : Known(m, f, s)' = Known(m, f, s) /\ Unmarked(m, f, s)' = Unmarked(m, f, s)
    BY <1>1 DEF Known, Unmarked
  <1>7. CASE e < n
    <2>1. FromMaster(n, f)
      BY <1>2, <1>7 DEF Link
    <2>2. trapper'[n - 1] # Nil /\ trapper'[n - 1].step = "OK" => Told(n, f)'
      BY <1>1, <1>3, <2>1 DEF FromMaster, Told
    <2>3. ASSUME NEW r \in Sent(waiting'[n - 1]) PROVE Harmless(r.data, f, rec[n])
      <3>1. PICK u \in Sent(waiting[n - 1]) : r.data = u.data
        BY <1>1
      <3> QED BY <2>1, <3>1 DEF FromMaster
    <2>4. FromMaster(n, f)'
      BY <1>1, <1>6, <2>1, <2>2, <2>3 DEF FromMaster
    <2>5. Link(n, f, e)'
      BY <1>7, <2>4 DEF Link
    <2> QED BY <1>1, <1>2, <1>4, <1>5, <2>5, WatcherStepOnly
  <1>8. CASE ~(e < n)
    <2>1. FromSlave(n, f)
      BY <1>2, <1>8 DEF Link
    <2>2. ASSUME NEW r \in Sent(waiting'[n - 1]) PROVE ~r.alive /\ Brings(r.data, f, rec[n], rec[n - 1])
      <3>1. PICK u \in Sent(waiting[n - 1]) : r.data = u.data
        BY <1>1
      <3> QED BY <1>1, <2>1, <3>1 DEF FromSlave
    <2>3. FromSlave(n, f)'
      BY <1>1, <1>6, <2>1, <2>2 DEF FromSlave
    <2>4. Link(n, f, e)'
      BY <1>8, <2>3 DEF Link
    <2> QED BY <1>1, <1>2, <1>4, <1>5, <2>4, WatcherStepOnly
  <1> QED BY <1>7, <1>8

-----------------------------------------------------------------------------
(* The steps of a trapper of k, the master of n.                           *)
LEMMA NodeSyncKeeps ==
  ASSUME Distinct, Types, Exchanges, NEW n \in 2 .. N, NEW k \in Nodes, k = n - 1, node_sync(k),
         NEW f \in Fields, NEW e \in Nodes, Undisturbed(f, e)
  PROVE  Undisturbed(f, e)'
  <1>1. /\ watcher[k] = Nil /\ trapper[k] = Nil
        /\ waiting[k] \in Seq(Request) /\ waiting[k] # <<>> /\ waiting'[k] = Tail(waiting[k])
        /\ LET x == Head(waiting[k])
           IN  /\ x.data \in Data /\ rec'[k] = Stored(rec[k], x.data)
               /\ trapper'[k] # Nil /\ trapper'[k].data = x.data /\ trapper'[k].alive = x.alive
               /\ trapper'[k].step = AfterStored(x.data)
        /\ new'[k] = Nil /\ NodesKept(k) /\ TrappersKept(k)
        /\ old' = old /\ watcher' = watcher /\ last' = last
    BY NodeSyncEffect
  <1>2. PICK x : x = Head(waiting[k])
    OBVIOUS
  <1>3. PICK data \in Data : data = x.data
    BY <1>1, <1>2
  <1>4. x \in Sent(waiting[k]) /\ Sent(waiting'[k]) \subseteq Sent(waiting[k])
    BY <1>1, <1>2, Taken
  <1>5. /\ data.op \in {"none", "delete", "update"} /\ rec[k] \in Record \cup {Nil}
        /\ rec'[k] = Stored(rec[k], data)
        /\ data.op = "update" => rec'[k] # Nil
        /\ data.op = "none" => rec'[k] = rec[k]
    BY <1>1, <1>2, <1>3, StoredType, DataOps DEF Types
  <1>6. /\ trapper'[k] # Nil /\ trapper'[k].data = data /\ trapper'[k].alive = x.alive
        /\ trapper'[k].step = IF data.op = "update" THEN "sign" ELSE "stored"
    BY <1>1, <1>2, <1>3 DEF AfterStored
  <1>7. ASSUME rec[k] # Nil, data.op # "delete", ~Carries(data, f) PROVE rec'[k][f] = rec[k][f]
    BY <1>5, <1>7, StoredField
  <1>8. /\ n \in Nodes /\ k # n /\ Link(n, f, e) /\ WatchersKept(n) /\ (rec[k] = Nil => old[k] = Nil)
        /\ rec'[n] = rec[n] /\ new'[n] = new[n]
    <2>1. n \in Nodes /\ k # n
      BY DEF Nodes, Distinct
    <2> QED BY <1>1, <2>1, NoRow DEF Undisturbed, WatchersKept, NodesKept
  <1>9. Fresh(k, f, e)'
    BY <1>1, <1>6 DEF Fresh, Collected
  <1>10. Collected(n)' => Collected(n)
    BY <1>1, <1>8 DEF Collected, TrappersKept
  <1>11. \A s : /\ Unmarked(k, f, s)' = Unmarked(k, f, s) /\ Unmarked(n, f, s)' = Unmarked(n, f, s)
                /\ Known(n, f, s)' = Known(n, f, s)
                /\ Known(k, f, s) /\ rec'[k][f] = rec[k][f] => Known(k, f, s)'
    BY <1>1, <1>8 DEF Unmarked, Known
  <1>12. CASE e < n
    <2>1. FromMaster(n, f) /\ (k # e <=> e < k)
      BY <1>8, <1>12 DEF Link, Nodes
    <2>2. Harmless(data, f, rec[n])
      BY <1>3, <1>4, <2>1 DEF FromMaster
    <2>3. rec[k] # Nil => rec'[k] # Nil /\ rec'[k][f] = rec[k][f]
      BY <1>5, <1>7, <2>2 DEF Harmless, Carries
    <2>4. rec[k] = Nil => rec'[k] = Nil
      BY <1>5, <2>1, <2>2 DEF Harmless, FromMaster
    <2>5. watcher[n] # Nil => Brings(watcher[n].data, f, rec'[k], rec[n])
      BY <2>1, <2>3 DEF FromMaster, Brings
    <2>6. trapper'[k].step \notin {"OK", "wait"}
      BY <1>6
    <2>7. FromMaster(n, f)'
      BY <1>1, <1>4, <1>6, <1>8, <1>11, <2>1, <2>2, <2>3, <2>5, <2>6 DEF FromMaster
    <2>8. Link(n, f, e)'
      BY <1>12, <2>7 DEF Link
    <2>9. e < k /\ Known(k, f, MASTER) => Known(k, f, MASTER)'
      BY <1>8, <1>11, <2>3 DEF Known
    <2> QED BY <1>1, <1>8, <1>9, <1>10, <1>11, <2>1, <2>3, <2>4, <2>8, <2>9, TrapperStep DEF Undisturbed
  <1>13. CASE ~(e < n)
    <2>1. FromSlave(n, f) /\ k # e /\ ~(e < k)
      BY <1>8, <1>13 DEF Link, Nodes
    <2>2. Brings(data, f, rec[n], rec[k])
      BY <1>3, <1>4, <2>1 DEF FromSlave
    <2>3. rec[k] # Nil => rec'[k] # Nil
      BY <1>5, <2>2 DEF Brings
    <2>4. ASSUME rec'[k] # Nil
          PROVE  rec[n] # Nil /\ (Known(k, f, SLAVE)' \/ (trapper'[k].step = "sign" /\ Carries(data, f)))
      <3>1. rec[n] # Nil
        BY <1>5, <2>1, <2>2, <2>4 DEF FromSlave, Brings
      <3>2. CASE Carries(data, f)
        BY <1>6, <3>1, <3>2 DEF Carries
      <3>3. CASE ~Carries(data, f)
        <4>1. rec[k] # Nil /\ data.op # "delete"
          BY <1>5, <2>2, <2>4, <3>3 DEF Brings, Carries
        <4>2. Known(k, f, SLAVE)
          BY <1>1, <2>1, <4>1 DEF FromSlave
        <4> QED BY <1>7, <1>11, <3>1, <3>3, <4>1, <4>2
      <3> QED BY <3>2, <3>3
    <2>5. ASSUME NEW r \in Sent(waiting'[k])
          PROVE  /\ Brings(r.data, f, rec[n], rec'[k])
                 /\ r.alive => rec'[k] # Nil \/ new[n] = Nil \/ Carries(r.data, f)
      <3>1. /\ Brings(r.data, f, rec[n], rec[k])
            /\ r.alive => rec[k] # Nil \/ new[n] = Nil \/ Carries(r.data, f)
        BY <1>4, <2>1 DEF FromSlave
      <3> QED BY <2>3, <3>1 DEF Brings
    <2>6. Brings(data, f, rec[n], rec'[k])
      BY <2>2, <2>3 DEF Brings
    <2>7. x.alive => rec'[k] # Nil \/ new[n] = Nil
      BY <1>3, <1>4, <1>5, <2>1, <2>3 DEF FromSlave, Carries
    <2>8. watcher[n] # Nil => Harmless(watcher[n].data, f, rec'[k])
      BY <2>1, <2>3 DEF FromSlave, Harmless
    <2>9. FromSlave(n, f)'
      BY <1>1, <1>6, <1>8, <1>11, <2>1, <2>3, <2>4, <2>5, <2>6, <2>7, <2>8 DEF FromSlave, Answers
    <2>10. Link(n, f, e)'
      BY <1>13, <2>9 DEF Link
    <2> QED BY <1>1, <1>8, <1>9, <1>10, <1>11, <2>1, <2>3, <2>10, TrapperStep
  <1> QED BY <1>12, <1>13

LEMMA SignChangesKeeps ==
  ASSUME Distinct, Types, Exchanges, NEW n \in 2 .. N, NEW k \in Nodes, k = n - 1, SignChanges(k),
         NEW f \in Fields, NEW e \in Nodes, Undisturbed(f, e)
  PROVE  Undisturbed(f, e)'
  <1>1. /\ watcher[k] = Nil
        /\ trapper[k] # Nil /\ trapper[k].step = "sign" /\ trapper[k].data.op = "update"
        /\ trapper'[k] # Nil /\ trapper'[k].data = trapper[k].data /\ trapper'[k].alive = trapper[k].alive
        /\ trapper'[k].step = "stored"
        /\ old'[k] = update_checksums(old[k], rec[k], SLAVE, DOMAIN trapper[k].data.values)
        /\ NodesKept(k) /\ TrappersKept(k)
        /\ rec' = rec /\ watcher' = watcher /\ waiting' = waiting /\ last' = last
    BY SignChangesEffect
  <1>2. PICK list : list = DOMAIN trapper[k].data.values
    OBVIOUS
  <1>3. old'[k] = update_checksums(old[k], rec[k], SLAVE, list)
    BY <1>1, <1>2
  <1>4. /\ n \in Nodes /\ k # n /\ Link(n, f, e) /\ WatchersKept(n) /\ (rec[k] = Nil => old[k] = Nil)
        /\ old'[n] = old[n] /\ new'[n] = new[n]
    <2>1. n \in Nodes /\ k # n
      BY DEF Nodes, Distinct
    <2> QED BY <1>1, <2>1, NoRow DEF Undisturbed, WatchersKept, NodesKept
  <1>5. Fresh(k, f, e)'
    BY <1>1 DEF Fresh, Collected
  <1>6. Collected(n)' => Collected(n)
    BY <1>1, <1>4 DEF Collected, TrappersKept
  <1>7. MASTER \in Sides /\ SLAVE \in Sides /\ SLAVE # MASTER /\ rec[k] \in Record \cup {Nil}
    BY DEF Sides, MASTER, SLAVE, Types
  <1>8. Unmarked(k, f, MASTER) => Unmarked(k, f, MASTER)'
    BY <1>3, <1>7, OtherSide
  <1>9. ASSUME NEW s \in Sides, Known(k, f, s) PROVE Known(k, f, s)'
    <2>1. rec[k] \in Record
      BY <1>4, <1>7, <1>9 DEF Known
    <2> QED BY <1>1, <1>3, <1>7, <1>9, <2>1, StillKnown
  <1>10. ASSUME rec[k] = Nil PROVE old'[k] = Nil
    BY <1>3, <1>4, <1>7, <1>10, StillNoRow
  <1>11. Answers(k)' = Answers(k)
    BY <1>1 DEF Answers
  <1>12. \A s : Unmarked(n, f, s)' = Unmarked(n, f, s) /\ Known(n, f, s)' = Known(n, f, s)
    BY <1>1, <1>4 DEF Unmarked, Known
  <1>13. CASE e < n
    <2>1. FromMaster(n, f)
      BY <1>4, <1>13 DEF Link
    <2>2. rec[n] # Nil
      BY <1>1, <2>1 DEF FromMaster, Harmless
    <2>3. FromMaster(n, f)'
      BY <1>1, <1>4, <1>12, <2>1, <2>2 DEF FromMaster
    <2>4. Link(n, f, e)'
      BY <1>13, <2>3 DEF Link
    <2> QED BY <1>1, <1>4, <1>5, <1>6, <1>7, <1>8, <1>9, <1>10, <2>4, TrapperStep
  <1>14. CASE ~(e < n)
    <2>1. FromSlave(n, f)
      BY <1>4, <1>14 DEF Link
    <2>2. ASSUME rec[k] # Nil PROVE Known(k, f, SLAVE)'
      <3>1. CASE f \in list
        BY <1>1, <1>3, <1>7, <2>2, <3>1, NowKnown
      <3>2. CASE f \notin list
        <4>1. Known(k, f, SLAVE)
          BY <1>2, <2>1, <2>2, <3>2 DEF FromSlave, Carries
        <4> QED BY <1>7, <1>9, <4>1
      <3> QED BY <3>1, <3>2
    <2>3. FromSlave(n, f)'
      BY <1>1, <1>4, <1>10, <1>11, <1>12, <2>1, <2>2 DEF FromSlave
    <2>4. Link(n, f, e)'
      BY <1>14, <2>3 DEF Link
    <2> QED BY <1>1, <1>4, <1>5, <1>6, <1>7, <1>8, <1>9, <1>10, <2>4, TrapperStep
  <1> QED BY <1>13, <1>14

LEMMA CalculateAnswerKeeps ==
  ASSUME Distinct, Types, Exchanges, NEW n \in 2 .. N, NEW k \in Nodes, k = n - 1, CalculateAnswer(k),
         NEW f \in Fields, NEW e \in Nodes, Undisturbed(f, e)
  PROVE  Undisturbed(f, e)'
  <1>1. /\ watcher[k] = Nil /\ trapper[k] # Nil /\ trapper[k].step = "stored"
        /\ trapper'[k] # Nil /\ trapper'[k].data = trapper[k].data /\ trapper'[k].alive = trapper[k].alive
        /\ trapper'[k].step = "collect"
        /\ new'[k] = rec[k] /\ NodesKept(k) /\ TrappersKept(k)
        /\ rec' = rec /\ old' = old /\ watcher' = watcher /\ waiting' = waiting /\ last' = last
    BY CalculateAnswerEffect
  <1>2. n \in Nodes /\ k # n /\ Link(n, f, e) /\ WatchersKept(n) /\ new'[n] = new[n]
    <2>1. n \in Nodes /\ k # n
      BY DEF Nodes, Distinct
    <2> QED BY <1>1, <2>1 DEF Undisturbed, WatchersKept, NodesKept
  <1>3. Fresh(k, f, e)'
    BY <1>1 DEF Fresh
  <1>4. Collected(n)' => Collected(n)
    BY <1>1, <1>2 DEF Collected, TrappersKept
  <1>5. /\ \A m, s : Known(m, f, s)' = Known(m, f, s) /\ Unmarked(m, f, s)' = Unmarked(m, f, s)
        /\ Answers(k)' = Answers(k)
    BY <1>1 DEF Known, Unmarked, Answers
  <1>6. Link(n, f, e)'
    <2>1. CASE e < n
      <3>1. FromMaster(n, f)
        BY <1>2, <2>1 DEF Link
      <3>2. FromMaster(n, f)'
        BY <1>1, <1>2, <1>5, <3>1 DEF FromMaster
      <3> QED BY <2>1, <3>2 DEF Link
    <2>2. CASE ~(e < n)
      <3>1. FromSlave(n, f)
        BY <1>2, <2>2 DEF Link
      <3>2. FromSlave(n, f)'
        BY <1>1, <1>2, <1>5, <3>1 DEF FromSlave
      <3> QED BY <2>2, <3>2 DEF Link
    <2> QED BY <2>1, <2>2
  <1> QED BY <1>1, <1>2, <1>3, <1>4, <1>6, TrapperStepOnly

LEMMA SendAnswerKeeps ==
  ASSUME Distinct, Types, Exchanges, NEW n \in 2 .. N, NEW k \in Nodes, k = n - 1, SendAnswer(k),
         NEW f \in Fields, NEW e \in Nodes, Undisturbed(f, e)
  PROVE  Undisturbed(f, e)'
  <1>1. n \in Nodes /\ k # n /\ k + 1 = n
    BY DEF Nodes, Distinct
  <1>2. /\ watcher[k] = Nil /\ trapper[k] # Nil /\ trapper[k].step = "collect" /\ TrappersKept(k)
        /\ \/ /\ trapper[k].alive
              /\ watcher'[n] # Nil /\ watcher'[n].step = "answer"
              /\ watcher'[n].data = get_config_data(k, SLAVE) /\ WatchersKept(n)
              /\ trapper'[k] # Nil /\ trapper'[k].data = trapper[k].data /\ trapper'[k].alive
              /\ trapper'[k].step = "wait"
           \/ ~trapper[k].alive /\ trapper'[k] = Nil /\ watcher' = watcher
        /\ rec' = rec /\ old' = old /\ new' = new /\ waiting' = waiting /\ last' = last
    BY <1>1, SendAnswerEffect
  <1>3. /\ Link(n, f, e) /\ Fresh(k, f, e) /\ Collected(k) /\ WatchersKept(n) /\ NodesKept(k)
        /\ (rec[k] = Nil => old[k] = Nil) /\ watcher'[k] = watcher[k] /\ trapper'[n] = trapper[n]
    <2>1. WatchersKept(n)
      BY <1>2 DEF WatchersKept
    <2>2. watcher'[k] = watcher[k] /\ trapper'[n] = trapper[n]
      BY <1>1, <1>2, <2>1 DEF WatchersKept, TrappersKept
    <2>3. Link(n, f, e) /\ Fresh(k, f, e)
      BY DEF Undisturbed
    <2>4. Collected(k) /\ NodesKept(k)
      BY <1>2 DEF Collected, NodesKept
    <2> QED BY <2>1, <2>2, <2>3, <2>4, NoRow
  <1>4. Fresh(k, f, e)'
    BY <1>2, <1>3 DEF Fresh
  <1>5. \A m, s : Known(m, f, s)' = Known(m, f, s) /\ Unmarked(m, f, s)' = Unmarked(m, f, s)
    BY <1>2 DEF Known, Unmarked
  <1>6. CASE trapper[k].alive
    <2>1. Answers(k) /\ Waits(n)
      BY <1>2, <1>6, NodeAlive DEF OneAlive, Answers
    <2>2. Collected(n)' => Collected(n)
      BY <2>1 DEF Collected, Waits
    <2>3. /\ watcher[n] # Nil /\ watcher[n].step = "wait"
          /\ watcher'[n] # Nil /\ watcher'[n].step = "answer" /\ watcher'[n].data = get_config_data(k, SLAVE)
          /\ trapper'[k] # Nil /\ trapper'[k].data = trapper[k].data /\ Answers(k)' /\ trapper'[k].step = "wait"
          /\ \A r \in Sent(waiting[k]) : ~r.alive
      BY <1>2, <1>6, <2>1, NodeAlive DEF Waits, Answers, OneAlive
    <2>4. PICK data : data = get_config_data(k, SLAVE)
      OBVIOUS
    <2>5. CASE e < n
      <3>1. FromMaster(n, f)
        BY <1>3, <2>5 DEF Link
      <3>2. /\ Brings(data, f, rec[k], rec[n])
            /\ rec[n] # Nil \/ new[k] = Nil \/ Carries(data, f)
        <4>1. new[k] = Nil <=> rec[k] = Nil
          BY <1>3 DEF Fresh
        <4>2. rec[n] = Nil => Unmarked(k, f, SLAVE)
          BY <3>1 DEF FromMaster
        <4> QED BY <1>3, <2>4, <4>1, <4>2, SendsAll
      <3>3. Told(n, f)'
        BY <1>2, <2>3, <2>4, <3>2 DEF Told
      <3>4. FromMaster(n, f)'
        BY <1>2, <1>5, <2>3, <2>4, <3>1, <3>2, <3>3 DEF FromMaster
      <3>5. Link(n, f, e)'
        BY <2>5, <3>4 DEF Link
      <3> QED BY <1>2, <1>3, <1>4, <2>2, <3>5, TrapperStepOnly
    <2>6. CASE ~(e < n)
      <3>1. FromSlave(n, f) /\ k # e
        BY <1>3, <2>6 DEF Link, Nodes
      <3>2. Harmless(data, f, rec[k])
        <4>1. new[k] = Nil <=> rec[k] = Nil
          BY <1>3 DEF Fresh
        <4>2. ASSUME rec[k] # Nil PROVE Known(k, f, SLAVE) /\ new[k][f] = rec[k][f]
          BY <1>2, <1>3, <3>1, <4>2 DEF Fresh, FromSlave
        <4> QED BY <1>3, <2>4, <4>1, <4>2, SendsHarmless
      <3>3. rec[k] # Nil \/ new[n] = Nil
        BY <1>2, <2>1, <3>1 DEF FromSlave
      <3>4. FromSlave(n, f)'
        BY <1>2, <1>5, <2>3, <2>4, <3>1, <3>2, <3>3 DEF FromSlave
      <3>5. Link(n, f, e)'
        BY <2>6, <3>4 DEF Link
      <3> QED BY <1>2, <1>3, <1>4, <2>2, <3>5, TrapperStepOnly
    <2> QED BY <2>5, <2>6
  <1>7. CASE ~trapper[k].alive
    <2>1. watcher' = watcher /\ trapper'[k] = Nil /\ ~Answers(k)'
      BY <1>2, <1>7 DEF Answers
    <2>2. Collected(n)' => Collected(n)
      BY <1>3, <2>1 DEF Collected
    <2>3. CASE e < n
      <3>1. FromMaster(n, f)
        BY <1>3, <2>3 DEF Link
      <3>2. FromMaster(n, f)'
        BY <1>2, <1>5, <2>1, <3>1 DEF FromMaster
      <3>3. Link(n, f, e)'
        BY <2>3, <3>2 DEF Link
      <3> QED BY <1>2, <1>3, <1>4, <2>2, <3>3, TrapperStepOnly
    <2>4. CASE ~(e < n)
      <3>1. FromSlave(n, f)
        BY <1>3, <2>4 DEF Link
      <3>2. FromSlave(n, f)'
        BY <1>2, <1>5, <2>1, <3>1 DEF FromSlave
      <3>3. Link(n, f, e)'
        BY <2>4, <3>2 DEF Link
      <3> QED BY <1>2, <1>3, <1>4, <2>2, <3>3, TrapperStepOnly
    <2> QED BY <2>3, <2>4
  <1> QED BY <1>6, <1>7

LEMMA EndAnswerKeeps ==
  ASSUME Distinct, Types, Exchanges, NEW n \in 2 .. N, NEW k \in Nodes, k = n - 1, EndAnswer(k),
         NEW f \in Fields, NEW e \in Nodes, Undisturbed(f, e)
  PROVE  Undisturbed(f, e)'
  <1>1. /\ watcher[k] = Nil /\ trapper[k] # Nil /\ trapper'[k] = Nil
        /\ \/ /\ trapper[k].step = "OK"
              /\ old'[k] = update_checksums(old[k], new[k], SLAVE, Fields)
           \/ trapper[k].step = "wait" /\ ~trapper[k].alive /\ old' = old
        /\ NodesKept(k) /\ TrappersKept(k)
        /\ rec' = rec /\ watcher' = watcher /\ waiting' = waiting /\ last' = last
    BY EndAnswerEffect
  <1>2. /\ n \in Nodes /\ k # n /\ Link(n, f, e) /\ WatchersKept(n) /\ (rec[k] = Nil => old[k] = Nil)
        /\ old'[n] = old[n] /\ new'[n] = new[n] /\ Fresh(k, f, e)
    <2>1. n \in Nodes /\ k # n
      BY DEF Nodes, Distinct
    <2> QED BY <1>1, <2>1, NoRow DEF Undisturbed, WatchersKept, NodesKept
  <1>3. Fresh(k, f, e)' /\ ~Answers(k)'
    BY <1>1 DEF Fresh, Collected, Answers
  <1>4. Collected(n)' => Collected(n)
    BY <1>1, <1>2 DEF Collected, TrappersKept
  <1>5. \A s : Unmarked(n, f, s)' = Unmarked(n, f, s) /\ Known(n, f, s)' = Known(n, f, s)
    BY <1>1, <1>2 DEF Unmarked, Known
  <1>6. MASTER \in Sides /\ SLAVE \in Sides /\ SLAVE # MASTER /\ new[k] \in Record \cup {Nil}
    BY DEF Sides, MASTER, SLAVE, Types
  <1>7. CASE trapper[k].step = "OK" /\ old'[k] = update_checksums(old[k], new[k], SLAVE, Fields)
    <2>1. Collected(k) /\ (new[k] = Nil <=> rec[k] = Nil) /\ ~Answers(k)
      <3>1. Collected(k)
        BY <1>1, <1>7 DEF Collected
      <3>2. ~Answers(k)
        BY <1>7, NodeAlive DEF OneAlive
      <3> QED BY <1>2, <3>1, <3>2 DEF Fresh
    <2>2. Unmarked(k, f, MASTER) => Unmarked(k, f, MASTER)'
      BY <1>6, <1>7, OtherSide
    <2>3. ASSUME NEW s \in Sides, Known(k, f, s), k # e PROVE Known(k, f, s)'
      <3>1. rec[k] # Nil
        BY <1>2, <2>3 DEF Known
      <3>2. new[k] \in Record /\ new[k][f] = rec[k][f]
        BY <1>2, <1>6, <2>1, <2>3, <3>1 DEF Fresh
      <3> QED BY <1>1, <1>6, <1>7, <2>3, <3>2, StillKnown
    <2>4. ASSUME rec[k] = Nil PROVE old'[k] = Nil
      BY <1>2, <1>6, <1>7, <2>1, <2>4, StillNoRow
    <2>5. CASE e < n
      <3>1. FromMaster(n, f)
        BY <1>2, <2>5 DEF Link
      <3>2. ASSUME rec[n] = Nil PROVE Unmarked(k, f, SLAVE)'
        <4>1. new[k] = Nil
          BY <1>1, <1>7, <2>1, <3>1, <3>2 DEF FromMaster, Told
        <4> QED BY <1>6, <1>7, <4>1, OtherSide
      <3>3. FromMaster(n, f)'
        BY <1>1, <1>2, <1>3, <1>5, <3>1, <3>2 DEF FromMaster
      <3>4. Link(n, f, e)'
        BY <2>5, <3>3 DEF Link
      <3>5. e < k => k # e
        BY <1>2 DEF Nodes
      <3> QED BY <1>1, <1>2, <1>3, <1>4, <1>6, <2>2, <2>3, <2>4, <3>4, <3>5, TrapperStep
    <2>6. CASE ~(e < n)
      <3>1. FromSlave(n, f) /\ k # e /\ ~(e < k)
        BY <1>2, <2>6 DEF Link, Nodes
      <3>2. ASSUME rec[k] # Nil PROVE Known(k, f, SLAVE)'
        <4>1. Known(k, f, SLAVE)
          BY <1>1, <1>7, <3>1, <3>2 DEF FromSlave
        <4> QED BY <1>6, <2>3, <3>1, <4>1
      <3>3. FromSlave(n, f)'
        BY <1>1, <1>2, <1>3, <1>5, <2>4, <3>1, <3>2 DEF FromSlave
      <3>4. Link(n, f, e)'
        BY <2>6, <3>3 DEF Link
      <3> QED BY <1>1, <1>2, <1>3, <1>4, <2>2, <3>1, <3>4, TrapperStep
    <2> QED BY <2>5, <2>6
  <1>8. CASE trapper[k].step = "wait" /\ old' = old
    <2>1. \A s : Unmarked(k, f, s)' = Unmarked(k, f, s) /\ Known(k, f, s)' = Known(k, f, s)
      BY <1>1, <1>8 DEF Unmarked, Known
    <2>2. CASE e < n
      <3>1. FromMaster(n, f)
        BY <1>2, <2>2 DEF Link
      <3>2. FromMaster(n, f)'
        BY <1>1, <1>3, <1>5, <1>8, <2>1, <3>1 DEF FromMaster
      <3>3. Link(n, f, e)'
        BY <2>2, <3>2 DEF Link
      <3> QED BY <1>1, <1>2, <1>3, <1>4, <1>8, <3>3, TrapperStepOnly
    <2>3. CASE ~(e < n)
      <3>1. FromSlave(n, f)
        BY <1>2, <2>3 DEF Link
      <3>2. FromSlave(n, f)'
        BY <1>1, <1>2, <1>3, <1>5, <1>8, <2>1, <3>1 DEF FromSlave
      <3>3. Link(n, f, e)'
        BY <2>3, <3>2 DEF Link
      <3> QED BY <1>1, <1>2, <1>3, <1>4, <1>8, <3>3, TrapperStepOnly
    <2> QED BY <2>2, <2>3
  <1> QED BY <1>1, <1>7, <1>8

(* Not between a value and its check sum.                                  *)
LEMMA StopTrapperKeeps ==
  ASSUME Distinct, Types, Exchanges, NEW n \in 2 .. N, NEW k \in Nodes, k = n - 1, StopTrapper(k),
         "stop" \notin gap', NEW f \in Fields, NEW e \in Nodes, Undisturbed(f, e)
  PROVE  Undisturbed(f, e)'
  <1>1. n \in Nodes /\ k # n /\ k + 1 = n
    BY DEF Nodes, Distinct
  <1>2. /\ trapper[k] # Nil /\ trapper'[k] = Nil /\ trapper[k].step # "sign"
        /\ WatchersKept(n) /\ TrappersKept(k)
        /\ watcher'[n] = watcher[n] \/ (watcher'[n] = Nil /\ Waits(n))
        /\ rec' = rec /\ old' = old /\ new' = new /\ waiting' = waiting /\ last' = last
    BY <1>1, StopTrapperEffect
  <1>3. Link(n, f, e) /\ NodesKept(k) /\ watcher[k] = Nil /\ watcher'[k] = Nil /\ trapper'[n] = trapper[n]
    <2>1. watcher[k] = Nil
      BY <1>2 DEF Exchanges, OneExchange
    <2> QED BY <1>1, <1>2, <2>1 DEF Undisturbed, NodesKept, WatchersKept, TrappersKept
  <1>4. Fresh(k, f, e)' /\ ~Answers(k)'
    BY <1>2, <1>3 DEF Fresh, Collected, Answers
  <1>5. Collected(n)' => Collected(n)
    BY <1>2, <1>3 DEF Collected
  <1>6. \A m, s : Known(m, f, s)' = Known(m, f, s) /\ Unmarked(m, f, s)' = Unmarked(m, f, s)
    BY <1>2 DEF Known, Unmarked
  <1>7. CASE e < n
    <2>1. FromMaster(n, f)
      BY <1>3, <1>7 DEF Link
    <2>2. FromMaster(n, f)'
      BY <1>2, <1>4, <1>6, <2>1 DEF FromMaster, Waits
    <2>3. Link(n, f, e)'
      BY <1>7, <2>2 DEF Link
    <2> QED BY <1>2, <1>3, <1>4, <1>5, <2>3, TrapperStepOnly
  <1>8. CASE ~(e < n)
    <2>1. FromSlave(n, f)
      BY <1>3, <1>8 DEF Link
    <2>2. FromSlave(n, f)'
      BY <1>2, <1>4, <1>6, <2>1 DEF FromSlave, Waits
    <2>3. Link(n, f, e)'
      BY <1>8, <2>2 DEF Link
    <2> QED BY <1>2, <1>3, <1>4, <1>5, <2>3, TrapperStepOnly
  <1> QED BY <1>7, <1>8

-----------------------------------------------------------------------------
(* An edit of e, or of another field.                                      *)
LEMMA EditedKeeps ==
  ASSUME Distinct, NEW f \in Fields, NEW e \in Nodes, Undisturbed(f, e),
         rec'[e] # Nil, rec'[e][f] = last'[f],
         \A m \in Nodes : rec'[m] = Nil <=> rec[m] = Nil,
         \A m \in Nodes : m # e => rec'[m][f] = rec[m][f],
         UNCHANGED <<old, new, watcher, waiting, trapper>>
  PROVE  Undisturbed(f, e)'
  <1>1. \A n : Answers(n)' = Answers(n) /\ Collected(n)' = Collected(n)
    BY DEF Answers, Collected
  <1>2. ASSUME NEW n \in Nodes PROVE Fresh(n, f, e)'
    BY <1>1 DEF Undisturbed, Fresh
  <1>3. ASSUME NEW n \in 2 .. N PROVE Link(n, f, e)'
    <2>1. n \in Nodes /\ n - 1 \in Nodes /\ N \in Nat /\ (e < n => n # e) /\ (~(e < n) => n - 1 # e)
      BY DEF Nodes, Distinct
    <2>2. (rec'[n] = Nil <=> rec[n] = Nil) /\ (rec'[n - 1] = Nil <=> rec[n - 1] = Nil)
      BY <2>1
    <2>3. /\ n # e => Known(n, f, MASTER)' = Known(n, f, MASTER)
          /\ n - 1 # e => Known(n - 1, f, SLAVE)' = Known(n - 1, f, SLAVE)
          /\ Unmarked(n, f, MASTER)' = Unmarked(n, f, MASTER)
          /\ Unmarked(n - 1, f, SLAVE)' = Unmarked(n - 1, f, SLAVE)
      BY <2>1 DEF Known, Unmarked
    <2>4. Link(n, f, e)
      BY DEF Undisturbed
    <2>5. CASE e < n
      <3>1. FromMaster(n, f)
        BY <2>4, <2>5 DEF Link
      <3>2. Told(n, f)' = Told(n, f)
        BY <1>1, <2>2 DEF Told
      <3>3. FromMaster(n, f)'
        BY <1>1, <2>1, <2>2, <2>3, <2>5, <3>1, <3>2 DEF FromMaster, Harmless, Brings
      <3> QED BY <2>5, <3>3 DEF Link
    <2>6. CASE ~(e < n)
      <3>1. FromSlave(n, f)
        BY <2>4, <2>6 DEF Link
      <3>2. FromSlave(n, f)'
        BY <1>1, <2>1, <2>2, <2>3, <2>6, <3>1 DEF FromSlave, Harmless, Brings
      <3> QED BY <2>6, <3>2 DEF Link
    <2> QED BY <2>5, <2>6
  <1> QED BY <1>2, <1>3 DEF Undisturbed

LEMMA EditKeeps ==
  ASSUME Distinct, Types, NEW n \in Nodes, Edit(n), NEW f \in Fields, NEW e \in Nodes,
         writers[f] \subseteq {e} => Undisturbed(f, e), writers'[f] \subseteq {e}
  PROVE  Undisturbed(f, e)'
  <1>1. /\ rec[n] # Nil
        /\ \/ \E g \in Fields, value \in {0, 1} :
                 /\ rec'[n] # Nil /\ rec'[n][g] = value /\ last'[g] = value
                 /\ \A h \in Fields : h # g => rec'[n][h] = rec[n][h] /\ last'[h] = last[h] /\ writers'[h] = writers[h]
                 /\ writers'[g] = writers[g] \cup {n}
           \/ \A h \in Fields : writers'[h] = Nodes
        /\ \A m \in Nodes : m # n => rec'[m] = rec[m]
        /\ UNCHANGED <<old, new, watcher, waiting, trapper>>
    BY EditEffect
  <1>2. writers'[f] # Nodes
    <2>1. 1 \in Nodes /\ 2 \in Nodes
      BY DEF Nodes, Distinct
    <2> QED BY <2>1
  <1>3. PICK g \in Fields, value \in {0, 1} :
           /\ rec'[n] # Nil /\ rec'[n][g] = value /\ last'[g] = value
           /\ \A h \in Fields : h # g => rec'[n][h] = rec[n][h] /\ last'[h] = last[h] /\ writers'[h] = writers[h]
           /\ writers'[g] = writers[g] \cup {n}
    BY <1>1, <1>2
  <1>4. Undisturbed(f, e)
    BY <1>3
  <1>5. rec[e] # Nil /\ rec[e][f] = last[f]
    BY <1>4 DEF Undisturbed
  <1>6. CASE g = f
    <2>1. n = e
      BY <1>3, <1>6
    <2> QED BY <1>1, <1>3, <1>4, <1>5, <1>6, <2>1, EditedKeeps
  <1>7. CASE g # f
    <2>1. rec'[n][f] = rec[n][f] /\ last'[f] = last[f]
      BY <1>3, <1>7
    <2> QED BY <1>1, <1>3, <1>4, <1>5, <2>1, EditedKeeps
  <1> QED BY <1>6, <1>7

-----------------------------------------------------------------------------
LEMMA AddedType == Distinct => Added \in Record /\ Added # Nil
  BY DEF Added, Record, Value, Distinct

LEMMA EditsInit == ASSUME Distinct, NodesInit PROVE EditsInv
  <1>1. Added \in Record /\ Added # Nil /\ \A f \in Fields : Added[f] = 0
    BY AddedType DEF Added
  <1>2. /\ new = [n \in Nodes |-> Nil] /\ watcher = [n \in Nodes |-> Nil]
        /\ waiting = [n \in Nodes |-> <<>>] /\ trapper = [n \in Nodes |-> Nil]
        /\ last = Added
    BY DEF NodesInit
  <1>3. /\ 1 \in Nodes /\ N \in Nodes
        /\ \A n \in 2 .. N : n \in Nodes /\ n - 1 \in Nodes
    BY DEF Nodes, Distinct
  <1>4. /\ \A n \in Nodes : new[n] = Nil /\ watcher[n] = Nil /\ trapper[n] = Nil /\ waiting[n] = <<>>
        /\ \A n \in Nodes : ~Collected(n) /\ ~Answers(n) /\ Sent(waiting[n]) = {} /\ AliveOnce(waiting[n])
    BY <1>2 DEF Collected, Answers, Sent, AliveOnce
  <1>5. Exchanges
    BY <1>3, <1>4 DEF Exchanges, Ends, OneExchange, SignsUpdates, OneAlive
  <1>6. ASSUME rec \in [Nodes -> Record \cup {Nil}], old \in [Nodes -> CheckSums \cup {Nil}],
               writers \in [Fields -> SUBSET Nodes]
        PROVE  Types
    <2>1. <<>> \in Seq(Request) /\ last \in [Fields -> Value]
      BY <1>1, <1>2 DEF Record
    <2> QED BY <1>2, <1>6, <2>1 DEF Types
  <1>7. CASE /\ rec = [n \in Nodes |-> Added]
             /\ old = [n \in Nodes |-> [ck |-> Added, sync |-> Synced]]
             /\ writers = [f \in Fields |-> {}]
    <2>1. PICK row : row = [ck |-> Added, sync |-> Synced]
      OBVIOUS
    <2>2. row \in CheckSums /\ row # Nil /\ row.ck = Added /\ row.sync = Synced
      <3>1. Added \in [Fields -> Value \cup {Nil}] /\ Synced \in [Fields -> [Sides -> {" ", "1", "2"}]]
        BY <1>1 DEF Record, Synced, Sides
      <3>2. [ck |-> Added, sync |-> Synced] \in CheckSums
        BY <3>1 DEF CheckSums
      <3> QED BY <2>1, <3>2 DEF Distinct
    <2>3. Types
      BY <1>1, <1>6, <1>7, <2>1, <2>2
    <2>4. ASSUME NEW f \in Fields, NEW e \in Nodes PROVE Undisturbed(f, e)
      <3>1. \A n \in Nodes : rec[n] = Added /\ old[n] = row
        BY <1>7, <2>1
      <3>2. Synced[f][MASTER] = "1" /\ Synced[f][SLAVE] = "1"
        BY DEF Synced
      <3>3. \A n \in Nodes : Known(n, f, MASTER) /\ Known(n, f, SLAVE)
        BY <2>2, <3>1, <3>2 DEF Known
      <3>4. ASSUME NEW n \in 2 .. N PROVE FromMaster(n, f) /\ FromSlave(n, f)
        <4>1. /\ rec[n] # Nil /\ rec[n - 1] # Nil /\ Known(n, f, MASTER) /\ Known(n - 1, f, SLAVE)
              /\ watcher[n] = Nil /\ trapper[n - 1] = Nil /\ Sent(waiting[n - 1]) = {} /\ ~Answers(n - 1)
          <5>1. n \in Nodes /\ n - 1 \in Nodes
            BY <1>3
          <5> QED BY <1>1, <1>4, <3>1, <3>3, <5>1
        <4>2. FromMaster(n, f)
          BY <4>1 DEF FromMaster
        <4>3. FromSlave(n, f)
          BY <4>1 DEF FromSlave
        <4> QED BY <4>2, <4>3
      <3> QED BY <1>1, <1>2, <1>4, <3>1, <3>4 DEF Undisturbed, Fresh, Link
    <2> QED BY <1>5, <2>3, <2>4 DEF EditsInv
  <1>8. ASSUME NEW d \in Nodes, rec = [n \in Nodes |-> IF n = d THEN Added ELSE Nil],
               old = [n \in Nodes |-> Nil], writers = [f \in Fields |-> {d}]
        PROVE  EditsInv
    <2>1. Types
      BY <1>1, <1>6, <1>8
    <2>2. ASSUME NEW f \in Fields, NEW e \in Nodes, writers[f] \subseteq {e} PROVE Undisturbed(f, e)
      <3>1. e = d /\ rec[e] = Added /\ \A n \in Nodes : old[n] = Nil /\ (n # e => rec[n] = Nil)
        BY <1>8, <2>2
      <3>2. ASSUME NEW n \in 2 .. N PROVE Link(n, f, e)
        <4>1. n \in Nodes /\ n - 1 \in Nodes /\ (e < n => n # e) /\ (~(e < n) => n - 1 # e)
          BY <1>3 DEF Nodes
        <4>2. Unmarked(n, f, MASTER) /\ Unmarked(n - 1, f, SLAVE)
          BY <3>1, <4>1 DEF Unmarked
        <4>3. CASE e < n
          BY <1>4, <3>1, <4>1, <4>2, <4>3 DEF FromMaster, Link
        <4>4. CASE ~(e < n)
          BY <1>4, <3>1, <4>1, <4>2, <4>4 DEF FromSlave, Link
        <4> QED BY <4>3, <4>4
      <3> QED BY <1>1, <1>2, <1>4, <3>1, <3>2 DEF Undisturbed, Fresh
    <2> QED BY <1>5, <2>1, <2>2 DEF EditsInv
  <1> QED BY <1>7, <1>8 DEF NodesInit

(* A trapper has a slave.                                                  *)
LEMMA TrapperHasSlave ==
  ASSUME Distinct, Exchanges, NEW n \in Nodes, process_trapper(n) \/ StopTrapper(n)
  PROVE  n + 1 \in 2 .. N /\ n = (n + 1) - 1
  <1>1. waiting[n] # <<>> \/ trapper[n] # Nil
    BY DEF process_trapper, node_sync, SignChanges, CalculateAnswer, SendAnswer, EndAnswer, StopTrapper
  <1>2. n # N
    BY <1>1 DEF Exchanges, Ends
  <1> QED BY <1>2 DEF Nodes, Distinct

LEMMA EditsStep == ASSUME Distinct, EditsInv, [NodesNext]_nodeVars PROVE EditsInv'
  <1>1. Types /\ Exchanges
    BY DEF EditsInv
  <1>2. ASSUME NEW n \in Nodes, process_nodes(n) \/ StopWatcher(n) PROVE EditsInv'
    <2>1. Exchanges'
      BY <1>1, <1>2, WatcherExchanges
    <2>2. Types' /\ writers' = writers /\ ("stop" \in gap => "stop" \in gap')
      <3>1. CASE calculate_checksums(n)
        BY <1>1, <3>1, CalculateEffect
      <3>2. CASE SendChanges(n)
        BY <1>1, <3>2, SendChangesEffect
      <3>3. CASE ReadAnswer(n)
        BY <1>1, <3>3, ReadAnswerEffect
      <3>4. CASE SignAnswer(n)
        BY <1>1, <3>4, SignAnswerEffect
      <3>5. CASE EndExchange(n)
        BY <1>1, <3>5, EndExchangeEffect
      <3>6. CASE StopWatcher(n)
        BY <1>1, <3>6, StopWatcherEffect
      <3> QED BY <1>2, <3>1, <3>2, <3>3, <3>4, <3>5, <3>6 DEF process_nodes
    <2>3. ASSUME "stop" \notin gap', NEW f \in Fields, NEW e \in Nodes, writers'[f] \subseteq {e}
          PROVE  Undisturbed(f, e)'
      <3>1. Undisturbed(f, e)
        BY <2>2, <2>3 DEF EditsInv
      <3> QED BY <1>1, <1>2, <2>3, <3>1, CalculateKeeps, SendChangesKeeps, ReadAnswerKeeps, SignAnswerKeeps,
                 EndExchangeKeeps, StopWatcherKeeps DEF process_nodes
    <2> QED BY <2>1, <2>2, <2>3 DEF EditsInv
  <1>3. ASSUME NEW k \in Nodes, process_trapper(k) \/ StopTrapper(k) PROVE EditsInv'
    <2>1. PICK n \in 2 .. N : k = n - 1
      BY <1>1, <1>3, TrapperHasSlave
    <2>2. Exchanges'
      BY <1>1, <1>3, <2>1, TrapperExchanges
    <2>3. Types' /\ writers' = writers /\ ("stop" \in gap => "stop" \in gap')
      <3>1. CASE node_sync(k)
        BY <1>1, <3>1, NodeSyncEffect
      <3>2. CASE SignChanges(k)
        BY <1>1, <3>2, SignChangesEffect
      <3>3. CASE CalculateAnswer(k)
        BY <1>1, <3>3, CalculateAnswerEffect
      <3>4. CASE SendAnswer(k)
        BY <1>1, <3>4, SendAnswerEffect
      <3>5. CASE EndAnswer(k)
        BY <1>1, <3>5, EndAnswerEffect
      <3>6. CASE StopTrapper(k)
        BY <1>1, <3>6, StopTrapperEffect
      <3> QED BY <1>3, <3>1, <3>2, <3>3, <3>4, <3>5, <3>6 DEF process_trapper
    <2>4. ASSUME "stop" \notin gap', NEW f \in Fields, NEW e \in Nodes, writers'[f] \subseteq {e}
          PROVE  Undisturbed(f, e)'
      <3>1. Undisturbed(f, e)
        BY <2>3, <2>4 DEF EditsInv
      <3> QED BY <1>1, <1>3, <2>1, <2>4, <3>1, NodeSyncKeeps, SignChangesKeeps, CalculateAnswerKeeps, SendAnswerKeeps,
                 EndAnswerKeeps, StopTrapperKeeps DEF process_trapper
    <2> QED BY <2>2, <2>3, <2>4 DEF EditsInv
  <1>4. ASSUME NEW n \in Nodes, Edit(n) PROVE EditsInv'
    <2>1. /\ Types' /\ ("stop" \in gap => "stop" \in gap')
          /\ UNCHANGED <<watcher, waiting, trapper>>
      BY <1>1, <1>4, EditEffect
    <2>2. Exchanges'
      BY <1>1, <2>1 DEF Exchanges, Ends, OneExchange, SignsUpdates, OneAlive, Waits, Answers
    <2>3. ASSUME "stop" \notin gap', NEW f \in Fields, NEW e \in Nodes, writers'[f] \subseteq {e}
          PROVE  Undisturbed(f, e)'
      <3>1. writers[f] \subseteq {e} => Undisturbed(f, e)
        BY <2>1, <2>3 DEF EditsInv
      <3> QED BY <1>1, <1>4, <2>3, <3>1, EditKeeps
    <2> QED BY <2>1, <2>2, <2>3 DEF EditsInv
  <1>5. ASSUME UNCHANGED nodeVars PROVE EditsInv'
    <2>1. UNCHANGED <<rec, old, new, watcher, waiting, trapper, writers, last, gap>>
      BY <1>5 DEF nodeVars, copies, processes, edited
    <2>2. Types' /\ Exchanges'
      BY <1>1, <2>1 DEF Types, Exchanges, Ends, OneExchange, SignsUpdates, OneAlive, Waits, Answers
    <2>3. ASSUME "stop" \notin gap', NEW f \in Fields, NEW e \in Nodes, writers'[f] \subseteq {e}
          PROVE  Undisturbed(f, e)'
      <3>1. Undisturbed(f, e)
        BY <2>1, <2>3 DEF EditsInv
      <3>2. rec'[e] # Nil /\ rec'[e][f] = last'[f]
        BY <2>1, <3>1 DEF Undisturbed
      <3> QED BY <2>1, <3>1, <3>2, EditedKeeps
    <2> QED BY <2>2, <2>3 DEF EditsInv
  <1> QED BY <1>2, <1>3, <1>4, <1>5 DEF NodesNext

(* An edit of a field that no other node edits is never undone by older    *)
(* values that the node watchers and trappers carry between the nodes,     *)
(* over any number of nodes and broken exchanges: get_config_data sends no *)
(* field that the other side is known to have, and update_checksums marks  *)
(* none that it may not have.  Only a process that is stopped between a    *)
(* value that it has stored and its check sum is left out.                 *)
THEOREM EditsNotUndone == ASSUME Distinct PROVE NodesSpec => []EditsKept
  <1>1. NodesInit => EditsInv
    BY EditsInit
  <1>2. EditsInv /\ [NodesNext]_nodeVars => EditsInv'
    BY EditsStep
  <1>3. EditsInv => EditsKept
    <2> SUFFICES ASSUME EditsInv, NEW f \in Fields, NEW e \in DOMAIN rec, writers[f] = {e}, "stop" \notin gap
                 PROVE  rec[e] # Nil /\ rec[e][f] = last[f]
      BY DEF EditsKept
    <2>1. e \in Nodes
      BY DEF EditsInv, Types
    <2>2. Undisturbed(f, e)
      BY <2>1 DEF EditsInv
    <2> QED BY <2>2 DEF Undisturbed
  <1> QED BY <1>1, <1>2, <1>3, PTL DEF NodesSpec
=============================================================================
