---------------------------- MODULE HistoryQueue ----------------------------
(***************************************************************************)
(* What the history cache promises its users, without the ring, the text   *)
(* buffer and the semaphore: a queue of values.  A value is appended at    *)
(* the end; a syncer moves values from the queue into its batch, the       *)
(* values of one item always oldest first; a batch is stored as a whole.   *)
(* A proxy's syncer takes the values strictly in the order of the queue, a *)
(* server's takes at most one value of an item into a batch.               *)
(***************************************************************************)
EXTENDS Integers, Sequences

CONSTANTS Syncers, Items, SYNC_MAX, Proxy

VARIABLES queue, batch, added, stored

vars == <<queue, batch, added, stored>>

Init ==
    /\ queue = <<>>
    /\ batch = [s \in Syncers |-> <<>>]
    /\ added = 0
    /\ stored = {}

Add ==
    /\ \E i \in Items : queue' = Append(queue, [id |-> added + 1, itemid |-> i])
    /\ added' = added + 1
    /\ UNCHANGED <<batch, stored>>

Remove(q, k) == SubSeq(q, 1, k - 1) \o SubSeq(q, k + 1, Len(q))

InBatch(s, i) == \E k \in 1 .. Len(batch[s]) : batch[s][k].itemid = i

MayTake(s, k) ==
    IF Proxy THEN k = 1
    ELSE /\ ~InBatch(s, queue[k].itemid)
         /\ \A j \in 1 .. k - 1 : queue[j].itemid # queue[k].itemid

Take(s) ==
    /\ Len(batch[s]) < SYNC_MAX
    /\ \E k \in 1 .. Len(queue) :
          /\ MayTake(s, k)
          /\ batch' = [batch EXCEPT ![s] = Append(@, queue[k])]
          /\ queue' = Remove(queue, k)
    /\ UNCHANGED <<added, stored>>

Store(s) ==
    /\ batch[s] # <<>>
    /\ stored' = stored \cup {batch[s][k].id : k \in 1 .. Len(batch[s])}
    /\ batch' = [batch EXCEPT ![s] = <<>>]
    /\ UNCHANGED <<queue, added>>

Next == Add \/ \E s \in Syncers : Take(s) \/ Store(s)

Spec == Init /\ [][Next]_vars
=============================================================================
