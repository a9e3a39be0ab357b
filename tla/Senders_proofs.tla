--------------------------- MODULE Senders_proofs ---------------------------
(***************************************************************************)
(* Proofs about the two ways in which history is sent on: DataSender with  *)
(* one db syncer, for any numbers of trappers, rows and failures, any size *)
(* of a request and any times of the housekeeper; and NodeHistory, for any *)
(* number of nodes, db syncers, rows and stops and any size of a request.  *)
(***************************************************************************)
EXTENDS DataSender, NodeHistory, FiniteSetTheorems, WellFoundedInduction, TLAPS

(***************************************************************************)
(* DataSender.                                                             *)
(***************************************************************************)

(* Transactions of the proxy that insert rows do not overlap.              *)
OneWriter == \A v, w \in Writers : v = w

Types ==
    /\ now \in Nat /\ rows \in Nat
    /\ open \in [Writers -> SUBSET Row]
    /\ proxy_history \in SUBSET Row
    /\ nextid \in Nat \cup {None}
    /\ j \in SUBSET Row
    /\ conn \in Trappers \cup {None} /\ answer \in BOOLEAN
    /\ DOMAIN todo = Trappers
    /\ \A t \in Trappers : todo[t] # None => todo[t] \in SUBSET Row
    /\ received \in Seq(Row)
    /\ deleted \in SUBSET Row
    /\ hk # None => hk.now \in Nat /\ hk.lastid \in Nat

(* Ids grow: those of the rows that are not committed are beyond all       *)
(* others.                                                                 *)
IdsGrow ==
    /\ get_lastid <= rows
    /\ \A r \in proxy_history \cup j : r.id <= rows
    /\ \A w \in Writers : \A r \in open[w] :
          /\ get_lastid < r.id /\ r.id <= rows
          /\ \A q \in proxy_history \cup j : q.id < r.id

(* The request holds all rows between the last id and any id of its own.   *)
RequestComplete ==
    pc \in {"connect", "recv", "set_lastid"} =>
        /\ j # {}
        /\ \A q \in j : get_lastid < q.id
        /\ \A q \in j, r \in proxy_history : r.id <= q.id => r.id <= get_lastid \/ r \in j

(* An answer is on the way only when all rows of the request are received. *)
AnswerTrue ==
    /\ pc \in {"sleep", "select", "connect"} => conn = None /\ ~answer
    /\ pc = "recv" /\ ~answer /\ conn # None => \A r \in j : r \in Received \/ r \in todo[conn]
    /\ pc = "recv" /\ answer => j \subseteq Received
    /\ pc = "set_lastid" => j \subseteq Received
    /\ pc \in {"sleep", "select", "connect", "recv", "set_lastid"}

(* What the housekeeper has read is not ahead.                             *)
ReadBefore == hk # None => hk.now <= now /\ hk.lastid <= get_lastid

Inv ==
    /\ Types
    /\ IsFiniteSet(proxy_history)
    /\ \A w \in Writers : IsFiniteSet(open[w])
    /\ IdsGrow
    /\ RequestComplete
    /\ AnswerTrue
    /\ ReadBefore
    /\ SentReceived
    /\ UnsentKept

-----------------------------------------------------------------------------
(* Lemmas about the operators.                                             *)

LEMMA LeastNumber ==
  ASSUME NEW S \in SUBSET Nat, S # {}
  PROVE  \E m \in S : \A i \in S : m <= i
  <1>1. PICK m \in S : \A i \in S : <<i, m>> \notin OpToRel(<, Nat)
    BY NatLessThanWellFounded, WFMin
  <1>2. \A i \in S : ~(i < m)
    BY <1>1 DEF OpToRel
  <1>3. \A i \in S : m <= i
    BY <1>2
  <1> QED BY <1>3

LEMMA LeastRow ==
  ASSUME NEW S \in SUBSET Row, S # {}
  PROVE  \E m \in S : \A r \in S : m.id <= r.id
  <1> DEFINE Ids == {r.id : r \in S}
  <1>1. Ids \subseteq Nat /\ Ids # {}
    BY DEF Row
  <1>2. \E m \in Ids : \A i \in Ids : m <= i
    <2> HIDE DEF Ids
    <2> QED BY <1>1, LeastNumber
  <1> QED BY <1>2

LEMMA GreatestRow ==
  ASSUME NEW S \in SUBSET Row, S # {}, NEW n \in Nat, \A r \in S : r.id <= n
  PROVE  \E m \in S : \A r \in S : r.id <= m.id
  <1> DEFINE Gaps == {n - r.id : r \in S}
  <1>1. Gaps \subseteq Nat /\ Gaps # {}
    BY DEF Row
  <1>2. \E m \in Gaps : \A i \in Gaps : m <= i
    <2> HIDE DEF Gaps
    <2> QED BY <1>1, LeastNumber
  <1>3. PICK q \in S : \A r \in S : n - q.id <= n - r.id
    BY <1>2
  <1>4. \A r \in S : r.id \in Nat
    BY DEF Row
  <1> QED BY <1>3, <1>4

(* The last id of a request is the id of one of its rows, and the largest. *)
LEMMA LastIdOfRow ==
  ASSUME NEW S \in SUBSET Row, S # {}, NEW n \in Nat, \A r \in S : r.id <= n
  PROVE  /\ \E q \in S : LastId(S) = q.id
         /\ \A r \in S : r.id <= LastId(S)
  <1>1. PICK m \in S : \A r \in S : r.id <= m.id
    BY GreatestRow
  <1>2. \E i \in {r.id : r \in S} : \A r \in S : r.id <= i
    BY <1>1
  <1> QED BY <1>2 DEF LastId

(* The first rows of a finite set: at least one, and all up to each.       *)
LEMMA FirstOfRows ==
  ASSUME NEW S \in SUBSET Row, IsFiniteSet(S), NEW T, T = FirstOf(S)
  PROVE  /\ T \subseteq S
         /\ S # {} => T # {}
         /\ \A q \in T, r \in S : r.id <= q.id => r \in T
  <1> DEFINE Before(r) == {q \in S : q.id < r.id}
  <1>1. T = {r \in S : Cardinality(Before(r)) < MAX_HRECORDS}
    BY DEF FirstOf
  <1>2. \A r \in S : IsFiniteSet(Before(r)) /\ Cardinality(Before(r)) \in Nat
    BY FS_Subset, FS_CardinalityType
  <1>3. MAX_HRECORDS \in Nat \ {0}
    BY SenderAssumption DEF SenderAssumption
  <1>4. ASSUME S # {} PROVE T # {}
    <2>1. PICK m \in S : \A r \in S : m.id <= r.id
      BY <1>4, LeastRow
    <2>2. Before(m) = {}
      BY <2>1 DEF Row
    <2>3. Cardinality(Before(m)) = 0
      BY <2>2, FS_EmptySet
    <2>4. m \in T
      BY <1>1, <1>3, <2>1, <2>3
    <2> QED BY <2>4
  <1>5. ASSUME NEW q \in T, NEW r \in S, r.id <= q.id PROVE r \in T
    <2>1. q \in S /\ Cardinality(Before(q)) < MAX_HRECORDS
      BY <1>1
    <2>2. Before(r) \subseteq Before(q)
      BY <1>5, <2>1 DEF Row
    <2>3. Cardinality(Before(r)) <= Cardinality(Before(q))
      BY <1>2, <2>1, <2>2, FS_Subset
    <2> HIDE DEF Before
    <2>4. Cardinality(Before(r)) < MAX_HRECORDS
      BY <1>2, <1>3, <2>1, <2>3
    <2> QED BY <1>1, <2>4
  <1> QED BY <1>1, <1>4, <1>5

LEMMA ReceivedMore ==
  ASSUME received \in Seq(Row), NEW r \in Row, received' = Append(received, r)
  PROVE  Received' = Received \cup {r} /\ received' \in Seq(Row)
  <1>1. /\ Len(received') = Len(received) + 1 /\ Len(received) \in Nat
        /\ received'[Len(received) + 1] = r
        /\ \A k \in 1 .. Len(received) : received'[k] = received[k]
    OBVIOUS
  <1>2. ASSUME NEW q \in Received' PROVE q \in Received \cup {r}
    <2>1. PICK k \in 1 .. Len(received) + 1 : q = received'[k]
      BY <1>1, <1>2 DEF Received
    <2> QED BY <1>1, <2>1 DEF Received
  <1>3. ASSUME NEW q \in Received \cup {r} PROVE q \in Received'
    BY <1>1, <1>3 DEF Received
  <1> QED BY <1>2, <1>3

(* The initial states satisfy the invariant.                               *)
LEMMA InitInv == Init => Inv
  <1> SUFFICES ASSUME Init PROVE Inv
    OBVIOUS
  <1> USE SenderAssumption DEF Init
  <1>1. Types
    <2>1. open \in [Writers -> SUBSET Row] /\ DOMAIN todo = Trappers
      OBVIOUS
    <2>2. received \in Seq(Row)
      OBVIOUS
    <2>3. now \in Nat /\ rows \in Nat /\ nextid \in Nat \cup {None}
      OBVIOUS
    <2>4. proxy_history \in SUBSET Row /\ j \in SUBSET Row /\ deleted \in SUBSET Row
      OBVIOUS
    <2> QED BY <2>1, <2>2, <2>3, <2>4 DEF Types
  <1>2. IsFiniteSet(proxy_history) /\ \A w \in Writers : IsFiniteSet(open[w])
    BY FS_EmptySet
  <1>3. IdsGrow /\ RequestComplete /\ AnswerTrue
    BY DEF IdsGrow, RequestComplete, AnswerTrue, get_lastid
  <1>4. ReadBefore /\ SentReceived /\ UnsentKept
    BY DEF ReadBefore, SentReceived, UnsentKept
  <1> QED BY <1>1, <1>2, <1>3, <1>4 DEF Inv
-----------------------------------------------------------------------------
(* Every step preserves the invariant.                                     *)

(* Time passes: a row that is too old stays so.                            *)
LEMMA ClockInv == ASSUME Inv, Tick PROVE Inv'
  <1> USE SenderAssumption DEF SenderAssumption, Tick, sender, server, cleaning, Inv
  <1>1. Types'
    BY DEF Types
  <1>2. (IsFiniteSet(proxy_history) /\ \A w \in Writers : IsFiniteSet(open[w]))'
    OBVIOUS
  <1>3. IdsGrow' /\ RequestComplete'
    BY DEF IdsGrow, RequestComplete, get_lastid
  <1>4. AnswerTrue' /\ SentReceived'
    BY DEF AnswerTrue, SentReceived, Received, get_lastid
  <1>5. ReadBefore'
    BY DEF ReadBefore, get_lastid, Types
  <1>6. UnsentKept'
    <2>1. now \in Nat /\ now' = now + 1 /\ OFFLINE_BUFFER \in Nat
      BY DEF Types
    <2>2. \A r \in deleted : r.clock \in Nat
      BY DEF Types, Row
    <2>3. \A r \in deleted : r \in Received \/ r.clock < now' - OFFLINE_BUFFER
      BY <2>1, <2>2 DEF UnsentKept
    <2> QED BY <2>3 DEF UnsentKept, Received
  <1> QED BY <1>1, <1>2, <1>3, <1>4, <1>5, <1>6

(* A row is inserted with an id beyond all others.                         *)
LEMMA InsertInv == ASSUME Inv, NEW w \in Writers, DCmass_proxy_add_history(w) PROVE Inv'
  <1> USE SenderAssumption DEF SenderAssumption, sender, server, cleaning, Inv
  <1>1. PICK i \in Items : open' = [open EXCEPT ![w] = @ \cup {[id |-> rows + 1, itemid |-> i, clock |-> now]}]
    BY DEF DCmass_proxy_add_history
  <1> DEFINE row == [id |-> rows + 1, itemid |-> i, clock |-> now]
  <1>2. row \in Row /\ row.id = rows + 1
    BY DEF Types, Row
  <1> HIDE DEF row
  <1>3. /\ rows' = rows + 1
        /\ UNCHANGED <<now, proxy_history, nextid, sender, server, cleaning, failures>>
        /\ open' = [open EXCEPT ![w] = @ \cup {row}]
    BY <1>1 DEF DCmass_proxy_add_history, row
  <1>4. open' \in [Writers -> SUBSET Row] /\ open'[w] = open[w] \cup {row}
        /\ \A v \in Writers : v # w => open'[v] = open[v]
    BY <1>2, <1>3 DEF Types
  <1>5. Types'
    BY <1>3, <1>4 DEF Types
  <1>6. (IsFiniteSet(proxy_history) /\ \A v \in Writers : IsFiniteSet(open[v]))'
    BY <1>3, <1>4, FS_AddElement
  <1>7. IdsGrow'
    <2>1. get_lastid' = get_lastid /\ get_lastid \in Nat /\ rows \in Nat
      BY <1>3 DEF get_lastid, Types
    <2>2. \A r \in proxy_history \cup j : r.id \in Nat /\ r.id <= rows
      BY DEF Types, Row, IdsGrow
    <2>3. \A v \in Writers : \A r \in open[v] : r.id \in Nat /\ r.id <= rows
      BY DEF Types, Row, IdsGrow
    <2> QED BY <1>2, <1>3, <1>4, <2>1, <2>2, <2>3 DEF IdsGrow
  <1>8. RequestComplete' /\ AnswerTrue' /\ ReadBefore' /\ UnsentKept'
    BY <1>3 DEF RequestComplete, AnswerTrue, ReadBefore, UnsentKept, Received, get_lastid
  <1>9. SentReceived'
    <2>1. get_lastid' = get_lastid /\ get_lastid \in Nat /\ rows \in Nat /\ get_lastid <= rows
      BY <1>3 DEF get_lastid, Types, IdsGrow
    <2>2. Received' = Received
      BY <1>3 DEF Received
    <2>3. ~(row.id <= get_lastid)
      BY <1>2, <2>1
    <2> QED BY <1>3, <1>4, <2>1, <2>2, <2>3 DEF SentReceived
  <1> QED BY <1>5, <1>6, <1>7, <1>8, <1>9

(* The one transaction commits; the row of a request in process is not     *)
(* behind it.                                                              *)
LEMMA CommitInv == ASSUME Inv, OneWriter, NEW w \in Writers, DBcommit(w) PROVE Inv'
  <1> USE DEF DBcommit, sender, server, cleaning, Inv
  <1>1. open' \in [Writers -> SUBSET Row] /\ \A v \in Writers : open'[v] = {}
    BY DEF Types, OneWriter
  <1>2. open[w] \subseteq Row
    BY DEF Types
  <1>3. Types'
    BY <1>1, <1>2 DEF Types
  <1>4. (IsFiniteSet(proxy_history) /\ \A v \in Writers : IsFiniteSet(open[v]))'
    BY <1>1, FS_Union, FS_EmptySet
  <1>5. IdsGrow'
    BY <1>1 DEF IdsGrow, get_lastid
  <1>6. RequestComplete'
    <2>1. \A r \in open[w], q \in j : ~(r.id <= q.id)
      BY <1>2 DEF IdsGrow, Types, Row
    <2> QED BY <2>1 DEF RequestComplete, get_lastid
  <1>7. AnswerTrue' /\ ReadBefore' /\ UnsentKept'
    BY DEF AnswerTrue, ReadBefore, UnsentKept, Received, get_lastid
  <1>8. SentReceived'
    BY <1>1 DEF SentReceived, Received, get_lastid
  <1> QED BY <1>3, <1>4, <1>5, <1>6, <1>7, <1>8

(* The sender gives up, or forgets, its request.                           *)
LEMMA ForgetInv ==
  ASSUME Inv, Disconnect, UNCHANGED <<now, rows, proxy_history, nextid, server, deleted>>,
         open' = open \/ open' = [w \in Writers |-> {}],
         hk' = hk \/ hk' = None
  PROVE  Inv'
  <1> USE DEF Disconnect, server, Inv
  <1>1. Types'
    BY DEF Types
  <1>2. (IsFiniteSet(proxy_history) /\ \A v \in Writers : IsFiniteSet(open[v]))'
    BY FS_EmptySet
  <1>3. IdsGrow'
    BY DEF IdsGrow, get_lastid
  <1>4. RequestComplete' /\ AnswerTrue'
    BY DEF RequestComplete, AnswerTrue
  <1>5. ReadBefore'
    BY DEF ReadBefore, get_lastid
  <1>6. SentReceived' /\ UnsentKept'
    BY DEF SentReceived, UnsentKept, Received, get_lastid
  <1> QED BY <1>1, <1>2, <1>3, <1>4, <1>5, <1>6

LEMMA WakeInv == ASSUME Inv, Wake PROVE Inv'
  <1> USE DEF Wake, server, cleaning, Inv
  <1>1. Types' /\ (IsFiniteSet(proxy_history) /\ \A v \in Writers : IsFiniteSet(open[v]))'
    BY DEF Types
  <1>2. IdsGrow' /\ RequestComplete' /\ AnswerTrue' /\ ReadBefore'
    BY DEF IdsGrow, RequestComplete, AnswerTrue, ReadBefore, get_lastid
  <1>3. SentReceived' /\ UnsentKept'
    BY DEF SentReceived, UnsentKept, Received, get_lastid
  <1> QED BY <1>1, <1>2, <1>3

(* The rows selected are the first that are not sent.                      *)
LEMMA SelectInv == ASSUME Inv, get_history_data PROVE Inv'
  <1> USE DEF server, cleaning, Inv
  <1>1. PICK T : T = FirstOf(Unsent) /\ j' = T
    BY DEF get_history_data
  <1>2. /\ pc = "select" /\ pc' = IF Unsent = {} THEN "sleep" ELSE "connect"
        /\ UNCHANGED <<now, rows, open, proxy_history, nextid, conn, answer, server, cleaning, failures>>
    BY DEF get_history_data
  <1>3. Unsent \in SUBSET Row /\ IsFiniteSet(Unsent) /\ Unsent \subseteq proxy_history
    BY FS_Subset DEF Unsent, Types
  <1>4. /\ T \subseteq Unsent /\ T \subseteq proxy_history
        /\ Unsent # {} => T # {}
        /\ \A q \in T, r \in Unsent : r.id <= q.id => r \in T
    BY <1>1, <1>3, FirstOfRows
  <1>5. Types'
    BY <1>1, <1>2, <1>3, <1>4 DEF Types
  <1>6. (IsFiniteSet(proxy_history) /\ \A v \in Writers : IsFiniteSet(open[v]))'
    BY <1>2
  <1>7. IdsGrow'
    BY <1>1, <1>2, <1>4 DEF IdsGrow, get_lastid
  <1>8. RequestComplete'
    <2>1. get_lastid' = get_lastid /\ get_lastid \in Nat
      BY <1>2 DEF get_lastid, Types
    <2>2. \A q \in T : get_lastid < q.id
      BY <1>4 DEF Unsent
    <2>3. \A r \in proxy_history : r.id <= get_lastid \/ r \in Unsent
      BY <2>1 DEF Unsent, Types, Row
    <2> QED BY <1>1, <1>2, <1>4, <2>1, <2>2, <2>3 DEF RequestComplete
  <1>9. AnswerTrue' /\ ReadBefore'
    BY <1>1, <1>2 DEF AnswerTrue, ReadBefore, get_lastid
  <1>10. SentReceived' /\ UnsentKept'
    BY <1>2 DEF SentReceived, UnsentKept, Received, get_lastid
  <1> QED BY <1>5, <1>6, <1>7, <1>8, <1>9, <1>10

(* A trapper takes the request over the new connection.                    *)
LEMMA ConnectInv == ASSUME Inv, NEW t \in Trappers, Connect(t) PROVE Inv'
  <1> USE SenderAssumption DEF SenderAssumption, Connect, cleaning, Inv
  <1>1. todo'[t] = j /\ DOMAIN todo' = Trappers /\ \A u \in Trappers : u # t => todo'[u] = todo[u]
    BY DEF Types
  <1>2. Types'
    BY <1>1 DEF Types
  <1>3. (IsFiniteSet(proxy_history) /\ \A v \in Writers : IsFiniteSet(open[v]))'
    OBVIOUS
  <1>4. IdsGrow' /\ RequestComplete' /\ ReadBefore'
    BY DEF IdsGrow, RequestComplete, ReadBefore, get_lastid
  <1>5. AnswerTrue'
    BY <1>1 DEF AnswerTrue, Received
  <1>6. SentReceived' /\ UnsentKept'
    BY DEF SentReceived, UnsentKept, Received, get_lastid
  <1> QED BY <1>2, <1>3, <1>4, <1>5, <1>6

LEMMA AnsweredInv == ASSUME Inv, put_data_to_server PROVE Inv'
  <1> USE DEF put_data_to_server, server, cleaning, Inv
  <1>1. Types' /\ (IsFiniteSet(proxy_history) /\ \A v \in Writers : IsFiniteSet(open[v]))'
    BY DEF Types
  <1>2. IdsGrow' /\ RequestComplete' /\ ReadBefore'
    BY DEF IdsGrow, RequestComplete, ReadBefore, get_lastid
  <1>3. AnswerTrue'
    BY DEF AnswerTrue, Received
  <1>4. SentReceived' /\ UnsentKept'
    BY DEF SentReceived, UnsentKept, Received, get_lastid
  <1> QED BY <1>1, <1>2, <1>3, <1>4

(* The rows of the request are received: the last id may move past them.   *)
LEMMA StoredInv == ASSUME Inv, set_lastid PROVE Inv'
  <1> USE DEF server, cleaning, Inv
  <1>1. /\ pc = "set_lastid" /\ nextid' = LastId(j) /\ Disconnect
        /\ UNCHANGED <<now, rows, open, proxy_history, server, cleaning, failures>>
    BY DEF set_lastid
  <1>2. /\ j \in SUBSET Row /\ j # {} /\ rows \in Nat /\ get_lastid \in Nat
        /\ \A r \in j : r.id <= rows
    BY <1>1 DEF Types, RequestComplete, IdsGrow, get_lastid
  <1>3. /\ \E q \in j : LastId(j) = q.id
        /\ \A r \in j : r.id <= LastId(j)
    BY <1>2, LastIdOfRow
  <1>4. PICK q \in j : LastId(j) = q.id
    BY <1>3
  <1>5. /\ q.id \in Nat /\ get_lastid < q.id /\ q.id <= rows
        /\ nextid' = q.id
    BY <1>1, <1>2, <1>4 DEF Row, RequestComplete
  <1>6. get_lastid' = q.id
    BY <1>5, SenderAssumption DEF get_lastid, SenderAssumption
  <1>7. Types'
    BY <1>1, <1>5 DEF Types, Disconnect
  <1>8. (IsFiniteSet(proxy_history) /\ \A v \in Writers : IsFiniteSet(open[v]))'
    BY <1>1
  <1>9. IdsGrow'
    BY <1>1, <1>4, <1>5, <1>6 DEF IdsGrow, Disconnect
  <1>10. RequestComplete' /\ AnswerTrue'
    BY <1>1 DEF RequestComplete, AnswerTrue, Disconnect
  <1>11. ReadBefore'
    BY <1>1, <1>2, <1>5, <1>6 DEF ReadBefore, Types
  <1>12. SentReceived'
    <2>1. Received' = Received /\ j \subseteq Received
      BY <1>1 DEF Received, AnswerTrue
    <2>2. \A r \in proxy_history : r.id <= q.id => r \in Received
      BY <1>1, <1>4, <2>1 DEF RequestComplete, SentReceived
    <2>3. \A w \in Writers : \A r \in open[w] : ~(r.id <= q.id)
      BY <1>4, <1>5 DEF IdsGrow, Types, Row
    <2> QED BY <1>1, <1>6, <2>1, <2>2, <2>3 DEF SentReceived
  <1>13. UnsentKept'
    BY <1>1 DEF UnsentKept, Received
  <1> QED BY <1>7, <1>8, <1>9, <1>10, <1>11, <1>12, <1>13

(* A row that is taken from what a trapper still has to do is received.    *)
LEMMA ProcessInv == ASSUME Inv, NEW t \in Trappers, process_mass_data(t) PROVE Inv'
  <1> USE SenderAssumption DEF SenderAssumption, sender, cleaning, Inv
  <1>1. PICK r \in NextValues(todo[t]) :
            /\ todo' = [todo EXCEPT ![t] = @ \ {r}]
            /\ received' = IF r \in Received THEN received ELSE Append(received, r)
    BY DEF process_mass_data
  <1>2. /\ todo[t] # None
        /\ UNCHANGED <<now, rows, open, proxy_history, nextid, sender, cleaning, failures>>
    BY DEF process_mass_data
  <1>3. todo[t] \in SUBSET Row /\ r \in Row
    BY <1>2 DEF Types, NextValues
  <1>4. Received' = Received \cup {r} /\ received' \in Seq(Row)
    <2>1. CASE r \in Received
      BY <1>1, <2>1 DEF Received, Types
    <2>2. CASE r \notin Received
      BY <1>1, <1>3, <2>2, ReceivedMore DEF Types
    <2> QED BY <2>1, <2>2
  <1>5. DOMAIN todo' = Trappers /\ todo'[t] = todo[t] \ {r}
        /\ \A u \in Trappers : u # t => todo'[u] = todo[u]
    BY <1>1 DEF Types
  <1>6. Types'
    BY <1>2, <1>3, <1>4, <1>5 DEF Types
  <1>7. (IsFiniteSet(proxy_history) /\ \A v \in Writers : IsFiniteSet(open[v]))'
    BY <1>2
  <1>8. IdsGrow' /\ RequestComplete' /\ ReadBefore'
    BY <1>2 DEF IdsGrow, RequestComplete, ReadBefore, get_lastid
  <1>9. AnswerTrue'
    <2>1. UNCHANGED <<pc, j, conn, answer>>
      BY <1>2
    <2>2. ASSUME pc = "recv", ~answer, conn # None, NEW q \in j
          PROVE  q \in Received' \/ q \in todo'[conn]
      <3>1. q \in Received \/ q \in todo[conn]
        BY <2>2 DEF AnswerTrue
      <3>2. conn \in Trappers
        BY <2>2 DEF Types
      <3> QED BY <1>4, <1>5, <3>1, <3>2
    <2> QED BY <1>4, <2>1, <2>2 DEF AnswerTrue
  <1>10. SentReceived' /\ UnsentKept'
    BY <1>2, <1>4 DEF SentReceived, UnsentKept, get_lastid
  <1> QED BY <1>6, <1>7, <1>8, <1>9, <1>10

(* The answer says that all rows are received; that of an earlier request  *)
(* does not reach the sender.                                              *)
LEMMA AnswerInv == ASSUME Inv, NEW t \in Trappers, send_result(t) PROVE Inv'
  <1> USE SenderAssumption DEF SenderAssumption, cleaning, Inv
  <1>1. /\ todo[t] = {} /\ answer' = (answer \/ conn = t)
        /\ todo' = [todo EXCEPT ![t] = None]
        /\ UNCHANGED <<now, rows, open, proxy_history, nextid, pc, j, conn, received, cleaning, failures>>
    BY DEF send_result
  <1>2. DOMAIN todo' = Trappers /\ todo'[t] = None
        /\ \A u \in Trappers : u # t => todo'[u] = todo[u]
    BY <1>1 DEF Types
  <1>3. answer' \in BOOLEAN
    BY <1>1, Zenon
  <1>4. Types'
    BY <1>1, <1>2, <1>3 DEF Types
  <1>5. (IsFiniteSet(proxy_history) /\ \A v \in Writers : IsFiniteSet(open[v]))'
    BY <1>1
  <1>6. IdsGrow' /\ RequestComplete' /\ ReadBefore'
    BY <1>1 DEF IdsGrow, RequestComplete, ReadBefore, get_lastid
  <1>7. AnswerTrue'
    <2>1. Received' = Received
      BY <1>1 DEF Received
    <2>2. CASE conn = t
      <3>1. answer' = TRUE /\ conn # None
        BY <1>1, <2>2, Zenon
      <3>2. pc = "recv" => j \subseteq Received
        BY <1>1, <2>2, <3>1 DEF AnswerTrue
      <3> QED BY <1>1, <2>1, <2>2, <3>1, <3>2 DEF AnswerTrue
    <2>3. CASE conn # t
      <3>1. answer' = answer
        BY <1>1, <2>3, Zenon DEF Types
      <3> QED BY <1>1, <1>2, <2>1, <2>3, <3>1 DEF AnswerTrue, Types
    <2> QED BY <2>2, <2>3
  <1>8. SentReceived' /\ UnsentKept'
    BY <1>1 DEF SentReceived, UnsentKept, Received, get_lastid
  <1> QED BY <1>4, <1>5, <1>6, <1>7, <1>8

LEMMA ExitInv == ASSUME Inv, NEW t \in Trappers, TrapperExit(t) PROVE Inv'
  <1> USE SenderAssumption DEF SenderAssumption, cleaning, Inv
  <1>1. /\ todo' = [todo EXCEPT ![t] = None]
        /\ conn' = IF conn = t THEN None ELSE conn
        /\ UNCHANGED <<now, rows, open, proxy_history, nextid, pc, j, answer, received, cleaning>>
    BY DEF TrapperExit
  <1>2. DOMAIN todo' = Trappers /\ todo'[t] = None
        /\ \A u \in Trappers : u # t => todo'[u] = todo[u]
    BY <1>1 DEF Types
  <1>3. Types'
    BY <1>1, <1>2 DEF Types
  <1>4. (IsFiniteSet(proxy_history) /\ \A v \in Writers : IsFiniteSet(open[v]))'
    BY <1>1
  <1>5. IdsGrow' /\ RequestComplete' /\ ReadBefore'
    BY <1>1 DEF IdsGrow, RequestComplete, ReadBefore, get_lastid
  <1>6. AnswerTrue'
    BY <1>1, <1>2 DEF AnswerTrue, Received, Types
  <1>7. SentReceived' /\ UnsentKept'
    BY <1>1 DEF SentReceived, UnsentKept, Received, get_lastid
  <1> QED BY <1>3, <1>4, <1>5, <1>6, <1>7

(* The housekeeper reads the hour and the last id.                         *)
LEMMA ReadInv == ASSUME Inv, HousekeeperRead PROVE Inv'
  <1> USE SenderAssumption DEF SenderAssumption, sender, server, Inv
  <1>1. PICK m \in proxy_history : hk' = [now |-> now, lastid |-> nextid, minclock |-> m.clock]
    BY DEF HousekeeperRead
  <1>2. /\ nextid # None
        /\ UNCHANGED <<now, rows, open, proxy_history, nextid, sender, server, deleted, failures>>
    BY DEF HousekeeperRead
  <1>3. now \in Nat /\ nextid \in Nat /\ get_lastid = nextid /\ get_lastid' = nextid
    BY <1>2 DEF Types, get_lastid
  <1>4. hk'.now = now /\ hk'.lastid = nextid
    BY <1>1
  <1>5. Types'
    BY <1>2, <1>3, <1>4 DEF Types
  <1>6. (IsFiniteSet(proxy_history) /\ \A v \in Writers : IsFiniteSet(open[v]))'
    BY <1>2
  <1>7. IdsGrow' /\ RequestComplete' /\ AnswerTrue'
    BY <1>2 DEF IdsGrow, RequestComplete, AnswerTrue, Received, get_lastid
  <1>8. ReadBefore'
    BY <1>2, <1>3, <1>4 DEF ReadBefore
  <1>9. SentReceived' /\ UnsentKept'
    BY <1>2 DEF SentReceived, UnsentKept, Received, get_lastid
  <1> QED BY <1>5, <1>6, <1>7, <1>8, <1>9

(* A row that is deleted was received, or is too old.                      *)
LEMMA DeleteInv == ASSUME Inv, delete_history PROVE Inv'
  <1> USE SenderAssumption DEF SenderAssumption, sender, server, Inv
  <1> DEFINE gone == {r \in proxy_history : Outdated(r)}
  <1>1. /\ hk # None
        /\ proxy_history' = proxy_history \ gone /\ deleted' = deleted \cup gone /\ hk' = None
        /\ UNCHANGED <<now, rows, open, nextid, sender, server, failures>>
    BY DEF delete_history
  <1>2. ASSUME NEW r \in gone PROVE r \in Received \/ r.clock < now - OFFLINE_BUFFER
    <2>1. /\ r \in proxy_history /\ r.id \in Nat /\ r.clock \in Nat
          /\ hk.now \in Nat /\ hk.lastid \in Nat /\ now \in Nat /\ get_lastid \in Nat
          /\ hk.now <= now /\ hk.lastid <= get_lastid
      BY <1>1 DEF Types, Row, ReadBefore, get_lastid
    <2>2. r.clock < hk.now - OFFLINE_BUFFER \/ r.id < hk.lastid
      BY DEF Outdated
    <2>3. CASE r.clock < hk.now - OFFLINE_BUFFER
      BY <2>1, <2>3
    <2>4. CASE r.id < hk.lastid
      BY <2>1, <2>4 DEF SentReceived
    <2> QED BY <2>2, <2>3, <2>4
  <1>3. gone \subseteq proxy_history
    OBVIOUS
  <1> HIDE DEF gone
  <1>4. Types'
    BY <1>1, <1>3 DEF Types
  <1>5. (IsFiniteSet(proxy_history) /\ \A v \in Writers : IsFiniteSet(open[v]))'
    BY <1>1, FS_Subset
  <1>6. IdsGrow' /\ RequestComplete' /\ AnswerTrue' /\ ReadBefore'
    BY <1>1 DEF IdsGrow, RequestComplete, AnswerTrue, ReadBefore, Received, get_lastid
  <1>7. SentReceived'
    BY <1>1 DEF SentReceived, Received, get_lastid
  <1>8. UnsentKept'
    BY <1>1, <1>2 DEF UnsentKept, Received
  <1> QED BY <1>4, <1>5, <1>6, <1>7, <1>8

-----------------------------------------------------------------------------
LEMMA StepInv == ASSUME Inv, OneWriter, [Next]_vars PROVE Inv'
  <1>1. CASE Tick
    BY <1>1, ClockInv
  <1>2. ASSUME NEW w \in Writers, DCmass_proxy_add_history(w) \/ DBcommit(w) PROVE Inv'
    BY <1>2, InsertInv, CommitInv
  <1>3. CASE Send
    BY <1>3, WakeInv, SelectInv, AnsweredInv, StoredInv, ConnectInv DEF Send
  <1>4. CASE SendFail \/ RecvFail \/ Restart
    <2>1. /\ Disconnect /\ UNCHANGED <<now, rows, proxy_history, nextid, server, deleted>>
          /\ open' = open \/ open' = [w \in Writers |-> {}]
          /\ hk' = hk \/ hk' = None
      BY <1>4 DEF SendFail, RecvFail, Restart, cleaning
    <2> QED BY <2>1, ForgetInv
  <1>5. ASSUME NEW t \in Trappers, Trap(t) \/ TrapperExit(t) PROVE Inv'
    BY <1>5, ProcessInv, AnswerInv, ExitInv DEF Trap
  <1>6. CASE HousekeeperRead \/ delete_history
    BY <1>6, ReadInv, DeleteInv
  <1>7. CASE UNCHANGED vars
    BY <1>7 DEF vars, sender, server, cleaning, Inv, Types, IdsGrow, RequestComplete, AnswerTrue,
                ReadBefore, SentReceived, UnsentKept, Received, get_lastid
  <1> QED BY <1>1, <1>2, <1>3, <1>4, <1>5, <1>6, <1>7 DEF Next

(* The inductive invariant holds of every behaviour of the proxy with one  *)
(* db syncer.                                                              *)
THEOREM Invariance == ASSUME OneWriter PROVE Spec => []Inv
  <1>1. Init => Inv
    BY InitInv
  <1>2. Inv /\ [Next]_vars => Inv'
    BY OneWriter, StepInv
  <1> QED BY <1>1, <1>2, PTL DEF Spec

(* set_lastid never stores an id beyond a row that the server has not      *)
(* processed, so get_history_data never passes over a row.                 *)
THEOREM NeverPassedOver == ASSUME OneWriter PROVE Spec => []SentReceived
  <1>1. Inv => SentReceived
    BY DEF Inv
  <1> QED BY <1>1, Invariance, PTL

(* delete_history deletes a row that the server did not get only when it   *)
(* is older than ProxyOfflineBuffer.                                       *)
THEOREM KeptForOfflineBuffer == ASSUME OneWriter PROVE Spec => []UnsentKept
  <1>1. Inv => UnsentKept
    BY DEF Inv
  <1> QED BY <1>1, Invariance, PTL

-----------------------------------------------------------------------------
(* The order in which rows are first received.                             *)

Stored == proxy_history \cup deleted

(* An id has one row, and what is not committed comes after all the rest.  *)
RowsApart ==
    /\ \A a \in Stored : a.id <= rows
    /\ \A w \in Writers : \A a \in open[w] : a.id <= rows /\ \A b \in Stored : b.id < a.id
    /\ \A a, b \in Stored : a.id = b.id => a = b
    /\ \A w \in Writers : \A a, b \in open[w] : a.id = b.id => a = b

TakenFromStored ==
    /\ j \subseteq Stored /\ Received \subseteq Stored
    /\ \A t \in Trappers : todo[t] # None => todo[t] \subseteq Stored

(* A trapper has, or had, all rows before the ones it still has to process. *)
TodoComplete ==
    \A t \in Trappers : todo[t] # None =>
        \A q \in todo[t], r \in proxy_history : r.id <= q.id => r \in todo[t] \cup Received

(* The rows of an item come before the received ones only as received.     *)
ReceivedComplete ==
    \A q \in Received, r \in proxy_history : r.itemid = q.itemid /\ r.id < q.id => r \in Received

OrderInv == RowsApart /\ TakenFromStored /\ TodoComplete /\ ReceivedComplete /\ FirstReceiptsInOrder

LEMMA ReceivedSame == ASSUME received' = received PROVE Received' = Received
  BY DEF Received

(* Requests are only forgotten, transactions only rolled back.             *)
LEMMA SameRows ==
  ASSUME OrderInv, UNCHANGED <<rows, proxy_history, deleted, received>>, j' = j \/ j' = {},
         \A w \in Writers : open'[w] \subseteq open[w],
         \A t \in Trappers : todo'[t] = todo[t] \/ todo'[t] = None
  PROVE  OrderInv'
  <1> USE ReceivedSame DEF OrderInv
  <1>1. RowsApart'
    BY DEF RowsApart, Stored
  <1>2. TakenFromStored'
    BY DEF TakenFromStored, Stored
  <1>3. TodoComplete' /\ ReceivedComplete'
    BY DEF TodoComplete, ReceivedComplete
  <1>4. FirstReceiptsInOrder'
    BY DEF FirstReceiptsInOrder
  <1> QED BY <1>1, <1>2, <1>3, <1>4

LEMMA QuietOrders ==
  ASSUME Inv, OrderInv,
         \/ Tick \/ Wake \/ put_data_to_server \/ set_lastid \/ SendFail \/ RecvFail \/ Restart
         \/ HousekeeperRead \/ (\E t \in Trappers : send_result(t) \/ TrapperExit(t))
         \/ UNCHANGED vars
  PROVE  OrderInv'
  <1>1. DOMAIN todo = Trappers
    BY DEF Inv, Types
  <1>2. CASE Tick \/ Wake \/ put_data_to_server \/ HousekeeperRead \/ UNCHANGED vars
    BY <1>2, SameRows DEF Tick, Wake, put_data_to_server, HousekeeperRead, vars, sender, server, cleaning
  <1>3. CASE set_lastid \/ SendFail \/ RecvFail
    BY <1>3, SameRows DEF set_lastid, SendFail, RecvFail, Disconnect, server, cleaning
  <1>4. CASE Restart
    <2>1. \A w \in Writers : open'[w] = {}
      BY <1>4 DEF Restart
    <2> QED BY <1>4, <2>1, SameRows DEF Restart, Disconnect, server
  <1>5. ASSUME NEW t \in Trappers, send_result(t) \/ TrapperExit(t) PROVE OrderInv'
    <2>1. \A u \in Trappers : todo'[u] = todo[u] \/ todo'[u] = None
      BY <1>1, <1>5 DEF send_result, TrapperExit
    <2>2. UNCHANGED <<rows, open, proxy_history, deleted, received, j>>
      BY <1>5 DEF send_result, TrapperExit, cleaning
    <2> QED BY <2>1, <2>2, SameRows
  <1> QED BY <1>2, <1>3, <1>4, <1>5

LEMMA InsertOrders ==
  ASSUME Inv, OrderInv, NEW w \in Writers, DCmass_proxy_add_history(w)
  PROVE  OrderInv'
  <1> USE ReceivedSame DEF OrderInv, sender, server, cleaning
  <1>1. PICK row : row.id = rows + 1 /\ open' = [open EXCEPT ![w] = @ \cup {row}]
    BY DEF DCmass_proxy_add_history
  <1>2. rows' = rows + 1 /\ UNCHANGED <<proxy_history, deleted, received, j, todo>>
    BY DEF DCmass_proxy_add_history
  <1>3. /\ rows \in Nat /\ \A a \in Stored : a.id \in Nat
        /\ open \in [Writers -> SUBSET Row] /\ \A v \in Writers : \A a \in open[v] : a.id \in Nat
    BY DEF Inv, Types, Row, Stored
  <1>4. RowsApart'
    <2>1. \A a \in Stored : a.id <= rows'
      BY <1>2, <1>3 DEF RowsApart
    <2>2. ASSUME NEW v \in Writers, NEW a \in open'[v]
          PROVE  a.id <= rows' /\ \A b \in Stored : b.id < a.id
      <3>1. CASE a \in open[v]
        BY <1>2, <1>3, <3>1 DEF RowsApart
      <3>2. CASE a \notin open[v]
        <4>1. a = row
          BY <1>1, <1>3, <3>2
        <4>2. \A b \in Stored : b.id <= rows
          BY DEF RowsApart
        <4> QED BY <1>1, <1>2, <1>3, <4>1, <4>2
      <3> QED BY <3>1, <3>2
    <2>3. ASSUME NEW v \in Writers, NEW a \in open'[v], NEW b \in open'[v], a.id = b.id
          PROVE  a = b
      <3>1. \A c \in open'[v] : c \in open[v] \/ c = row
        BY <1>1, <1>3
      <3>2. \A c \in open[v] : c.id # row.id
        BY <1>1, <1>3 DEF RowsApart
      <3> QED BY <2>3, <3>1, <3>2 DEF RowsApart
    <2> QED BY <1>2, <2>1, <2>2, <2>3 DEF RowsApart, Stored
  <1>5. TakenFromStored' /\ TodoComplete' /\ ReceivedComplete'
    BY <1>2 DEF TakenFromStored, Stored, TodoComplete, ReceivedComplete
  <1>6. FirstReceiptsInOrder'
    BY <1>2 DEF FirstReceiptsInOrder
  <1> QED BY <1>4, <1>5, <1>6

LEMMA CommitOrders ==
  ASSUME Inv, OrderInv, OneWriter, NEW w \in Writers, DBcommit(w)
  PROVE  OrderInv'
  <1> USE ReceivedSame DEF OrderInv, sender, server, cleaning
  <1>1. /\ proxy_history' = proxy_history \cup open[w]
        /\ UNCHANGED <<rows, deleted, received, j, todo>>
    BY DEF DBcommit
  <1>2. \A v \in Writers : open'[v] = {}
    BY DEF DBcommit, Inv, Types, OneWriter
  <1>3. Stored' = Stored \cup open[w]
    BY <1>1 DEF Stored
  <1>4. /\ \A a \in Stored : a.id \in Nat
        /\ \A a \in open[w] : a.id \in Nat /\ \A b \in Stored : b.id < a.id
    BY DEF Inv, Types, Row, Stored, RowsApart
  <1>5. RowsApart'
    <2>1. \A a \in Stored' : a.id <= rows'
      BY <1>1, <1>3 DEF RowsApart
    <2>2. ASSUME NEW a \in Stored', NEW b \in Stored', a.id = b.id PROVE a = b
      <3>1. CASE a \in Stored /\ b \in Stored
        BY <2>2, <3>1 DEF RowsApart
      <3>2. CASE a \in open[w] /\ b \in open[w]
        BY <2>2, <3>2 DEF RowsApart
      <3>3. ~(a \in Stored /\ b \in open[w]) /\ ~(b \in Stored /\ a \in open[w])
        BY <1>4, <2>2
      <3> QED BY <1>3, <3>1, <3>2, <3>3
    <2> QED BY <1>2, <2>1, <2>2 DEF RowsApart
  <1>6. TakenFromStored'
    BY <1>1, <1>3 DEF TakenFromStored
  <1>7. TodoComplete'
    <2> SUFFICES ASSUME NEW t \in Trappers, todo[t] # None, NEW q \in todo[t],
                        NEW r \in proxy_history', r.id <= q.id
                 PROVE  r \in todo[t] \cup Received
      BY <1>1 DEF TodoComplete
    <2>1. q \in Stored
      BY DEF TakenFromStored
    <2>2. r \notin open[w]
      BY <1>4, <2>1
    <2> QED BY <1>1, <2>2 DEF TodoComplete
  <1>8. ReceivedComplete'
    <2> SUFFICES ASSUME NEW q \in Received, NEW r \in proxy_history', r.itemid = q.itemid, r.id < q.id
                 PROVE  r \in Received
      BY <1>1 DEF ReceivedComplete
    <2>1. q \in Stored
      BY DEF TakenFromStored
    <2>2. r \notin open[w]
      BY <1>4, <2>1
    <2> QED BY <1>1, <2>2 DEF ReceivedComplete
  <1>9. FirstReceiptsInOrder'
    BY <1>1 DEF FirstReceiptsInOrder
  <1> QED BY <1>5, <1>6, <1>7, <1>8, <1>9

LEMMA SelectOrders == ASSUME Inv, OrderInv, get_history_data PROVE OrderInv'
  <1> USE ReceivedSame DEF OrderInv, server, cleaning
  <1>1. PICK T : T = FirstOf(Unsent) /\ j' = T
    BY DEF get_history_data
  <1>2. UNCHANGED <<rows, open, proxy_history, deleted, received, todo>>
    BY DEF get_history_data
  <1>3. j' \subseteq proxy_history
    <2>1. Unsent \subseteq proxy_history /\ proxy_history \in SUBSET Row /\ IsFiniteSet(proxy_history)
      BY DEF Unsent, Inv, Types
    <2>2. Unsent \in SUBSET Row /\ IsFiniteSet(Unsent)
      BY <2>1, FS_Subset
    <2> QED BY <1>1, <2>1, <2>2, FirstOfRows
  <1>4. RowsApart' /\ TodoComplete' /\ ReceivedComplete'
    BY <1>2 DEF RowsApart, Stored, TodoComplete, ReceivedComplete
  <1>5. TakenFromStored'
    BY <1>2, <1>3 DEF TakenFromStored, Stored
  <1>6. FirstReceiptsInOrder'
    BY <1>2 DEF FirstReceiptsInOrder
  <1> QED BY <1>4, <1>5, <1>6

LEMMA ConnectOrders == ASSUME Inv, OrderInv, NEW t \in Trappers, Connect(t) PROVE OrderInv'
  <1> USE ReceivedSame DEF OrderInv, cleaning
  <1>1. /\ todo'[t] = j /\ \A u \in Trappers : u # t => todo'[u] = todo[u]
        /\ UNCHANGED <<rows, open, proxy_history, nextid, deleted, received, j>>
        /\ pc = "connect"
    BY DEF Connect, Inv, Types
  <1>2. RowsApart' /\ ReceivedComplete'
    BY <1>1 DEF RowsApart, Stored, ReceivedComplete
  <1>3. TakenFromStored'
    BY <1>1 DEF TakenFromStored, Stored
  <1>4. TodoComplete'
    <2>1. ASSUME NEW q \in j, NEW r \in proxy_history, r.id <= q.id
          PROVE  r \in j \cup Received
      <3>1. r.id <= get_lastid \/ r \in j
        BY <1>1, <2>1 DEF Inv, RequestComplete
      <3>2. r.id <= get_lastid => r \in Received
        BY DEF Inv, SentReceived
      <3> QED BY <3>1, <3>2
    <2>2. ASSUME NEW u \in Trappers, todo'[u] # None, NEW q \in todo'[u],
                 NEW r \in proxy_history, r.id <= q.id
          PROVE  r \in todo'[u] \cup Received
      <3>1. CASE u = t
        BY <1>1, <2>1, <2>2, <3>1
      <3>2. CASE u # t
        BY <1>1, <2>2, <3>2 DEF TodoComplete
      <3> QED BY <3>1, <3>2
    <2> QED BY <1>1, <2>2 DEF TodoComplete
  <1>5. FirstReceiptsInOrder'
    BY <1>1 DEF FirstReceiptsInOrder
  <1> QED BY <1>2, <1>3, <1>4, <1>5

LEMMA ProcessOrders == ASSUME Inv, OrderInv, NEW t \in Trappers, process_mass_data(t) PROVE OrderInv'
  <1> USE DEF OrderInv, cleaning, sender
  <1>1. PICK r \in NextValues(todo[t]) :
            /\ todo' = [todo EXCEPT ![t] = @ \ {r}]
            /\ received' = IF r \in Received THEN received ELSE Append(received, r)
    BY DEF process_mass_data
  <1>2. /\ todo[t] # None /\ todo[t] \in SUBSET Row /\ received \in Seq(Row)
        /\ UNCHANGED <<rows, open, proxy_history, deleted, j>>
    BY DEF process_mass_data, Inv, Types
  <1>3. r \in todo[t] /\ \A q \in todo[t] : q.itemid = r.itemid => q.id >= r.id
    BY <1>1 DEF NextValues
  <1>4. /\ todo'[t] = todo[t] \ {r} /\ \A u \in Trappers : u # t => todo'[u] = todo[u]
    BY <1>1 DEF Inv, Types
  <1>5. Received' = Received \cup {r}
    BY <1>1, <1>2, <1>3, ReceivedMore, ReceivedSame
  <1>6. r \in Stored /\ r.id \in Nat /\ \A q \in Stored : q.id \in Nat
    BY <1>2, <1>3 DEF TakenFromStored, Stored, Inv, Types, Row
  <1>7. RowsApart'
    BY <1>2 DEF RowsApart, Stored
  <1>8. TakenFromStored'
    BY <1>2, <1>4, <1>5, <1>6 DEF TakenFromStored, Stored
  <1>9. TodoComplete'
    <2> SUFFICES ASSUME NEW u \in Trappers, todo'[u] # None, NEW q \in todo'[u],
                        NEW p \in proxy_history, p.id <= q.id
                 PROVE  p \in todo'[u] \cup Received'
      BY <1>2 DEF TodoComplete
    <2>1. CASE u = t
      <3>1. q \in todo[t]
        BY <1>4, <2>1
      <3>2. p \in todo[t] \cup Received
        BY <1>2, <3>1 DEF TodoComplete
      <3> QED BY <1>4, <1>5, <2>1, <3>2
    <2>2. CASE u # t
      BY <1>4, <1>5, <2>2 DEF TodoComplete
    <2> QED BY <2>1, <2>2
  <1>10. ReceivedComplete'
    <2> SUFFICES ASSUME NEW q \in Received', NEW p \in proxy_history, p.itemid = q.itemid, p.id < q.id
                 PROVE  p \in Received'
      BY <1>2 DEF ReceivedComplete
    <2>1. CASE q \in Received
      BY <1>5, <2>1 DEF ReceivedComplete
    <2>2. CASE q = r
      <3>1. p.id \in Nat
        BY <1>6 DEF Stored
      <3>2. p \in todo[t] \cup Received
        BY <1>2, <1>3, <1>6, <2>2, <3>1 DEF TodoComplete
      <3>3. p \notin todo[t]
        BY <1>3, <1>6, <2>2, <3>1
      <3> QED BY <1>5, <3>2, <3>3
    <2> QED BY <1>5, <2>1, <2>2
  <1>11. FirstReceiptsInOrder'
    <2>1. CASE r \in Received
      BY <1>1, <1>2, <2>1 DEF FirstReceiptsInOrder
    <2>2. CASE r \notin Received
      <3>1. ASSUME NEW q \in Received, q.itemid = r.itemid PROVE q.id < r.id \/ r \in deleted
        <4>1. q \in Stored /\ q # r
          BY <2>2 DEF TakenFromStored
        <4>2. q.id # r.id
          BY <1>6, <4>1 DEF RowsApart
        <4>3. r \in proxy_history => ~(r.id < q.id)
          BY <2>2, <3>1 DEF ReceivedComplete
        <4> QED BY <1>6, <4>1, <4>2, <4>3 DEF Stored
      <3>2. received' = Append(received, r)
        BY <1>1, <2>2
      <3>3. /\ Len(received') = Len(received) + 1 /\ Len(received) \in Nat
            /\ received'[Len(received) + 1] = r
            /\ \A a \in 1 .. Len(received) : received'[a] = received[a] /\ received[a] \in Received
        BY <1>2, <1>3, <3>2 DEF Received
      <3> SUFFICES ASSUME NEW a \in 1 .. Len(received'), NEW b \in 1 .. Len(received'), a < b,
                          received'[a].itemid = received'[b].itemid
                   PROVE  received'[a].id < received'[b].id \/ received'[b] \in deleted
        BY <1>2 DEF FirstReceiptsInOrder
      <3>4. a \in 1 .. Len(received) /\ (b \in 1 .. Len(received) \/ b = Len(received) + 1)
        BY <3>3
      <3>5. CASE b \in 1 .. Len(received)
        BY <3>3, <3>4, <3>5 DEF FirstReceiptsInOrder
      <3>6. CASE b = Len(received) + 1
        BY <3>1, <3>3, <3>4, <3>6
      <3> QED BY <3>4, <3>5, <3>6
    <2> QED BY <2>1, <2>2
  <1> QED BY <1>7, <1>8, <1>9, <1>10, <1>11

LEMMA DeleteOrders == ASSUME Inv, OrderInv, delete_history PROVE OrderInv'
  <1> USE ReceivedSame DEF OrderInv, sender, server
  <1>1. PICK gone \in SUBSET proxy_history :
           proxy_history' = proxy_history \ gone /\ deleted' = deleted \cup gone
    BY DEF delete_history
  <1>2. UNCHANGED <<rows, open, received, j, todo>>
    BY DEF delete_history
  <1>3. Stored' = Stored
    BY <1>1 DEF Stored
  <1>4. RowsApart' /\ TakenFromStored'
    BY <1>2, <1>3 DEF RowsApart, TakenFromStored
  <1>5. TodoComplete' /\ ReceivedComplete'
    BY <1>1, <1>2 DEF TodoComplete, ReceivedComplete
  <1>6. FirstReceiptsInOrder'
    BY <1>1, <1>2 DEF FirstReceiptsInOrder
  <1> QED BY <1>4, <1>5, <1>6

LEMMA StepOrders == ASSUME Inv, OrderInv, OneWriter, [Next]_vars PROVE OrderInv'
  <1>1. ASSUME NEW w \in Writers, DCmass_proxy_add_history(w) \/ DBcommit(w) PROVE OrderInv'
    BY <1>1, InsertOrders, CommitOrders
  <1>2. ASSUME NEW t \in Trappers, Connect(t) \/ Trap(t) \/ TrapperExit(t) PROVE OrderInv'
    BY <1>2, ConnectOrders, ProcessOrders, QuietOrders DEF Trap
  <1>3. CASE get_history_data \/ delete_history
    BY <1>3, SelectOrders, DeleteOrders
  <1>4. CASE Tick \/ Wake \/ put_data_to_server \/ set_lastid \/ SendFail \/ RecvFail \/ Restart
                \/ HousekeeperRead \/ UNCHANGED vars
    BY <1>4, QuietOrders
  <1> QED BY <1>1, <1>2, <1>3, <1>4 DEF Next, Send

(* trapper.c, process_new_values, with datasender.c, get_history_data:     *)
(* whatever is lost, repeated or late, the server first receives the rows  *)
(* of an item in their order, but for those given up as too old.           *)
THEOREM OrderKept == ASSUME OneWriter PROVE Spec => []FirstReceiptsInOrder
  <1>1. Init => OrderInv
    BY DEF Init, OrderInv, RowsApart, TakenFromStored, TodoComplete, ReceivedComplete,
           FirstReceiptsInOrder, Stored, Received
  <1>2. Inv /\ OrderInv /\ [Next]_vars => OrderInv'
    BY OneWriter, StepOrders
  <1>3. OrderInv => FirstReceiptsInOrder
    BY DEF OrderInv
  <1> QED BY <1>1, <1>2, <1>3, Invariance, PTL DEF Spec

(***************************************************************************)
(* Types.                                                                  *)
(***************************************************************************)
HistoryRow == [id : Nat, value : Nat]
Watch == [step : {"select", "recv", "OK"}, lastid : Nat]
Request == [step : {"insert", "commit", "answer"}, alive : BOOLEAN, rows : SUBSET HistoryRow, no : Nat]

Has(n) == BagToSet(hist[n])

Slaves == Nodes \ {1}

(* The first node has no master, the last no slave.                        *)
HistoryTypeOK ==
    /\ table \in {ZBX_HISTORY, ZBX_HISTORY_SYNC}
    /\ values \in Nat /\ stops \in Nat
    /\ inserted \in [HistoryWriters -> Nat \cup {Nobody}]
    /\ DOMAIN hist = Nodes
    /\ \A n \in Nodes : hist[n] \in [Has(n) -> Nat \ {0}] /\ Has(n) \subseteq 1 .. values
    /\ sync \in [Nodes -> SUBSET HistoryRow]
    /\ ids \in [Nodes -> Nat]
    /\ watcher \in [Nodes -> Watch \cup {Nobody}] /\ watcher[1] = Nobody
    /\ trapper \in [Nodes -> SUBSET Request] /\ trapper[N] = {}

TablesFinite ==
    /\ \A n \in Nodes : IsFiniteSet(sync[n])
    /\ \A n \in Nodes : \A t \in trapper[n] : IsFiniteSet(t.rows)

(* Ids that are given out and not yet seen.                                *)
InsertedNew ==
    /\ \A w \in HistoryWriters :
          inserted[w] # Nobody => inserted[w] \in 1 .. values /\ inserted[w] \notin Has(N)
    /\ \A w, x \in HistoryWriters : inserted[w] = inserted[x] /\ inserted[w] # Nobody => w = x
    /\ table = ZBX_HISTORY_SYNC => ids[N] = values

(* What a master has or is being sent the slave n has.                     *)
Nested(n) ==
    /\ Has(n - 1) \subseteq Has(n)
    /\ \A t \in trapper[n - 1] : Values(t.rows) \subseteq Has(n)

(* One trapper at most has a connection on which the node watcher waits.   *)
OneConnection(n) ==
    /\ \A t \in trapper[n - 1] : t.alive => watcher[n] # Nobody /\ watcher[n].step = "recv"
    /\ \A t, u \in trapper[n - 1] : t.alive /\ u.alive => t = u

-----------------------------------------------------------------------------
(* ZBX_HISTORY.                                                            *)

(* What a master does not have is above all that it has.                   *)
MissingAbove(n) == \A v \in Has(n) \ late : v \in Has(n - 1) \/ \A u \in Has(n - 1) : u < v

(* A request holds a row and all before it that the master does not have.  *)
RequestsWhole(n) ==
    \A t \in trapper[n - 1] : \A row \in t.rows :
       /\ row.id = row.value
       /\ \A v \in Has(n) \ late : v < row.value => v \in Values(t.rows) \cup Has(n - 1)

(* The last id that a node watcher was told is one of its master.          *)
LastIdTrue(n) ==
    watcher[n] # Nobody /\ watcher[n].step = "select" =>
       /\ watcher[n].lastid \in Has(n - 1) \cup {0}
       /\ \A v \in Has(n) \ late : v <= watcher[n].lastid => v \in Has(n - 1)

(* The ids are a primary key.                                              *)
PrimaryKey(n) ==
    /\ \A v \in Has(n) : hist[n][v] = 1
    /\ \A t \in trapper[n] : t.step = "commit" => Values(t.rows) \cap Has(n) = {}
    /\ \A t, u \in trapper[n] : t.step = "commit" /\ u.step = "commit" /\ t # u => t.rows \cap u.rows = {}

-----------------------------------------------------------------------------
(* ZBX_HISTORY_SYNC.                                                       *)

(* What a master does not have is in the table of its slave.               *)
MissingInTable(n) == \A v \in Has(n) \ late : v \in Values(sync[n]) \cup Has(n - 1)

(* The rows that the delete takes are those of the request.                *)
DeletesSent(n) ==
    /\ watcher[n] # Nobody => watcher[n].step # "select"
    /\ watcher[n] # Nobody /\ watcher[n].step = "OK" =>
          \A row \in sync[n] : row.id <= watcher[n].lastid => row.value \in Has(n - 1) \cup late
    /\ \A t \in trapper[n - 1] :
          /\ t.alive => \A row \in sync[n] : row.id <= watcher[n].lastid => row.value \in Values(t.rows) \cup late
          /\ t.step = "answer" => Values(t.rows) \subseteq Has(n - 1)

(* An id that an open transaction has given out is apart from those that   *)
(* others see.                                                             *)
Apart(n, i) ==
    /\ i \in 1 .. ids[n]
    /\ \A row \in sync[n] : row.id # i
    /\ watcher[n] # Nobody => watcher[n].lastid # i

IdsApart(n) ==
    /\ n = N => \A w \in HistoryWriters : inserted[w] # Nobody => Apart(N, inserted[w])
    /\ \A row \in sync[n] : row.id \in 1 .. ids[n] /\ row.value \in Has(n)
    /\ watcher[n] # Nobody => watcher[n].lastid <= ids[n]
    /\ \A t \in trapper[n] : t.step = "commit" => \A row \in t.rows : Apart(n, row.id)
    /\ \A t, u \in trapper[n] : t.step = "commit" /\ u.step = "commit" /\ t # u =>
          \A row \in t.rows, r \in u.rows : row.id # r.id

(* Until something is stopped nothing is there twice, and nothing is sent  *)
(* twice.                                                                  *)
ThereOnce(n) == stops = 0 => \A v \in Has(n) : hist[n][v] = 1

DistinctValues(S) == \A row, r \in S : row.value = r.value => row = r

SentOnce(n) ==
    stops = 0 =>
       /\ DistinctValues(sync[n])
       /\ \A t \in trapper[n - 1] :
             /\ t.alive
             /\ DistinctValues(t.rows)
             /\ t.step # "answer" => Values(t.rows) \cap Has(n - 1) = {}
             /\ t.step # "answer" => \A row \in sync[n] :
                   row.value \in Values(t.rows) => row.id <= watcher[n].lastid
       /\ \A row \in sync[n] : row.value \in Has(n - 1) =>
             /\ watcher[n] # Nobody /\ row.id <= watcher[n].lastid
             /\ watcher[n].step = "OK" \/ \E t \in trapper[n - 1] : t.step = "answer"

-----------------------------------------------------------------------------
(* A node, and a link between a slave n and its master.                    *)
AtNode(n) ==
    /\ table = ZBX_HISTORY => PrimaryKey(n)
    /\ table = ZBX_HISTORY_SYNC => ThereOnce(n) /\ (n > 1 => IdsApart(n))

Link(n) ==
    /\ Nested(n) /\ OneConnection(n)
    /\ table = ZBX_HISTORY => MissingAbove(n) /\ RequestsWhole(n) /\ LastIdTrue(n)
    /\ table = ZBX_HISTORY_SYNC => MissingInTable(n) /\ DeletesSent(n) /\ SentOnce(n)

HistoryInv ==
    /\ HistoryTypeOK /\ TablesFinite /\ InsertedNew
    /\ \A n \in Nodes : AtNode(n)
    /\ \A n \in Slaves : Link(n)

-----------------------------------------------------------------------------
(* Lemmas about the operators.                                             *)

LEMMA GreatestNumber ==
  ASSUME NEW S \in SUBSET Nat, S # {}, NEW b \in Nat, \A i \in S : i <= b
  PROVE  Max(S) \in S /\ \A i \in S : i <= Max(S)
  <1> DEFINE Gaps == {b - i : i \in S}
  <1>1. Gaps \subseteq Nat /\ Gaps # {}
    <2>1. \A i \in S : b - i \in Nat
      OBVIOUS
    <2>2. PICK i \in S : TRUE
      OBVIOUS
    <2> QED BY <2>1, <2>2
  <1>2. \E m \in Gaps : \A i \in Gaps : m <= i
    <2> HIDE DEF Gaps
    <2> QED BY <1>1, LeastNumber
  <1>3. PICK q \in S : \A i \in S : b - q <= b - i
    BY <1>2
  <1>4. \A i \in S : q >= i
    BY <1>3
  <1> QED BY <1>4 DEF Max

(* The last id of a master is one of its values, or 0.                     *)
LEMMA LastIdGreatest ==
  ASSUME HistoryTypeOK, NEW n \in Nodes
  PROVE  /\ LastIdAt(n) \in Nat /\ LastIdAt(n) \in Has(n) \cup {0}
         /\ \A v \in Has(n) : v \in Nat \ {0} /\ v <= LastIdAt(n)
  <1>1. Has(n) \subseteq 1 .. values /\ values \in Nat
    BY DEF HistoryTypeOK
  <1>2. {0} \cup Has(n) \in SUBSET Nat /\ \A i \in {0} \cup Has(n) : i <= values
    BY <1>1
  <1>3. /\ Max({0} \cup Has(n)) \in {0} \cup Has(n)
        /\ \A i \in {0} \cup Has(n) : i <= Max({0} \cup Has(n))
    BY <1>1, <1>2, GreatestNumber
  <1> QED BY <1>1, <1>3 DEF LastIdAt, Has

(* The first rows of a finite set: all up to each.                         *)
LEMMA FirstRowsWhole ==
  ASSUME NEW S \in SUBSET HistoryRow, IsFiniteSet(S)
  PROVE  /\ FirstRows(S) \subseteq S /\ IsFiniteSet(FirstRows(S))
         /\ \A q \in FirstRows(S), r \in S : r.id <= q.id => r \in FirstRows(S)
  <1> DEFINE Before(r) == {q \in S : q.id < r.id}
  <1>1. FirstRows(S) = {r \in S : Cardinality(Before(r)) < MaxSelected}
    BY DEF FirstRows
  <1>2. \A r \in S : IsFiniteSet(Before(r)) /\ Cardinality(Before(r)) \in Nat
    BY FS_Subset, FS_CardinalityType
  <1>3. MaxSelected \in Nat \ {0}
    BY NodeHistoryAssumption DEF NodeHistoryAssumption
  <1>4. ASSUME NEW q \in FirstRows(S), NEW r \in S, r.id <= q.id PROVE r \in FirstRows(S)
    <2>1. q \in S /\ Cardinality(Before(q)) < MaxSelected
      BY <1>1
    <2>2. Before(r) \subseteq Before(q)
      BY <1>4, <2>1 DEF HistoryRow
    <2>3. Cardinality(Before(r)) <= Cardinality(Before(q))
      BY <1>2, <2>1, <2>2, FS_Subset
    <2> HIDE DEF Before
    <2>4. Cardinality(Before(r)) < MaxSelected
      BY <1>2, <1>3, <2>1, <2>3
    <2> QED BY <1>1, <2>4
  <1>5. FirstRows(S) \subseteq S
    BY <1>1
  <1> QED BY <1>4, <1>5, FS_Subset

(* The last id of a request.                                               *)
LEMMA LastRowId ==
  ASSUME NEW S \in SUBSET HistoryRow, S # {}, NEW b \in Nat, \A r \in S : r.id <= b
  PROVE  LET m == Max({row.id : row \in S})
         IN  m \in Nat /\ m <= b /\ (\E r \in S : m = r.id) /\ \A r \in S : r.id <= m
  <1> DEFINE I == {row.id : row \in S}
  <1>1. I \in SUBSET Nat /\ I # {} /\ \A i \in I : i <= b
    BY DEF HistoryRow
  <1>2. Max(I) \in I /\ \A i \in I : i <= Max(I)
    <2> HIDE DEF I
    <2> QED BY <1>1, GreatestNumber
  <1> QED BY <1>1, <1>2

(* Nobody is no record and no number.                                      *)
LEMMA NobodyApart ==
  /\ Nobody \notin Nat /\ Nobody \notin Watch
  /\ N \in Nat \ {0} /\ N \in Nodes /\ 1 \in Nodes
  /\ \A n \in Nodes : n \in Nat \ {0} /\ (n # N => n + 1 \in Nodes) /\ (n # 1 => n - 1 \in Nodes)
  BY NodeHistoryAssumption DEF NodeHistoryAssumption, Watch, Nodes

LEMMA SlaveMaster ==
  \A n \in Slaves : /\ n \in Nodes /\ n - 1 \in Nodes /\ n > 1 /\ n - 1 # N /\ n - 1 # n
                   /\ \A m \in Slaves : m - 1 = n - 1 => m = n
  BY NodeHistoryAssumption DEF NodeHistoryAssumption, Nodes, Slaves

(* The kinds of tables, and what they are named.                           *)
LEMMA TwoTables == ZBX_HISTORY # ZBX_HISTORY_SYNC
  BY DEF ZBX_HISTORY, ZBX_HISTORY_SYNC

(* The ids of a master's own rows are new.                                 *)
LEMMA RenumberedNew ==
  ASSUME HistoryTypeOK, NEW n \in Nodes, NEW S \in SUBSET HistoryRow, IsFiniteSet(S)
  PROVE  /\ Renumbered(n, S) \in SUBSET HistoryRow /\ IsFiniteSet(Renumbered(n, S))
         /\ Values(Renumbered(n, S)) = Values(S)
         /\ \A row \in Renumbered(n, S) : row.id \in (ids[n] + 1) .. (ids[n] + Cardinality(S))
         /\ DistinctValues(S) => DistinctValues(Renumbered(n, S))
  <1> DEFINE Upto(row) == {r \in S : r.id <= row.id}
             New(row) == [id |-> ids[n] + Cardinality(Upto(row)), value |-> row.value]
             f == [row \in S |-> New(row)]
  <1>1. ids[n] \in Nat /\ Cardinality(S) \in Nat
    BY FS_CardinalityType DEF HistoryTypeOK
  <1>2. ASSUME NEW row \in S PROVE Cardinality(Upto(row)) \in 1 .. Cardinality(S)
    <2>1. Upto(row) \subseteq S /\ row \in Upto(row)
      BY DEF HistoryRow
    <2>2. IsFiniteSet(Upto(row)) /\ Cardinality(Upto(row)) <= Cardinality(S)
      BY <2>1, FS_Subset
    <2>3. Cardinality(Upto(row)) \in Nat /\ Cardinality(Upto(row)) # 0
      BY <2>1, <2>2, FS_EmptySet, FS_CardinalityType
    <2> QED BY <1>1, <2>2, <2>3
  <1>3. Renumbered(n, S) = {New(row) : row \in S}
    BY DEF Renumbered
  <1>4. \A row \in S : New(row).id \in (ids[n] + 1) .. (ids[n] + Cardinality(S)) /\ New(row).value = row.value
    <2> HIDE DEF Upto
    <2> QED BY <1>1, <1>2
  <1>5. \A row \in S : New(row) \in HistoryRow
    <2> HIDE DEF Upto
    <2> QED BY <1>1, <1>2 DEF HistoryRow
  <1>6. IsFiniteSet(Renumbered(n, S))
    <2>1. f \in Surjection(S, Renumbered(n, S))
      <3> HIDE DEF New
      <3> QED BY <1>3 DEF Surjection
    <2> QED BY <2>1, FS_Surjection
  <1> HIDE DEF New
  <1>7. Values(Renumbered(n, S)) = Values(S)
    <2>1. Values(Renumbered(n, S)) = {New(row).value : row \in S}
      BY <1>3 DEF Values
    <2>2. {New(row).value : row \in S} = {row.value : row \in S}
      BY <1>4
    <2> QED BY <2>1, <2>2 DEF Values
  <1>8. DistinctValues(S) => DistinctValues(Renumbered(n, S))
    BY <1>3, <1>4 DEF DistinctValues
  <1> QED BY <1>3, <1>4, <1>5, <1>6, <1>7, <1>8

(* What the rows that become visible change.                               *)
LEMMA VisibleChange ==
  ASSUME HistoryTypeOK, NEW n \in Nodes, NEW data, MadeVisible(n, data)
  PROVE  /\ DOMAIN hist' = Nodes
         /\ \A m \in Nodes : hist'[m] \in [Has(m)' -> Nat \ {0}]
         /\ Has(n)' = Has(n) \cup Values(data)
         /\ \A m \in Nodes : m # n => hist'[m] = hist[m] /\ Has(m)' = Has(m) /\ sync'[m] = sync[m]
         /\ \A v \in Has(n) \ Values(data) : hist'[n][v] = hist[n][v]
         /\ \A v \in Values(data) \ Has(n) : hist'[n][v] = 1
         /\ DOMAIN sync' = Nodes
         /\ sync'[n] = IF table = ZBX_HISTORY_SYNC /\ n > 1 THEN sync[n] \cup data ELSE sync[n]
         /\ late \subseteq late'
         /\ \A row \in data : PassedOver(n, row.id) => row.value \in late'
  <1>1. /\ DOMAIN hist = Nodes /\ DOMAIN sync = Nodes
        /\ \A m \in Nodes : hist[m] \in [Has(m) -> Nat \ {0}]
    BY DEF HistoryTypeOK
  <1>2. /\ hist' = [hist EXCEPT ![n] = @ (+) SetToBag(Values(data))]
        /\ sync' = [sync EXCEPT ![n] = IF table = ZBX_HISTORY_SYNC /\ n > 1 THEN @ \cup data ELSE @]
        /\ late' = late \cup Values({row \in data : PassedOver(n, row.id)})
    BY DEF MadeVisible
  <1>3. PICK C : C = hist[n] (+) SetToBag(Values(data))
    OBVIOUS
  <1>4. /\ C \in [Has(n) \cup Values(data) -> Nat \ {0}] /\ BagToSet(C) = Has(n) \cup Values(data)
        /\ \A v \in Has(n) \ Values(data) : C[v] = hist[n][v]
        /\ \A v \in Values(data) \ Has(n) : C[v] = 1
    <2> DEFINE D == Has(n)
               B == hist[n]
               V == Values(data)
    <2>1. /\ D = DOMAIN B /\ B \in [D -> Nat \ {0}]
          /\ C = [v \in D \cup V |-> (IF v \in D THEN B[v] ELSE 0) + (IF v \in V THEN 1 ELSE 0)]
      BY <1>1, <1>3 DEF (+), SetToBag, Has, BagToSet
    <2> HIDE DEF B, D, V
    <2>2. \A v \in D \cup V : C[v] \in Nat \ {0}
      BY <2>1
    <2>3. C \in [D \cup V -> Nat \ {0}] /\ BagToSet(C) = D \cup V
      BY <2>1, <2>2 DEF BagToSet
    <2>4. ASSUME NEW v \in D \ V PROVE C[v] = B[v]
      <3>1. B[v] \in Nat /\ C[v] = B[v] + 0
        BY <2>1
      <3> QED BY <3>1
    <2>5. \A v \in V \ D : C[v] = 1
      BY <2>1
    <2> QED BY <2>3, <2>4, <2>5 DEF B, D, V
  <1>5. DOMAIN hist' = Nodes /\ hist'[n] = C /\ \A m \in Nodes : m # n => hist'[m] = hist[m]
    BY <1>1, <1>2, <1>3
  <1>6. Has(n)' = Has(n) \cup Values(data) /\ \A m \in Nodes : m # n => Has(m)' = Has(m)
    BY <1>4, <1>5 DEF Has
  <1>7. \A row \in data : PassedOver(n, row.id) => row.value \in late'
    BY <1>2 DEF Values
  <1>8. late \subseteq late'
    BY <1>2
  <1>9. /\ DOMAIN sync' = Nodes /\ \A m \in Nodes : m # n => sync'[m] = sync[m]
        /\ sync'[n] = IF table = ZBX_HISTORY_SYNC /\ n > 1 THEN sync[n] \cup data ELSE sync[n]
    BY <1>1, <1>2
  <1> QED BY <1>1, <1>4, <1>5, <1>6, <1>7, <1>8, <1>9

-----------------------------------------------------------------------------
LEMMA HistoryInitInv == HistoryInit => HistoryInv
  <1> SUFFICES ASSUME HistoryInit PROVE HistoryInv
    OBVIOUS
  <1> USE NobodyApart DEF HistoryInit
  <1>1. \A n \in Nodes : /\ hist[n] = EmptyBag /\ Has(n) = {} /\ sync[n] = {} /\ ids[n] = 0
                         /\ watcher[n] = Nobody /\ trapper[n] = {}
    BY DEF Has, EmptyBag, SetToBag, BagToSet
  <1>2. HistoryTypeOK
    <2>1. \A n \in Nodes : hist[n] \in [Has(n) -> Nat \ {0}] /\ Has(n) \subseteq 1 .. values
      BY <1>1 DEF EmptyBag, SetToBag
    <2> QED BY <1>1, <2>1 DEF HistoryTypeOK
  <1>3. TablesFinite
    BY <1>1, FS_EmptySet DEF TablesFinite
  <1>4. InsertedNew
    BY <1>1 DEF InsertedNew
  <1>5. ASSUME NEW n \in Nodes PROVE AtNode(n)
    BY <1>1 DEF AtNode, PrimaryKey, ThereOnce, IdsApart
  <1>6. ASSUME NEW n \in Slaves PROVE Link(n)
    <2>1. n \in Nodes /\ n - 1 \in Nodes
      BY DEF Slaves
    <2> QED BY <1>1, <2>1 DEF Link, Nested, OneConnection, MissingAbove, RequestsWhole, LastIdTrue,
                              MissingInTable, DeletesSent, SentOnce, DistinctValues
  <1> QED BY <1>2, <1>3, <1>4, <1>5, <1>6 DEF HistoryInv

(***************************************************************************)
(* What a step leaves alone.                                               *)
(***************************************************************************)
LEMMA SameLink ==
  ASSUME NEW n \in Slaves, Link(n), table' = table, late \subseteq late', stops' = stops,
         hist'[n] = hist[n], hist'[n - 1] = hist[n - 1], sync'[n] = sync[n],
         watcher'[n] = watcher[n], trapper'[n - 1] = trapper[n - 1]
  PROVE  Link(n)'
  <1>1. Has(n)' = Has(n) /\ Has(n - 1)' = Has(n - 1)
    BY DEF Has
  <1>2. (Nested(n) /\ OneConnection(n))'
    BY <1>1 DEF Link, Nested, OneConnection
  <1>3. table' = ZBX_HISTORY => (MissingAbove(n) /\ RequestsWhole(n) /\ LastIdTrue(n))'
    BY <1>1 DEF Link, MissingAbove, RequestsWhole, LastIdTrue
  <1>4. table' = ZBX_HISTORY_SYNC => (MissingInTable(n) /\ DeletesSent(n) /\ SentOnce(n))'
    BY <1>1 DEF Link, MissingInTable, DeletesSent, SentOnce
  <1> QED BY <1>2, <1>3, <1>4 DEF Link

LEMMA IdsApartKept ==
  ASSUME NEW n \in Nodes, IdsApart(n), n = N => inserted' = inserted, ids'[n] = ids[n], Has(n)' = Has(n),
         sync'[n] \subseteq sync[n], trapper'[n] \subseteq trapper[n],
         watcher'[n] # Nobody => watcher[n] # Nobody /\ watcher'[n].lastid = watcher[n].lastid,
         \A i : Apart(n, i) => Apart(n, i)'
  PROVE  IdsApart(n)'
  <1>1. (n = N => \A w \in HistoryWriters : inserted[w] # Nobody => Apart(N, inserted[w]))'
    <2> SUFFICES ASSUME n = N, NEW w \in HistoryWriters, inserted'[w] # Nobody PROVE Apart(N, inserted[w])'
      OBVIOUS
    <2>1. PICK i : i = inserted[w] /\ i = inserted'[w] /\ Apart(N, i)
      BY DEF IdsApart
    <2>2. Apart(N, i)'
      BY <2>1
    <2> QED BY <2>1, <2>2 DEF Apart
  <1>2. (\A row \in sync[n] : row.id \in 1 .. ids[n] /\ row.value \in Has(n))'
    BY DEF IdsApart
  <1>3. (watcher[n] # Nobody => watcher[n].lastid <= ids[n])'
    BY DEF IdsApart
  <1>4. (\A t \in trapper[n] : t.step = "commit" => \A row \in t.rows : Apart(n, row.id))'
    BY DEF IdsApart
  <1>5. (\A t, u \in trapper[n] : t.step = "commit" /\ u.step = "commit" /\ t # u =>
           \A row \in t.rows, r \in u.rows : row.id # r.id)'
    BY DEF IdsApart
  <1> QED BY <1>1, <1>2, <1>3, <1>4, <1>5 DEF IdsApart

LEMMA SameNode ==
  ASSUME NEW n \in Nodes, AtNode(n), table' = table, stops' = stops, n = N => inserted' = inserted,
         hist'[n] = hist[n], sync'[n] = sync[n], ids'[n] = ids[n],
         watcher'[n] = watcher[n], trapper'[n] = trapper[n]
  PROVE  AtNode(n)'
  <1>1. Has(n)' = Has(n)
    BY DEF Has
  <1>2. ASSUME NEW i, Apart(n, i) PROVE Apart(n, i)'
    BY <1>2 DEF Apart
  <1>3. table' = ZBX_HISTORY => PrimaryKey(n)'
    BY <1>1 DEF AtNode, PrimaryKey
  <1>4. table' = ZBX_HISTORY_SYNC => ThereOnce(n)'
    BY <1>1 DEF AtNode, ThereOnce
  <1>5. ASSUME table' = ZBX_HISTORY_SYNC, n > 1 PROVE IdsApart(n)'
    <2>1. IdsApart(n)
      BY <1>5 DEF AtNode
    <2>2. (n = N => \A w \in HistoryWriters : inserted[w] # Nobody => Apart(N, inserted[w]))'
      BY <1>2, <2>1 DEF IdsApart
    <2>3. (\A t \in trapper[n] : t.step = "commit" => \A row \in t.rows : Apart(n, row.id))'
      BY <1>2, <2>1 DEF IdsApart
    <2> QED BY <1>1, <2>1, <2>2, <2>3 DEF IdsApart
  <1> QED BY <1>3, <1>4, <1>5 DEF AtNode

(***************************************************************************)
(* The steps of the node N.                                                *)
(***************************************************************************)
LEMMA AddHistoryInv == ASSUME HistoryInv, NEW w \in HistoryWriters, DCmass_add_history(w) PROVE HistoryInv'
  <1> USE NobodyApart DEF HistoryInv
  <1>1. /\ inserted[w] = Nobody /\ values' = values + 1
        /\ inserted' = [inserted EXCEPT ![w] = values + 1]
        /\ ids' = [ids EXCEPT ![N] = values + 1]
        /\ UNCHANGED <<table, hist, sync, watcher, trapper, late, stops>>
    BY DEF DCmass_add_history
  <1>2. values \in Nat /\ ids \in [Nodes -> Nat] /\ inserted \in [HistoryWriters -> Nat \cup {Nobody}]
    BY DEF HistoryTypeOK
  <1>3. \A n \in Nodes : Has(n)' = Has(n) /\ Has(n) \subseteq 1 .. values
    BY <1>1 DEF Has, HistoryTypeOK
  <1>4. HistoryTypeOK'
    <2>1. \A n \in Nodes : Has(n)' \subseteq 1 .. values'
      BY <1>1, <1>2, <1>3
    <2>2. inserted' \in [HistoryWriters -> Nat \cup {Nobody}] /\ ids' \in [Nodes -> Nat] /\ values' \in Nat
      BY <1>1, <1>2
    <2> QED BY <1>1, <1>3, <2>1, <2>2 DEF HistoryTypeOK
  <1>5. /\ \A x \in HistoryWriters : inserted'[x] = IF x = w THEN values + 1 ELSE inserted[x]
        /\ \A n \in Nodes : ids'[n] = IF n = N THEN values + 1 ELSE ids[n]
    BY <1>1, <1>2
  <1>6. InsertedNew'
    <2>1. \A x \in HistoryWriters :
             inserted[x] # Nobody => inserted[x] \in 1 .. values /\ inserted[x] \notin Has(N)
      BY DEF InsertedNew
    <2>2. values + 1 \notin Has(N) /\ values + 1 \in Nat
      BY <1>2, <1>3
    <2>3. \A x \in HistoryWriters : inserted'[x] # Nobody =>
             inserted'[x] \in 1 .. values' /\ inserted'[x] \notin Has(N)'
      BY <1>1, <1>2, <1>3, <1>5, <2>1, <2>2
    <2>4. \A x \in HistoryWriters : inserted[x] # values + 1
      BY <1>2, <2>1
    <2>5. \A x, y \in HistoryWriters : inserted'[x] = inserted'[y] /\ inserted'[x] # Nobody => x = y
      BY <1>5, <2>4 DEF InsertedNew
    <2> QED BY <1>1, <1>5, <2>3, <2>5 DEF InsertedNew
  <1>7. TablesFinite'
    BY <1>1 DEF TablesFinite
  <1>8. ASSUME NEW n \in Slaves PROVE Link(n)'
    BY <1>1, SameLink
  <1>9. ASSUME NEW n \in Nodes PROVE AtNode(n)'
    <2>1. CASE n # N
      BY <1>1, <1>5, <2>1, SameNode
    <2>2. CASE n = N /\ table = ZBX_HISTORY
      BY <1>1, <1>3, <2>2, TwoTables DEF AtNode, PrimaryKey
    <2>3. CASE n = N /\ table = ZBX_HISTORY_SYNC
      <3>1. ThereOnce(N)'
        BY <1>1, <1>3, <2>3 DEF AtNode, ThereOnce
      <3>2. ASSUME N > 1 PROVE IdsApart(N)'
        <4>1. IdsApart(N) /\ ids[N] = values /\ ids'[N] = values + 1
          BY <1>5, <2>3, <3>2 DEF AtNode, InsertedNew
        <4>2. ASSUME NEW i, Apart(N, i) PROVE Apart(N, i)'
          BY <1>1, <1>2, <4>1, <4>2 DEF Apart
        <4>3. PICK i : i = values + 1
          OBVIOUS
        <4>4. Apart(N, i)'
          <5>1. watcher[N] # Nobody => watcher[N].lastid \in Nat
            BY DEF HistoryTypeOK, Watch
          <5> QED BY <1>1, <1>2, <4>1, <4>3, <5>1 DEF Apart, IdsApart
        <4>5. (\A x \in HistoryWriters : inserted[x] # Nobody => Apart(N, inserted[x]))'
          <5> SUFFICES ASSUME NEW x \in HistoryWriters, inserted'[x] # Nobody PROVE Apart(N, inserted[x])'
            OBVIOUS
          <5>1. CASE x = w
            BY <1>5, <4>3, <4>4, <5>1 DEF Apart
          <5>2. CASE x # w
            <6>1. PICK k : k = inserted[x] /\ k = inserted'[x] /\ Apart(N, k)
              BY <1>5, <4>1, <5>2 DEF IdsApart
            <6>2. Apart(N, k)'
              BY <4>2, <6>1
            <6> QED BY <6>1, <6>2 DEF Apart
          <5> QED BY <5>1, <5>2
        <4>6. \A row \in sync'[N] : row.id \in 1 .. ids'[N] /\ row.value \in Has(N)'
          BY <1>1, <1>2, <1>3, <4>1 DEF IdsApart
        <4>7. watcher'[N] # Nobody => watcher'[N].lastid <= ids'[N]
          <5>1. watcher[N] # Nobody => watcher[N].lastid \in Nat
            BY DEF HistoryTypeOK, Watch
          <5> QED BY <1>1, <1>2, <4>1, <5>1 DEF IdsApart
        <4>8. trapper'[N] = {}
          BY <1>1 DEF HistoryTypeOK
        <4> QED BY <4>5, <4>6, <4>7, <4>8 DEF IdsApart
      <3> QED BY <1>1, <2>3, <3>1, <3>2, TwoTables DEF AtNode
    <2> QED BY <2>1, <2>2, <2>3 DEF HistoryTypeOK
  <1> QED BY <1>4, <1>6, <1>7, <1>8, <1>9

(***************************************************************************)
(* The steps of a node watcher.                                            *)
(***************************************************************************)
LEMMA LastIdInv == ASSUME HistoryInv, NEW n \in Nodes, get_history_lastid(n) PROVE HistoryInv'
  <1> USE NobodyApart DEF HistoryInv
  <1>1. /\ n \in Slaves /\ table = ZBX_HISTORY /\ watcher[n] = Nobody
        /\ watcher' = [watcher EXCEPT ![n] = [step |-> "select", lastid |-> LastIdAt(n - 1)]]
        /\ UNCHANGED <<table, values, inserted, hist, sync, ids, trapper, late, stops>>
    BY DEF get_history_lastid, copied, Slaves
  <1>2. /\ LastIdAt(n - 1) \in Nat /\ LastIdAt(n - 1) \in Has(n - 1) \cup {0}
        /\ \A v \in Has(n - 1) : v \in Nat \ {0} /\ v <= LastIdAt(n - 1)
    BY <1>1, SlaveMaster, LastIdGreatest
  <1>3. \A m \in Nodes : Has(m)' = Has(m)
    BY <1>1 DEF Has
  <1>4. /\ watcher' \in [Nodes -> Watch \cup {Nobody}] /\ watcher'[1] = Nobody
        /\ watcher'[n] = [step |-> "select", lastid |-> LastIdAt(n - 1)]
        /\ \A m \in Nodes \ {n} : watcher'[m] = watcher[m]
    <2>1. watcher \in [Nodes -> Watch \cup {Nobody}] /\ watcher[1] = Nobody
      BY DEF HistoryTypeOK
    <2> QED BY <1>1, <1>2, <2>1 DEF Watch, Slaves
  <1>5. HistoryTypeOK' /\ TablesFinite' /\ InsertedNew'
    BY <1>1, <1>3, <1>4 DEF HistoryTypeOK, TablesFinite, InsertedNew
  <1>6. ASSUME NEW m \in Nodes PROVE AtNode(m)'
    BY <1>1, <1>3, TwoTables DEF AtNode, PrimaryKey
  <1>7. ASSUME NEW m \in Slaves, m # n PROVE Link(m)'
    BY <1>1, <1>4, <1>7, SlaveMaster, SameLink
  <1>8. Link(n)'
    <2>1. Link(n) /\ Has(n)' = Has(n) /\ Has(n - 1)' = Has(n - 1)
      BY <1>1, <1>3, SlaveMaster
    <2>2. Nested(n)' /\ MissingAbove(n)' /\ RequestsWhole(n)'
      BY <1>1, <2>1 DEF Link, Nested, MissingAbove, RequestsWhole
    <2>3. OneConnection(n)'
      BY <1>1, <2>1 DEF Link, OneConnection
    <2>4. LastIdTrue(n)'
      <3>1. \A v \in Has(n) : v \in Nat \ {0}
        BY <1>1, SlaveMaster, LastIdGreatest
      <3>2. \A v \in Has(n) \ late : v <= LastIdAt(n - 1) => v \in Has(n - 1)
        BY <1>1, <1>2, <2>1, <3>1 DEF Link, MissingAbove
      <3> QED BY <1>1, <1>2, <1>4, <2>1, <3>2 DEF LastIdTrue
    <2> QED BY <1>1, <2>2, <2>3, <2>4, TwoTables DEF Link
  <1> QED BY <1>5, <1>6, <1>7, <1>8

LEMMA NotOKInv == ASSUME HistoryInv, NEW n \in Nodes, NotOK(n) PROVE HistoryInv'
  <1> USE NobodyApart DEF HistoryInv
  <1>1. /\ watcher[n] # Nobody /\ watcher[n].step = "recv"
        /\ \A t \in trapper[n - 1] : ~t.alive
        /\ watcher' = [watcher EXCEPT ![n] = Nobody]
        /\ UNCHANGED <<table, values, inserted, hist, sync, ids, trapper, late, stops>>
    BY DEF NotOK, copied
  <1>2. \A m \in Nodes : Has(m)' = Has(m)
    BY <1>1 DEF Has
  <1>3. watcher \in [Nodes -> Watch \cup {Nobody}] /\ watcher[1] = Nobody
    BY DEF HistoryTypeOK
  <1>4. /\ watcher' \in [Nodes -> Watch \cup {Nobody}] /\ watcher'[1] = Nobody
        /\ watcher'[n] = Nobody
        /\ \A m \in Nodes \ {n} : watcher'[m] = watcher[m]
        /\ n \in Slaves
    BY <1>1, <1>3 DEF Slaves
  <1>5. HistoryTypeOK' /\ TablesFinite' /\ InsertedNew'
    BY <1>1, <1>2, <1>4 DEF HistoryTypeOK, TablesFinite, InsertedNew
  <1>6. ASSUME NEW m \in Nodes PROVE AtNode(m)'
    <2>1. ASSUME NEW i, Apart(m, i) PROVE Apart(m, i)'
      BY <1>1, <1>4, <2>1 DEF Apart
    <2>2. ASSUME IdsApart(m) PROVE IdsApart(m)'
      BY <1>1, <1>2, <1>4, <2>1, <2>2, IdsApartKept
    <2> QED BY <1>1, <1>2, <2>2 DEF AtNode, PrimaryKey, ThereOnce
  <1>7. ASSUME NEW m \in Slaves, m # n PROVE Link(m)'
    BY <1>1, <1>4, <1>7, SlaveMaster, SameLink
  <1>8. Link(n)'
    <2>1. Link(n) /\ Has(n)' = Has(n) /\ Has(n - 1)' = Has(n - 1)
      BY <1>2, <1>4, SlaveMaster
    <2>2. (Nested(n) /\ OneConnection(n))'
      BY <1>1, <2>1 DEF Link, Nested, OneConnection
    <2>3. table' = ZBX_HISTORY => (MissingAbove(n) /\ RequestsWhole(n) /\ LastIdTrue(n))'
      BY <1>1, <1>4, <2>1 DEF Link, MissingAbove, RequestsWhole, LastIdTrue
    <2>4. table' = ZBX_HISTORY_SYNC => (MissingInTable(n) /\ DeletesSent(n))'
      BY <1>1, <1>4, <2>1 DEF Link, MissingInTable, DeletesSent
    <2>5. ASSUME table' = ZBX_HISTORY_SYNC, stops = 0 PROVE SentOnce(n)'
      <3>1. SentOnce(n)
        BY <1>1, <2>1, <2>5 DEF Link
      <3>2. trapper[n - 1] = {}
        BY <1>1, <2>5, <3>1 DEF SentOnce
      <3> QED BY <1>1, <2>1, <2>5, <3>1, <3>2 DEF SentOnce
    <2> QED BY <1>1, <2>2, <2>3, <2>4, <2>5 DEF Link, SentOnce
  <1> QED BY <1>5, <1>6, <1>7, <1>8

LEMMA DeleteSentInv == ASSUME HistoryInv, NEW n \in Nodes, DeleteSent(n) PROVE HistoryInv'
  <1> USE NobodyApart DEF HistoryInv
  <1>1. /\ watcher[n] # Nobody /\ watcher[n].step = "OK"
        /\ sync' = [sync EXCEPT ![n] = {row \in sync[n] : row.id > watcher[n].lastid}]
        /\ watcher' = [watcher EXCEPT ![n] = Nobody]
        /\ UNCHANGED <<table, values, inserted, hist, ids, trapper, late, stops>>
    BY DEF DeleteSent, AfterDelete
  <1>2. \A m \in Nodes : Has(m)' = Has(m)
    BY <1>1 DEF Has
  <1>3. /\ watcher \in [Nodes -> Watch \cup {Nobody}] /\ watcher[1] = Nobody
        /\ sync \in [Nodes -> SUBSET HistoryRow]
    BY DEF HistoryTypeOK
  <1>4. /\ watcher' \in [Nodes -> Watch \cup {Nobody}] /\ watcher'[1] = Nobody
        /\ sync' \in [Nodes -> SUBSET HistoryRow]
        /\ watcher'[n] = Nobody
        /\ sync'[n] = {row \in sync[n] : row.id > watcher[n].lastid}
        /\ \A m \in Nodes \ {n} : watcher'[m] = watcher[m] /\ sync'[m] = sync[m]
        /\ \A m \in Nodes : sync'[m] \subseteq sync[m]
        /\ n \in Slaves
    BY <1>1, <1>3 DEF Slaves
  <1>5. HistoryTypeOK' /\ InsertedNew'
    BY <1>1, <1>2, <1>4 DEF HistoryTypeOK, InsertedNew
  <1>6. TablesFinite'
    <2>1. \A m \in Nodes : IsFiniteSet(sync[m])
      BY DEF TablesFinite
    <2>2. \A m \in Nodes : IsFiniteSet(sync'[m])
      BY <1>4, <2>1, FS_Subset
    <2> QED BY <1>1, <2>2 DEF TablesFinite
  <1>7. ASSUME NEW m \in Nodes PROVE AtNode(m)'
    <2>1. ASSUME NEW i, Apart(m, i) PROVE Apart(m, i)'
      BY <1>1, <1>4, <2>1 DEF Apart
    <2>2. ASSUME IdsApart(m) PROVE IdsApart(m)'
      BY <1>1, <1>2, <1>4, <2>1, <2>2, IdsApartKept
    <2> QED BY <1>1, <1>2, <2>2 DEF AtNode, PrimaryKey, ThereOnce
  <1>8. ASSUME NEW m \in Slaves, m # n PROVE Link(m)'
    BY <1>1, <1>4, <1>8, SlaveMaster, SameLink
  <1>9. Link(n)'
    <2>1. Link(n) /\ Has(n)' = Has(n) /\ Has(n - 1)' = Has(n - 1)
      BY <1>2, <1>4, SlaveMaster
    <2>2. \A t \in trapper[n - 1] : ~t.alive
      BY <1>1, <2>1 DEF Link, OneConnection
    <2>3. (Nested(n) /\ OneConnection(n))'
      BY <1>1, <2>1, <2>2 DEF Link, Nested, OneConnection
    <2>4. table' = ZBX_HISTORY => (MissingAbove(n) /\ RequestsWhole(n) /\ LastIdTrue(n))'
      BY <1>1, <1>4, <2>1 DEF Link, MissingAbove, RequestsWhole, LastIdTrue
    <2>5. ASSUME table' = ZBX_HISTORY_SYNC PROVE MissingInTable(n)'
      <3>1. MissingInTable(n) /\ DeletesSent(n)
        BY <1>1, <2>1, <2>5 DEF Link
      <3>2. \A row \in sync[n] \ sync'[n] : row.value \in Has(n - 1) \cup late
        <4>1. \A row \in sync[n] : row.id \in Nat
          BY <1>3 DEF HistoryRow
        <4>2. watcher[n].lastid \in Nat
          BY <1>1, <1>3 DEF Watch
        <4> QED BY <1>1, <1>4, <3>1, <4>1, <4>2 DEF DeletesSent
      <3> QED BY <1>1, <2>1, <3>1, <3>2 DEF MissingInTable, Values
    <2>6. table' = ZBX_HISTORY_SYNC => DeletesSent(n)'
      BY <1>1, <1>4, <2>1, <2>2 DEF Link, DeletesSent
    <2>7. ASSUME table' = ZBX_HISTORY_SYNC, stops = 0 PROVE SentOnce(n)'
      <3>1. SentOnce(n)
        BY <1>1, <2>1, <2>7 DEF Link
      <3>2. trapper[n - 1] = {}
        BY <2>2, <2>7, <3>1 DEF SentOnce
      <3>3. DistinctValues(sync[n])'
        BY <1>4, <2>7, <3>1 DEF SentOnce, DistinctValues
      <3>4. \A row \in sync'[n] : row.value \notin Has(n - 1)
        <4>1. \A row \in sync[n] : row.id \in Nat
          BY <1>3 DEF HistoryRow
        <4>2. watcher[n].lastid \in Nat
          BY <1>1, <1>3 DEF Watch
        <4> QED BY <1>4, <2>7, <3>1, <4>1, <4>2 DEF SentOnce
      <3> QED BY <1>1, <2>1, <3>2, <3>3, <3>4 DEF SentOnce
    <2> QED BY <1>1, <2>3, <2>4, <2>5, <2>6, <2>7 DEF Link, SentOnce
  <1> QED BY <1>5, <1>6, <1>7, <1>8, <1>9

(* A trapper that is stopped, or whose node watcher is.                    *)
LEMMA StopTrapperInv ==
  ASSUME HistoryInv, NEW n \in Nodes, NEW t \in trapper[n], StopTrapper(n, t) PROVE HistoryInv'
  <1> USE NobodyApart DEF HistoryInv
  <1>1. /\ trapper' = [trapper EXCEPT ![n] = @ \ {t}]
        /\ stops' = stops + 1 /\ stops \in Nat /\ trapper \in [Nodes -> SUBSET Request]
        /\ UNCHANGED <<table, values, inserted, hist, sync, ids, watcher, late>>
    BY DEF StopTrapper, copied, Becomes, HistoryTypeOK
  <1>2. \A m \in Nodes : Has(m)' = Has(m)
    BY <1>1 DEF Has
  <1>3. /\ trapper' \in [Nodes -> SUBSET Request]
        /\ \A m \in Nodes : trapper'[m] \subseteq trapper[m]
        /\ stops' # 0 /\ stops' \in Nat
    BY <1>1
  <1>4. HistoryTypeOK' /\ TablesFinite' /\ InsertedNew'
    BY <1>1, <1>2, <1>3 DEF HistoryTypeOK, TablesFinite, InsertedNew
  <1>5. ASSUME NEW m \in Nodes PROVE AtNode(m)'
    <2>1. ASSUME NEW i, Apart(m, i) PROVE Apart(m, i)'
      BY <1>1, <2>1 DEF Apart
    <2>2. ASSUME IdsApart(m) PROVE IdsApart(m)'
      BY <1>1, <1>2, <1>3, <2>1, <2>2, IdsApartKept
    <2> QED BY <1>1, <1>2, <1>3, <2>2 DEF AtNode, PrimaryKey, ThereOnce
  <1>6. ASSUME NEW m \in Slaves PROVE Link(m)'
    <2>1. /\ Link(m) /\ Has(m)' = Has(m) /\ Has(m - 1)' = Has(m - 1)
          /\ trapper'[m - 1] \subseteq trapper[m - 1]
      BY <1>2, <1>3, SlaveMaster
    <2>2. (Nested(m) /\ OneConnection(m))'
      BY <1>1, <2>1 DEF Link, Nested, OneConnection
    <2>3. table' = ZBX_HISTORY => (MissingAbove(m) /\ RequestsWhole(m) /\ LastIdTrue(m))'
      BY <1>1, <2>1 DEF Link, MissingAbove, RequestsWhole, LastIdTrue
    <2>4. table' = ZBX_HISTORY_SYNC => (MissingInTable(m) /\ DeletesSent(m) /\ SentOnce(m))'
      BY <1>1, <1>3, <2>1 DEF Link, MissingInTable, DeletesSent, SentOnce
    <2> QED BY <2>2, <2>3, <2>4 DEF Link
  <1> QED BY <1>4, <1>5, <1>6

LEMMA StopWatcherInv == ASSUME HistoryInv, NEW n \in Nodes, StopWatcher(n) PROVE HistoryInv'
  <1> USE NobodyApart DEF HistoryInv
  <1> DEFINE Dead(t) == [t EXCEPT !.alive = FALSE]
  <1>1. /\ watcher[n] # Nobody
        /\ watcher' = [watcher EXCEPT ![n] = Nobody]
        /\ trapper' = [trapper EXCEPT ![n - 1] = {Dead(t) : t \in trapper[n - 1]}]
        /\ stops' = stops + 1
        /\ UNCHANGED <<table, values, inserted, hist, sync, ids, late>>
    BY DEF StopWatcher, copied
  <1>2. \A m \in Nodes : Has(m)' = Has(m)
    BY <1>1 DEF Has
  <1>3. /\ watcher \in [Nodes -> Watch \cup {Nobody}] /\ watcher[1] = Nobody /\ stops \in Nat
        /\ trapper \in [Nodes -> SUBSET Request] /\ trapper[N] = {}
    BY DEF HistoryTypeOK
  <1>4. n \in Slaves
    BY <1>1, <1>3 DEF Slaves
  <1>5. \A t \in trapper[n - 1] : /\ Dead(t) \in Request /\ ~Dead(t).alive
                                  /\ Dead(t).step = t.step /\ Dead(t).rows = t.rows
    <2>1. trapper[n - 1] \subseteq Request
      BY <1>3, <1>4, SlaveMaster
    <2>2. ASSUME NEW t \in Request PROVE Dead(t).alive = FALSE
      BY DEF Request
    <2>3. ASSUME NEW t \in Request PROVE Dead(t).step = t.step /\ Dead(t).rows = t.rows
      BY DEF Request
    <2>4. ASSUME NEW t \in Request PROVE Dead(t) \in Request
      BY DEF Request
    <2> QED BY <2>1, <2>2, <2>3, <2>4
  <1> HIDE DEF Dead
  <1>6. /\ watcher' \in [Nodes -> Watch \cup {Nobody}] /\ watcher'[1] = Nobody
        /\ watcher'[n] = Nobody
        /\ \A m \in Nodes \ {n} : watcher'[m] = watcher[m]
        /\ trapper'[n - 1] = {Dead(t) : t \in trapper[n - 1]}
        /\ \A m \in Nodes \ {n - 1} : trapper'[m] = trapper[m]
        /\ trapper' \in [Nodes -> SUBSET Request] /\ trapper'[N] = {}
        /\ stops' # 0 /\ stops' \in Nat
    <2>1. n - 1 \in Nodes /\ n - 1 # N
      BY <1>4, SlaveMaster
    <2>2. {Dead(t) : t \in trapper[n - 1]} \subseteq Request
      BY <1>5
    <2> QED BY <1>1, <1>3, <1>4, <2>1, <2>2 DEF Slaves
  <1>7. \A m \in Nodes : \A u \in trapper'[m] : \E t \in trapper[m] :
           /\ u.rows = t.rows /\ u.step = t.step
           /\ m = n - 1 => u = Dead(t) /\ ~u.alive
           /\ m # n - 1 => u = t
    BY <1>5, <1>6
  <1>8. HistoryTypeOK' /\ TablesFinite' /\ InsertedNew'
    BY <1>1, <1>2, <1>6, <1>7 DEF HistoryTypeOK, TablesFinite, InsertedNew
  <1>9. ASSUME NEW m \in Nodes PROVE AtNode(m)'
    <2>1. ASSUME NEW i, Apart(m, i) PROVE Apart(m, i)'
      BY <1>1, <1>6, <2>1 DEF Apart
    <2>2. IdsApart(m) => IdsApart(m)'
      BY <1>1, <1>2, <1>6, <1>7, <2>1 DEF IdsApart
    <2>3. PrimaryKey(m) => PrimaryKey(m)'
      BY <1>1, <1>2, <1>7 DEF PrimaryKey
    <2> QED BY <1>1, <1>2, <1>6, <2>2, <2>3 DEF AtNode, ThereOnce
  <1>10. ASSUME NEW m \in Slaves PROVE Link(m)'
    <2>1. /\ Link(m) /\ Has(m)' = Has(m) /\ Has(m - 1)' = Has(m - 1)
          /\ m - 1 = n - 1 => m = n
          /\ m \in Nodes /\ m - 1 \in Nodes
      BY <1>2, <1>4, SlaveMaster
    <2>2. \A u \in trapper'[m - 1] : \E t \in trapper[m - 1] :
           /\ u.rows = t.rows /\ u.step = t.step
           /\ m = n => ~u.alive
           /\ m # n => u = t
      BY <1>7, <2>1
    <2>3. Nested(m)'
      BY <1>1, <2>1, <2>2 DEF Link, Nested
    <2>4. OneConnection(m)'
      BY <1>1, <1>6, <2>1, <2>2 DEF Link, OneConnection
    <2>5. table' = ZBX_HISTORY => (MissingAbove(m) /\ RequestsWhole(m))'
      BY <1>1, <2>1, <2>2 DEF Link, MissingAbove, RequestsWhole
    <2>6. table' = ZBX_HISTORY => LastIdTrue(m)'
      BY <1>1, <1>6, <2>1 DEF Link, LastIdTrue
    <2>7. table' = ZBX_HISTORY_SYNC => (MissingInTable(m) /\ DeletesSent(m))'
      BY <1>1, <1>6, <2>1, <2>2 DEF Link, MissingInTable, DeletesSent
    <2>8. SentOnce(m)'
      BY <1>6 DEF SentOnce
    <2> QED BY <2>3, <2>4, <2>5, <2>6, <2>7, <2>8 DEF Link
  <1> QED BY <1>8, <1>9, <1>10

(***************************************************************************)
(* The steps of a trapper.                                                 *)
(***************************************************************************)

(* A trapper of n serves the slave s.                                      *)
LEMMA SlaveOfTrapper ==
  ASSUME HistoryTypeOK, NEW n \in Nodes, NEW t \in trapper[n]
  PROVE  /\ t \in Request /\ n # N
         /\ n + 1 \in Slaves /\ (n + 1) - 1 = n
         /\ \A m \in Slaves : m - 1 = n => m = n + 1
  BY NobodyApart DEF HistoryTypeOK, Slaves

LEMMA AnswersOKInv ==
  ASSUME HistoryInv, NEW n \in Nodes, NEW t \in trapper[n], AnswersOK(n, t) PROVE HistoryInv'
  <1> USE NobodyApart DEF HistoryInv
  <1>1. PICK s \in Slaves : /\ s = n + 1 /\ s - 1 = n /\ s \in Nodes /\ n # N /\ s # n
                           /\ t \in Request /\ s # 1
                           /\ \A m \in Slaves : m - 1 = n => m = s
    BY SlaveOfTrapper, SlaveMaster
  <1>2. /\ t.step = "answer"
        /\ trapper' = [trapper EXCEPT ![n] = @ \ {t}]
        /\ watcher' = [watcher EXCEPT ![s] = IF t.alive THEN [@ EXCEPT !.step = "OK"] ELSE @]
        /\ UNCHANGED <<table, values, inserted, hist, sync, ids, late, stops>>
    BY <1>1 DEF AnswersOK, Becomes, copied
  <1>3. \A m \in Nodes : Has(m)' = Has(m)
    BY <1>2 DEF Has
  <1>4. /\ watcher \in [Nodes -> Watch \cup {Nobody}] /\ watcher[1] = Nobody
        /\ trapper \in [Nodes -> SUBSET Request] /\ trapper[N] = {}
    BY DEF HistoryTypeOK
  <1>5. Link(s)
    OBVIOUS
  <1>6. t.alive => watcher[s] \in Watch /\ watcher[s].step = "recv"
    BY <1>1, <1>4, <1>5 DEF Link, OneConnection
  <1>7. /\ t.alive => watcher'[s] \in Watch /\ watcher'[s].step = "OK" /\ watcher'[s].lastid = watcher[s].lastid
        /\ ~t.alive => watcher'[s] = watcher[s]
    BY <1>1, <1>2, <1>4, <1>6 DEF Watch
  <1>8. /\ \A m \in Nodes \ {s} : watcher'[m] = watcher[m]
        /\ watcher' \in [Nodes -> Watch \cup {Nobody}] /\ watcher'[1] = Nobody
        /\ trapper'[n] = trapper[n] \ {t}
        /\ \A m \in Nodes \ {n} : trapper'[m] = trapper[m]
        /\ \A m \in Nodes : trapper'[m] \subseteq trapper[m]
        /\ trapper' \in [Nodes -> SUBSET Request] /\ trapper'[N] = {}
    <2>1. watcher'[s] \in Watch \cup {Nobody}
      BY <1>1, <1>4, <1>7
    <2>2. DOMAIN watcher' = Nodes /\ \A m \in Nodes \ {s} : watcher'[m] = watcher[m]
      BY <1>2, <1>4
    <2>3. \A m \in Nodes : watcher'[m] \in Watch \cup {Nobody}
      BY <1>4, <2>1, <2>2
    <2>4. watcher' \in [Nodes -> Watch \cup {Nobody}]
      BY <1>2, <1>4, <2>3
    <2> QED BY <1>1, <1>2, <1>4, <2>2, <2>4
  <1>9. HistoryTypeOK' /\ TablesFinite' /\ InsertedNew'
    BY <1>2, <1>3, <1>8 DEF HistoryTypeOK, TablesFinite, InsertedNew
  <1>10. ASSUME NEW m \in Nodes PROVE AtNode(m)'
    <2>1. /\ watcher'[m] # Nobody => watcher[m] # Nobody /\ watcher'[m].lastid = watcher[m].lastid
      BY <1>6, <1>7, <1>8
    <2>2. ASSUME NEW i, Apart(m, i) PROVE Apart(m, i)'
      BY <1>2, <2>1, <2>2 DEF Apart
    <2>3. ASSUME IdsApart(m) PROVE IdsApart(m)'
      BY <1>2, <1>3, <1>8, <2>1, <2>2, <2>3, IdsApartKept
    <2> QED BY <1>2, <1>3, <1>8, <2>3 DEF AtNode, PrimaryKey, ThereOnce
  <1>11. ASSUME NEW m \in Slaves, m # s PROVE Link(m)'
    BY <1>1, <1>2, <1>8, <1>11, SlaveMaster, SameLink
  <1>12. Link(s)'
    <2>1. Has(s)' = Has(s) /\ Has(s - 1)' = Has(s - 1) /\ trapper'[s - 1] = trapper[s - 1] \ {t} /\ t \in trapper[s - 1]
      BY <1>1, <1>3, <1>8
    <2>2. t.alive => \A u \in trapper'[s - 1] : ~u.alive
      BY <1>5, <2>1 DEF Link, OneConnection
    <2>3. Nested(s)'
      BY <1>2, <1>5, <2>1 DEF Link, Nested
    <2>4. OneConnection(s)'
      BY <1>5, <1>7, <2>1, <2>2 DEF Link, OneConnection
    <2>5. table' = ZBX_HISTORY => (MissingAbove(s) /\ RequestsWhole(s))'
      BY <1>2, <1>5, <2>1 DEF Link, MissingAbove, RequestsWhole
    <2>6. table' = ZBX_HISTORY => LastIdTrue(s)'
      BY <1>2, <1>5, <1>7, <2>1 DEF Link, LastIdTrue
    <2>7. table' = ZBX_HISTORY_SYNC => MissingInTable(s)'
      BY <1>2, <1>5, <2>1 DEF Link, MissingInTable
    <2>8. ASSUME table' = ZBX_HISTORY_SYNC PROVE DeletesSent(s)'
      <3>1. DeletesSent(s)
        BY <1>2, <1>5, <2>8 DEF Link
      <3>2. CASE t.alive
        <4>1. \A row \in sync[s] : row.id <= watcher[s].lastid => row.value \in Has(s - 1) \cup late
          BY <1>2, <2>1, <3>1, <3>2 DEF DeletesSent
        <4> QED BY <1>2, <1>7, <2>1, <2>2, <3>1, <3>2, <4>1 DEF DeletesSent
      <3>3. CASE ~t.alive
        BY <1>2, <1>7, <2>1, <3>1, <3>3 DEF DeletesSent
      <3> QED BY <3>2, <3>3
    <2>9. ASSUME table' = ZBX_HISTORY_SYNC, stops = 0 PROVE SentOnce(s)'
      <3>1. SentOnce(s)
        BY <1>2, <1>5, <2>9 DEF Link
      <3>2. t.alive /\ trapper'[s - 1] = {}
        BY <2>1, <2>2, <2>9, <3>1 DEF SentOnce
      <3>3. watcher'[s] # Nobody /\ watcher'[s].step = "OK" /\ watcher'[s].lastid = watcher[s].lastid
        BY <1>7, <3>2
      <3> QED BY <1>2, <2>1, <2>9, <3>1, <3>2, <3>3 DEF SentOnce
    <2> QED BY <1>2, <2>3, <2>4, <2>5, <2>6, <2>7, <2>8, <2>9 DEF Link, SentOnce
  <1> QED BY <1>9, <1>10, <1>11, <1>12

(* The transaction of a trapper.                                           *)
LEMMA InsertsInv ==
  ASSUME HistoryInv, NEW n \in Nodes, NEW t \in trapper[n], Inserts(n, t) PROVE HistoryInv'
  <1> USE NobodyApart DEF HistoryInv
  <1>1. PICK s \in Slaves : /\ s = n + 1 /\ s - 1 = n /\ s \in Nodes /\ n # N /\ s # n
                           /\ t \in Request /\ s # 1
                           /\ \A m \in Slaves : m - 1 = n => m = s
    BY SlaveOfTrapper, SlaveMaster
  <1> DEFINE sent == IF table = ZBX_HISTORY_SYNC /\ n > 1 THEN Renumbered(n, t.rows) ELSE t.rows
  <1>2. PICK u : u = [t EXCEPT !.step = "commit", !.rows = sent]
    OBVIOUS
  <1>3. /\ sent \in SUBSET HistoryRow /\ IsFiniteSet(sent) /\ Values(sent) = Values(t.rows)
        /\ DistinctValues(t.rows) => DistinctValues(sent)
        /\ table = ZBX_HISTORY_SYNC /\ n > 1 =>
              \A row \in sent : row.id \in (ids[n] + 1) .. (ids[n] + Cardinality(t.rows))
        /\ table = ZBX_HISTORY => sent = t.rows
    <2>1. t.rows \in SUBSET HistoryRow /\ IsFiniteSet(t.rows)
      BY <1>1 DEF Request, TablesFinite
    <2> QED BY <2>1, RenumberedNew, TwoTables
  <1> HIDE DEF sent
  <1>4. u \in Request /\ u.step = "commit" /\ u.rows = sent /\ u.alive = t.alive
    BY <1>1, <1>2, <1>3 DEF Request
  <1>5. /\ t.step = "insert"
        /\ \/ trapper' = [trapper EXCEPT ![n] = @ \ {t}] /\ table = ZBX_HISTORY
           \/ /\ trapper' = [trapper EXCEPT ![n] = (@ \ {t}) \cup {u}]
              /\ table = ZBX_HISTORY =>
                    /\ Values(sent) \cap Has(n) = {}
                    /\ \A q \in trapper[n] : q.step = "commit" => q.rows \cap sent = {}
        /\ ids' = IF table = ZBX_HISTORY_SYNC THEN [ids EXCEPT ![n] = @ + Cardinality(t.rows)] ELSE ids
        /\ UNCHANGED <<table, values, inserted, hist, sync, watcher, late, stops>>
    <2>1. /\ t.step = "insert" /\ UNCHANGED <<table, values, inserted, hist, sync, watcher, late, stops>>
      BY DEF Inserts
    <2>2. CASE table = ZBX_HISTORY_SYNC
      <3>1. Becomes(n, t, {[t EXCEPT !.step = "commit", !.rows = IF n > 1 THEN Renumbered(n, @) ELSE @]})
        BY <2>2 DEF Inserts
      <3>2. u = [t EXCEPT !.step = "commit", !.rows = IF n > 1 THEN Renumbered(n, @) ELSE @]
        BY <1>1, <1>2, <2>2 DEF sent, Request
      <3>3. trapper' = [trapper EXCEPT ![n] = (@ \ {t}) \cup {u}]
        BY <3>1, <3>2 DEF Becomes
      <3>4. ids' = [ids EXCEPT ![n] = @ + Cardinality(t.rows)]
        BY <2>2 DEF Inserts
      <3> QED BY <2>1, <2>2, <3>3, <3>4, TwoTables
    <2>3. CASE table = ZBX_HISTORY
      <3>1. /\ \A q \in trapper[n] : q.step = "commit" => q.rows \cap t.rows = {}
            /\ Becomes(n, t, IF Values(t.rows) \cap Has(n) # {} THEN {} ELSE {[t EXCEPT !.step = "commit"]})
            /\ UNCHANGED ids
        BY <2>3, TwoTables DEF Inserts, Has
      <3>2. u = [t EXCEPT !.step = "commit"] /\ sent = t.rows
        BY <1>1, <1>2, <2>3, TwoTables DEF sent, Request
      <3> QED BY <2>1, <2>3, <3>1, <3>2, TwoTables DEF Becomes
    <2> QED BY <2>2, <2>3 DEF HistoryTypeOK
  <1>6. \A m \in Nodes : Has(m)' = Has(m)
    BY <1>5 DEF Has
  <1>7. /\ trapper \in [Nodes -> SUBSET Request] /\ trapper[N] = {} /\ ids \in [Nodes -> Nat]
        /\ Cardinality(t.rows) \in Nat
    BY FS_CardinalityType DEF HistoryTypeOK, TablesFinite
  <1>8. /\ trapper' \in [Nodes -> SUBSET Request] /\ trapper'[N] = {}
        /\ \A m \in Nodes \ {n} : trapper'[m] = trapper[m] /\ ids'[m] = ids[m]
        /\ \A q \in trapper'[n] : q = u \/ (q \in trapper[n] /\ q # t)
        /\ ids' \in [Nodes -> Nat]
        /\ ids'[n] = IF table = ZBX_HISTORY_SYNC THEN ids[n] + Cardinality(t.rows) ELSE ids[n]
        /\ u \in trapper'[n] \/ table = ZBX_HISTORY
    BY <1>1, <1>4, <1>5, <1>7
  <1>9. HistoryTypeOK' /\ InsertedNew'
    BY <1>1, <1>5, <1>6, <1>8 DEF HistoryTypeOK, InsertedNew
  <1>10. TablesFinite'
    BY <1>3, <1>4, <1>5, <1>8 DEF TablesFinite
  <1>11. ASSUME NEW m \in Nodes, m # n PROVE AtNode(m)'
    BY <1>5, <1>8, <1>11, SameNode
  <1>12. AtNode(n)'
    <2>1. ASSUME table = ZBX_HISTORY PROVE PrimaryKey(n)'
      <3>1. PrimaryKey(n)
        BY <2>1 DEF AtNode
      <3>2. (\A v \in Has(n) : hist[n][v] = 1)'
        BY <1>5, <1>6, <3>1 DEF PrimaryKey
      <3>3. CASE u \notin trapper'[n]
        BY <1>6, <1>8, <3>1, <3>2, <3>3 DEF PrimaryKey
      <3>4. CASE u \in trapper'[n]
        <4>1. \/ Values(sent) \cap Has(n) = {} /\ \A q \in trapper[n] : q.step = "commit" => q.rows \cap sent = {}
              \/ u \in trapper[n]
          BY <1>5, <1>7, <2>1, <3>4
        <4>2. Values(sent) \cap Has(n) = {} /\ \A q \in trapper[n] : q.step = "commit" => q = u \/ q.rows \cap sent = {}
          BY <1>4, <3>1, <4>1 DEF PrimaryKey
        <4>3. (\A q \in trapper[n] : q.step = "commit" => Values(q.rows) \cap Has(n) = {})'
          BY <1>4, <1>6, <1>8, <3>1, <4>2 DEF PrimaryKey
        <4>4. (\A q, r \in trapper[n] : q.step = "commit" /\ r.step = "commit" /\ q # r => q.rows \cap r.rows = {})'
          BY <1>4, <1>8, <3>1, <4>2 DEF PrimaryKey
        <4> QED BY <3>2, <4>3, <4>4 DEF PrimaryKey
      <3> QED BY <3>3, <3>4
    <2>2. table = ZBX_HISTORY_SYNC => ThereOnce(n)'
      BY <1>5, <1>6 DEF AtNode, ThereOnce
    <2>3. ASSUME table = ZBX_HISTORY_SYNC, n > 1 PROVE IdsApart(n)'
      <3>1. IdsApart(n) /\ ids'[n] = ids[n] + Cardinality(t.rows) /\ ids[n] \in Nat
        BY <1>7, <1>8, <2>3 DEF AtNode
      <3>2. ASSUME NEW i, Apart(n, i) PROVE Apart(n, i)'
        BY <1>5, <1>7, <3>1, <3>2 DEF Apart
      <3>3. watcher[n] # Nobody => watcher[n].lastid \in Nat
        BY DEF HistoryTypeOK, Watch
      <3>4. ASSUME NEW i \in (ids[n] + 1) .. (ids[n] + Cardinality(t.rows)) PROVE Apart(n, i)'
        BY <1>5, <1>7, <3>1, <3>3 DEF Apart, IdsApart
      <3>5. \A row \in sent : row.id \in (ids[n] + 1) .. (ids[n] + Cardinality(t.rows))
        BY <1>3, <2>3
      <3>6. (\A q \in trapper[n] : q.step = "commit" => \A row \in q.rows : Apart(n, row.id))'
        BY <1>4, <1>8, <3>1, <3>2, <3>4, <3>5 DEF IdsApart
      <3>7. \A q \in trapper[n] : q.step = "commit" => \A row \in q.rows : row.id \in 1 .. ids[n]
        BY <3>1 DEF IdsApart, Apart
      <3>8. \A q \in trapper[n] : q.step = "commit" => \A row \in q.rows, r \in sent : row.id # r.id
        BY <1>7, <3>1, <3>5, <3>7
      <3>9. (\A q, r \in trapper[n] : q.step = "commit" /\ r.step = "commit" /\ q # r =>
               \A row \in q.rows, x \in r.rows : row.id # x.id)'
        BY <1>4, <1>8, <3>1, <3>8 DEF IdsApart
      <3>10. (\A row \in sync[n] : row.id \in 1 .. ids[n] /\ row.value \in Has(n))'
        BY <1>5, <1>6, <1>7, <3>1 DEF IdsApart
      <3>11. (watcher[n] # Nobody => watcher[n].lastid <= ids[n])'
        BY <1>5, <1>7, <3>1, <3>3 DEF IdsApart
      <3> QED BY <1>1, <3>6, <3>9, <3>10, <3>11 DEF IdsApart
    <2> QED BY <1>5, <2>1, <2>2, <2>3 DEF AtNode
  <1>13. ASSUME NEW m \in Slaves, m # s PROVE Link(m)'
    BY <1>1, <1>5, <1>8, <1>13, SlaveMaster, SameLink
  <1>14. Link(s)'
    <2>1. Link(s) /\ Has(s)' = Has(s) /\ Has(s - 1)' = Has(s - 1) /\ t \in trapper[s - 1]
      BY <1>1, <1>6
    <2>2. \A q \in trapper'[s - 1] : q = u \/ (q \in trapper[s - 1] /\ q # t)
      BY <1>1, <1>8
    <2>3. Nested(s)'
      BY <1>3, <1>4, <2>1, <2>2 DEF Link, Nested
    <2>4. OneConnection(s)'
      BY <1>4, <1>5, <2>1, <2>2 DEF Link, OneConnection
    <2>5. table' = ZBX_HISTORY => (MissingAbove(s) /\ RequestsWhole(s) /\ LastIdTrue(s))'
      BY <1>3, <1>4, <1>5, <2>1, <2>2 DEF Link, MissingAbove, RequestsWhole, LastIdTrue
    <2>6. table' = ZBX_HISTORY_SYNC => (MissingInTable(s) /\ DeletesSent(s))'
      BY <1>3, <1>4, <1>5, <2>1, <2>2 DEF Link, MissingInTable, DeletesSent
    <2>7. ASSUME table' = ZBX_HISTORY_SYNC, stops = 0 PROVE SentOnce(s)'
      <3>1. SentOnce(s)
        BY <1>5, <2>1, <2>7 DEF Link
      <3>2. \A q \in trapper[s - 1] : q = t
        BY <2>1, <2>7, <3>1 DEF SentOnce, Link, OneConnection
      <3> QED BY <1>3, <1>4, <1>5, <2>1, <2>2, <2>7, <3>1, <3>2 DEF SentOnce
    <2> QED BY <1>5, <2>3, <2>4, <2>5, <2>6, <2>7 DEF Link, SentOnce
  <1> QED BY <1>9, <1>10, <1>11, <1>12, <1>13, <1>14

(***************************************************************************)
(* A request.                                                              *)
(***************************************************************************)
LEMMA RowsFinite ==
  ASSUME HistoryInv, NEW n \in Slaves
  PROVE  /\ Rows(n) \in SUBSET HistoryRow /\ IsFiniteSet(Rows(n)) /\ Values(Rows(n)) \subseteq Has(n)
         /\ \E b \in Nat : \A row \in Rows(n) : row.id <= b
         /\ table = ZBX_HISTORY_SYNC => Rows(n) = sync[n] /\ \A row \in Rows(n) : row.id \in 1 .. ids[n]
         /\ table = ZBX_HISTORY =>
               /\ \A row \in Rows(n) : row.id = row.value
               /\ \A v \in Has(n) : [id |-> v, value |-> v] \in Rows(n)
  <1> USE NobodyApart, SlaveMaster DEF HistoryInv
  <1>1. Has(n) \subseteq 1 .. values /\ values \in Nat /\ sync[n] \in SUBSET HistoryRow /\ ids[n] \in Nat
    BY DEF HistoryTypeOK
  <1>2. CASE table = ZBX_HISTORY_SYNC
    <2>1. Rows(n) = sync[n] /\ IsFiniteSet(Rows(n))
      BY <1>2 DEF Rows, TablesFinite
    <2>2. \A row \in sync[n] : row.id \in 1 .. ids[n] /\ row.value \in Has(n)
      BY <1>2 DEF AtNode, IdsApart
    <2>3. \A row \in Rows(n) : row.id <= ids[n]
      BY <1>1, <2>1, <2>2
    <2> QED BY <1>1, <1>2, <2>1, <2>2, <2>3, TwoTables DEF Values
  <1>3. CASE table = ZBX_HISTORY
    <2> DEFINE f == [v \in Has(n) |-> [id |-> v, value |-> v]]
    <2>1. Rows(n) = {[id |-> v, value |-> v] : v \in Has(n)}
      BY <1>3, TwoTables DEF Rows, Has
    <2>2. IsFiniteSet(Has(n))
      <3>1. IsFiniteSet(1 .. values)
        BY <1>1, FS_Interval
      <3> QED BY <1>1, <3>1, FS_Subset
    <2>3. f \in Surjection(Has(n), Rows(n))
      BY <2>1 DEF Surjection
    <2>4. IsFiniteSet(Rows(n))
      BY <2>2, <2>3, FS_Surjection
    <2>5. \A row \in Rows(n) : row.id = row.value /\ row.value \in Has(n) /\ row \in HistoryRow
      BY <1>1, <2>1 DEF HistoryRow
    <2>6. \A row \in Rows(n) : row.id <= values
      BY <1>1, <2>5
    <2> QED BY <1>1, <1>3, <2>1, <2>4, <2>5, <2>6, TwoTables DEF Values
  <1> QED BY <1>2, <1>3 DEF HistoryTypeOK

LEMMA SendInv == ASSUME HistoryInv, NEW n \in Nodes, send_to_node(n) PROVE HistoryInv'
  <1> USE NobodyApart DEF HistoryInv
  <1>1. PICK above, data :
           /\ n \in Slaves
           /\ table = ZBX_HISTORY_SYNC => watcher[n] = Nobody /\ above = 0
           /\ table = ZBX_HISTORY => watcher[n] # Nobody /\ watcher[n].step = "select" /\ above = watcher[n].lastid
           /\ data = FirstRows({row \in Rows(n) : row.id > above})
           /\ \/ /\ table = ZBX_HISTORY
                 /\ watcher' = [watcher EXCEPT ![n] = Nobody]
                 /\ UNCHANGED trapper
              \/ /\ data # {}
                 /\ watcher' = [watcher EXCEPT ![n] = [step |-> "recv", lastid |-> Max({row.id : row \in data})]]
                 /\ trapper' = [trapper EXCEPT ![n - 1] =
                                   @ \cup {[step |-> "insert", alive |-> TRUE, rows |-> data, no |-> stops]}]
           /\ UNCHANGED <<table, values, inserted, hist, sync, ids, late, stops>>
    <2>1. PICK above : above = IF table = ZBX_HISTORY_SYNC THEN 0 ELSE watcher[n].lastid
      OBVIOUS
    <2>2. PICK data : data = FirstRows({row \in Rows(n) : row.id > above})
      OBVIOUS
    <2>3. /\ n \in Slaves /\ UNCHANGED <<table, values, inserted, hist, sync, ids, late, stops>>
          /\ IF table = ZBX_HISTORY_SYNC THEN watcher[n] = Nobody ELSE watcher[n] # Nobody /\ watcher[n].step = "select"
      BY DEF send_to_node, copied, Slaves
    <2>4. IF data = {}
          THEN /\ table = ZBX_HISTORY
               /\ watcher' = [watcher EXCEPT ![n] = Nobody]
               /\ UNCHANGED trapper
          ELSE /\ watcher' = [watcher EXCEPT ![n] = [step |-> "recv", lastid |-> Max({row.id : row \in data})]]
               /\ trapper' = [trapper EXCEPT ![n - 1] =
                                 @ \cup {[step |-> "insert", alive |-> TRUE, rows |-> data, no |-> stops]}]
      BY <2>1, <2>2 DEF send_to_node
    <2> QED BY <2>1, <2>2, <2>3, <2>4, TwoTables
  <1>2. \A m \in Nodes : Has(m)' = Has(m)
    BY <1>1 DEF Has
  <1>3. /\ watcher \in [Nodes -> Watch \cup {Nobody}] /\ watcher[1] = Nobody /\ stops \in Nat
        /\ trapper \in [Nodes -> SUBSET Request] /\ trapper[N] = {}
    BY DEF HistoryTypeOK
  <1>4. Link(n)
    BY <1>1
  <1>5. \A t \in trapper[n - 1] : ~t.alive
    BY <1>1, <1>4 DEF Link, OneConnection, HistoryTypeOK
  <1>6. \A m \in Slaves \ {n} : m - 1 # n - 1
    BY <1>1, SlaveMaster
  <1>7. n \in Nodes /\ n - 1 \in Nodes /\ n - 1 # N /\ n # 1 /\ n - 1 # n
    BY <1>1, SlaveMaster
  <1>8. CASE table = ZBX_HISTORY /\ watcher' = [watcher EXCEPT ![n] = Nobody] /\ UNCHANGED trapper
    <2>1. /\ watcher' \in [Nodes -> Watch \cup {Nobody}] /\ watcher'[1] = Nobody /\ watcher'[n] = Nobody
          /\ \A m \in Nodes \ {n} : watcher'[m] = watcher[m]
      BY <1>3, <1>8
    <2>2. HistoryTypeOK' /\ TablesFinite' /\ InsertedNew'
      BY <1>1, <1>2, <1>8, <2>1 DEF HistoryTypeOK, TablesFinite, InsertedNew
    <2>3. ASSUME NEW m \in Nodes PROVE AtNode(m)'
      BY <1>1, <1>2, <1>8, TwoTables DEF AtNode, PrimaryKey
    <2>4. ASSUME NEW m \in Slaves, m # n PROVE Link(m)'
      BY <1>1, <1>8, <2>1, <2>4, SlaveMaster, SameLink
    <2>5. Link(n)'
      <3>1. Has(n)' = Has(n) /\ Has(n - 1)' = Has(n - 1)
        BY <1>2, <1>7
      <3>2. (Nested(n) /\ OneConnection(n))'
        BY <1>4, <1>5, <1>8, <3>1 DEF Link, Nested, OneConnection
      <3>3. (MissingAbove(n) /\ RequestsWhole(n) /\ LastIdTrue(n))'
        BY <1>1, <1>4, <1>8, <2>1, <3>1 DEF Link, MissingAbove, RequestsWhole, LastIdTrue
      <3> QED BY <1>1, <1>8, <3>2, <3>3, TwoTables DEF Link
    <2> QED BY <2>2, <2>3, <2>4, <2>5
  <1>9. CASE /\ data # {}
             /\ watcher' = [watcher EXCEPT ![n] = [step |-> "recv", lastid |-> Max({row.id : row \in data})]]
             /\ trapper' = [trapper EXCEPT ![n - 1] =
                               @ \cup {[step |-> "insert", alive |-> TRUE, rows |-> data, no |-> stops]}]
    <2>1. PICK last, u : /\ last = Max({row.id : row \in data})
                         /\ u = [step |-> "insert", alive |-> TRUE, rows |-> data, no |-> stops]
      OBVIOUS
    <2> DEFINE S == {row \in Rows(n) : row.id > above}
    <2>2. /\ S \in SUBSET HistoryRow /\ IsFiniteSet(S) /\ S \subseteq Rows(n)
      BY <1>1, RowsFinite, FS_Subset
    <2>3. /\ data \subseteq S /\ IsFiniteSet(data)
          /\ \A q \in data, r \in S : r.id <= q.id => r \in data
      BY <1>1, <2>2, FirstRowsWhole
    <2>4. /\ data \in SUBSET HistoryRow /\ data \subseteq Rows(n) /\ Values(data) \subseteq Has(n)
      BY <1>1, <2>2, <2>3, RowsFinite DEF Values
    <2>5. last \in Nat /\ (\E r \in data : last = r.id) /\ \A r \in data : r.id <= last
      <3>1. PICK b \in Nat : \A row \in Rows(n) : row.id <= b
        BY <1>1, RowsFinite
      <3>2. \A row \in data : row.id <= b
        BY <2>4, <3>1
      <3> QED BY <1>9, <2>1, <2>4, <3>2, LastRowId
    <2>6. u \in Request /\ u.step = "insert" /\ u.alive /\ u.rows = data
      BY <1>3, <2>1, <2>4 DEF Request
    <2>7. /\ watcher' \in [Nodes -> Watch \cup {Nobody}] /\ watcher'[1] = Nobody
          /\ watcher'[n] = [step |-> "recv", lastid |-> last] /\ watcher'[n] \in Watch
          /\ \A m \in Nodes \ {n} : watcher'[m] = watcher[m]
          /\ trapper'[n - 1] = trapper[n - 1] \cup {u}
          /\ \A m \in Nodes \ {n - 1} : trapper'[m] = trapper[m]
          /\ trapper' \in [Nodes -> SUBSET Request] /\ trapper'[N] = {}
      BY <1>3, <1>7, <1>9, <2>1, <2>5, <2>6 DEF Watch
    <2>8. HistoryTypeOK' /\ InsertedNew'
      BY <1>1, <1>2, <2>7 DEF HistoryTypeOK, InsertedNew
    <2>9. TablesFinite'
      BY <1>1, <2>3, <2>6, <2>7 DEF TablesFinite
    <2>10. ASSUME NEW m \in Nodes PROVE AtNode(m)'
      <3>1. \A t \in trapper'[m] : t.step = "commit" => t \in trapper[m]
        BY <2>6, <2>7
      <3>2. table = ZBX_HISTORY => PrimaryKey(m)'
        BY <1>1, <1>2, <3>1 DEF AtNode, PrimaryKey
      <3>3. ASSUME table = ZBX_HISTORY_SYNC, m > 1 PROVE IdsApart(m)'
        <4>1. IdsApart(m)
          BY <3>3 DEF AtNode
        <4>2. m = n => \E r \in sync[n] : last = r.id
          BY <1>1, <2>4, <2>5, <3>3, RowsFinite
        <4>3. ASSUME NEW i, Apart(m, i) PROVE Apart(m, i)'
          BY <1>1, <2>7, <4>2, <4>3 DEF Apart
        <4>4. watcher'[m] # Nobody => watcher'[m].lastid <= ids'[m]
          <5>1. m = n => last <= ids[n]
            BY <2>5, <4>1, <4>2 DEF IdsApart, HistoryTypeOK
          <5> QED BY <1>1, <2>7, <4>1, <5>1 DEF IdsApart
        <4>5. (\A row \in sync[m] : row.id \in 1 .. ids[m] /\ row.value \in Has(m))'
          BY <1>1, <1>2, <4>1 DEF IdsApart
        <4>6. (m = N => \A w \in HistoryWriters : inserted[w] # Nobody => Apart(N, inserted[w]))'
          BY <1>1, <4>1, <4>3 DEF IdsApart
        <4>7. (\A t \in trapper[m] : t.step = "commit" => \A row \in t.rows : Apart(m, row.id))'
          BY <3>1, <4>1, <4>3 DEF IdsApart
        <4>8. (\A t, q \in trapper[m] : t.step = "commit" /\ q.step = "commit" /\ t # q =>
                 \A row \in t.rows, r \in q.rows : row.id # r.id)'
          BY <3>1, <4>1 DEF IdsApart
        <4> QED BY <4>4, <4>5, <4>6, <4>7, <4>8 DEF IdsApart
      <3> QED BY <1>1, <1>2, <3>2, <3>3 DEF AtNode, ThereOnce
    <2>11. ASSUME NEW m \in Slaves, m # n PROVE Link(m)'
      <3>1. m \in Nodes /\ m - 1 \in Nodes /\ m - 1 # n - 1
        BY <1>6, <2>11, SlaveMaster
      <3>2. watcher'[m] = watcher[m] /\ trapper'[m - 1] = trapper[m - 1]
        BY <2>7, <2>11, <3>1
      <3> QED BY <1>1, <3>2, SameLink
    <2>12. Link(n)'
      <3>1. Has(n)' = Has(n) /\ Has(n - 1)' = Has(n - 1)
        BY <1>2, <1>7
      <3>2. Nested(n)'
        BY <1>4, <2>4, <2>6, <2>7, <3>1 DEF Link, Nested
      <3>3. OneConnection(n)'
        BY <1>5, <2>6, <2>7 DEF OneConnection
      <3>4. ASSUME table = ZBX_HISTORY PROVE (MissingAbove(n) /\ RequestsWhole(n) /\ LastIdTrue(n))'
        <4>1. MissingAbove(n) /\ RequestsWhole(n) /\ LastIdTrue(n)
          BY <1>4, <3>4 DEF Link
        <4>2. ASSUME NEW row \in data, NEW v \in Has(n) \ late, v < row.value
              PROVE  v \in Values(data) \cup Has(n - 1)
          <5>1. CASE v <= above
            BY <1>1, <3>4, <4>1, <4>2, <5>1 DEF LastIdTrue
          <5>2. CASE ~(v <= above)
            <6>1. v \in Nat /\ above \in Nat
              BY <1>1, <1>3, <3>4, LastIdGreatest DEF Watch
            <6>2. [id |-> v, value |-> v] \in S
              BY <1>1, <3>4, <5>2, <6>1, RowsFinite
            <6>3. row.id = row.value
              BY <1>1, <2>4, <3>4, RowsFinite
            <6>4. [id |-> v, value |-> v] \in data
              BY <2>3, <2>4, <4>2, <6>1, <6>2, <6>3 DEF HistoryRow
            <6> QED BY <6>4 DEF Values
          <5> QED BY <5>1, <5>2
        <4>3. \A row \in data : row.id = row.value
          BY <1>1, <2>4, <3>4, RowsFinite
        <4>4. RequestsWhole(n)'
          BY <1>1, <2>6, <2>7, <3>1, <4>1, <4>2, <4>3 DEF RequestsWhole
        <4> QED BY <1>1, <2>7, <3>1, <4>1, <4>4 DEF MissingAbove, LastIdTrue
      <3>5. ASSUME table = ZBX_HISTORY_SYNC
            PROVE  /\ \A row \in sync[n] : row.id <= last => row \in data
                   /\ data \subseteq sync[n]
        <4>1. Rows(n) = sync[n] /\ \A row \in sync[n] : row.id \in 1 .. ids[n] /\ ids[n] \in Nat
          BY <1>1, <3>5, RowsFinite DEF HistoryTypeOK
        <4>2. S = sync[n]
          BY <1>1, <3>5, <4>1
        <4> QED BY <2>3, <2>5, <4>2
      <3>6. ASSUME table = ZBX_HISTORY_SYNC PROVE (MissingInTable(n) /\ DeletesSent(n))'
        <4>1. MissingInTable(n) /\ DeletesSent(n)
          BY <1>4, <3>6 DEF Link
        <4>2. \A row \in sync[n] : row.id <= last => row.value \in Values(data)
          BY <3>5, <3>6 DEF Values
        <4> QED BY <1>1, <1>5, <2>6, <2>7, <3>1, <4>1, <4>2 DEF MissingInTable, DeletesSent
      <3>7. ASSUME table = ZBX_HISTORY_SYNC, stops = 0 PROVE SentOnce(n)'
        <4>1. SentOnce(n)
          BY <1>4, <3>7 DEF Link
        <4>2. trapper'[n - 1] = {u}
          BY <1>5, <2>7, <3>7, <4>1 DEF SentOnce
        <4>3. DistinctValues(sync[n]) /\ DistinctValues(data)
          BY <3>5, <3>7, <4>1 DEF SentOnce, DistinctValues
        <4>4. \A row \in sync[n] : row.value \notin Has(n - 1)
          BY <1>1, <3>7, <4>1 DEF SentOnce
        <4>5. Values(data) \cap Has(n - 1) = {}
          BY <3>5, <3>7, <4>4 DEF Values
        <4>6. \A row \in sync[n] : row.value \in Values(data) => row.id <= last
          BY <2>5, <3>5, <3>7, <4>3 DEF Values, DistinctValues
        <4> QED BY <1>1, <2>6, <2>7, <3>1, <4>2, <4>3, <4>4, <4>5, <4>6 DEF SentOnce
      <3> QED BY <1>1, <3>2, <3>3, <3>4, <3>6, <3>7 DEF Link, SentOnce
    <2> QED BY <2>8, <2>9, <2>10, <2>11, <2>12
  <1> QED BY <1>1, <1>8, <1>9

(***************************************************************************)
(* Rows that become visible.                                               *)
(***************************************************************************)
LEMMA VisibleTypeOK ==
  ASSUME HistoryTypeOK, TablesFinite, NEW n \in Nodes, NEW data \in SUBSET HistoryRow, IsFiniteSet(data),
         Values(data) \subseteq 1 .. values, MadeVisible(n, data), UNCHANGED <<table, values, ids, watcher, stops>>,
         inserted' \in [HistoryWriters -> Nat \cup {Nobody}],
         trapper' \in [Nodes -> SUBSET Request], trapper'[N] = {},
         \A m \in Nodes : \A u \in trapper'[m] : \E t \in trapper[m] : u.rows = t.rows
  PROVE  HistoryTypeOK' /\ TablesFinite'
  <1>1. /\ DOMAIN hist' = Nodes
        /\ \A m \in Nodes : hist'[m] \in [Has(m)' -> Nat \ {0}]
        /\ Has(n)' = Has(n) \cup Values(data)
        /\ \A m \in Nodes : m # n => Has(m)' = Has(m) /\ sync'[m] = sync[m]
        /\ sync'[n] = IF table = ZBX_HISTORY_SYNC /\ n > 1 THEN sync[n] \cup data ELSE sync[n]
    BY VisibleChange
  <1>2. \A m \in Nodes : Has(m)' \subseteq 1 .. values
    BY <1>1 DEF HistoryTypeOK
  <1>3. sync' \in [Nodes -> SUBSET HistoryRow]
    BY DEF MadeVisible, HistoryTypeOK
  <1>4. HistoryTypeOK'
    BY <1>1, <1>2, <1>3 DEF HistoryTypeOK
  <1>5. IsFiniteSet(sync[n] \cup data)
    BY FS_Union DEF TablesFinite
  <1>6. \A m \in Nodes : IsFiniteSet(sync'[m])
    BY <1>1, <1>5 DEF TablesFinite
  <1> QED BY <1>4, <1>6 DEF TablesFinite

(* What a slave's own rows change between it and its master: a row that    *)
(* comes too late is late.                                                 *)
LEMMA VisibleLink ==
  ASSUME HistoryInv, NEW n \in Slaves, NEW data \in SUBSET HistoryRow, MadeVisible(n, data),
         UNCHANGED <<table, ids, watcher, stops>>, trapper'[n - 1] = trapper[n - 1],
         Values(data) \subseteq 1 .. values,
         table = ZBX_HISTORY => \A row \in data : row.id = row.value,
         table = ZBX_HISTORY_SYNC =>
            /\ watcher[n] # Nobody => \A row \in data : watcher[n].lastid # row.id
            /\ stops = 0 => Values(data) \cap Has(n) = {} /\ DistinctValues(data)
  PROVE  Link(n)'
  <1> USE NobodyApart DEF HistoryInv
  <1>1. n \in Nodes /\ n - 1 \in Nodes /\ n > 1 /\ n - 1 # n
    BY SlaveMaster
  <1>2. /\ Has(n)' = Has(n) \cup Values(data) /\ Has(n - 1)' = Has(n - 1)
        /\ sync'[n] = IF table = ZBX_HISTORY_SYNC THEN sync[n] \cup data ELSE sync[n]
        /\ late \subseteq late'
        /\ \A row \in data : PassedOver(n, row.id) => row.value \in late'
    BY <1>1, VisibleChange
  <1>3. Link(n)
    OBVIOUS
  <1>4. (Nested(n) /\ OneConnection(n))'
    BY <1>2, <1>3 DEF Link, Nested, OneConnection
  <1>5. ASSUME table = ZBX_HISTORY PROVE (MissingAbove(n) /\ RequestsWhole(n) /\ LastIdTrue(n))'
    <2>1. MissingAbove(n) /\ RequestsWhole(n) /\ LastIdTrue(n)
      BY <1>3, <1>5 DEF Link
    <2>2. /\ LastIdAt(n - 1) \in Nat
          /\ \A u \in Has(n - 1) : u \in Nat \ {0} /\ u <= LastIdAt(n - 1)
      BY <1>1, LastIdGreatest
    <2>3. ASSUME NEW v \in Has(n)' \ late', v \notin Has(n)
          PROVE  /\ v \in Nat \ {0} /\ ~(v < LastIdAt(n - 1))
                 /\ \A t \in trapper[n - 1] : \A row \in t.rows : ~(v < row.value)
      <3>1. PICK new \in data : new.value = v /\ new.id = v
        BY <1>2, <1>5, <2>3 DEF Values
      <3>2. ~PassedOver(n, v)
        BY <1>2, <2>3, <3>1
      <3>3. v \in Nat \ {0}
        <4>1. v \in Values(data)
          BY <3>1 DEF Values
        <4>2. values \in Nat
          BY DEF HistoryTypeOK
        <4> QED BY <4>1, <4>2
      <3>4. /\ ~(v < LastIdAt(n - 1))
            /\ ~ \E t \in trapper[n - 1] : \E row \in t.rows : v < row.value
        BY <1>1, <1>5, <3>2, TwoTables DEF PassedOver
      <3> QED BY <3>3, <3>4
    <2>4. MissingAbove(n)'
      <3> SUFFICES ASSUME NEW v \in Has(n)' \ late', v \notin Has(n - 1), NEW u \in Has(n - 1) PROVE u < v
        BY <1>2 DEF MissingAbove
      <3>1. CASE v \in Has(n)
        BY <1>2, <2>1, <3>1 DEF MissingAbove
      <3>2. CASE v \notin Has(n)
        BY <2>2, <2>3, <3>2
      <3> QED BY <3>1, <3>2
    <2>5. RequestsWhole(n)'
      <3> SUFFICES ASSUME NEW t \in trapper[n - 1], NEW row \in t.rows
                   PROVE  /\ row.id = row.value
                          /\ \A v \in Has(n)' \ late' : v < row.value => v \in Values(t.rows) \cup Has(n - 1)
        BY <1>2 DEF RequestsWhole
      <3>1. row.id = row.value /\ \A v \in Has(n) \ late : v < row.value => v \in Values(t.rows) \cup Has(n - 1)
        BY <2>1 DEF RequestsWhole
      <3> QED BY <1>2, <2>3, <3>1
    <2>6. LastIdTrue(n)'
      <3> SUFFICES ASSUME watcher[n] # Nobody, watcher[n].step = "select"
                   PROVE  /\ watcher[n].lastid \in Has(n - 1) \cup {0}
                          /\ \A v \in Has(n)' \ late' : v <= watcher[n].lastid => v \in Has(n - 1)
        BY <1>2 DEF LastIdTrue
      <3>1. /\ watcher[n].lastid \in Has(n - 1) \cup {0}
            /\ \A v \in Has(n) \ late : v <= watcher[n].lastid => v \in Has(n - 1)
        BY <2>1 DEF LastIdTrue
      <3>2. ASSUME NEW v \in Has(n)' \ late', v \notin Has(n), v <= watcher[n].lastid PROVE v \in Has(n - 1)
        <4>1. v = watcher[n].lastid /\ watcher[n].lastid # 0
          BY <2>2, <2>3, <3>1, <3>2
        <4> QED BY <3>1, <4>1
      <3> QED BY <1>2, <3>1, <3>2
    <2> QED BY <2>4, <2>5, <2>6
  <1>6. ASSUME table = ZBX_HISTORY_SYNC PROVE MissingInTable(n)'
    BY <1>2, <1>3, <1>6 DEF Link, MissingInTable, Values
  <1>7. ASSUME table = ZBX_HISTORY_SYNC PROVE DeletesSent(n)'
    <2>1. DeletesSent(n) /\ OneConnection(n)
      BY <1>3, <1>7 DEF Link
    <2>2. ASSUME NEW row \in data, watcher[n] # Nobody, row.id <= watcher[n].lastid PROVE row.value \in late'
      <3>1. watcher[n].lastid # row.id /\ watcher[n].lastid \in Nat /\ row.id \in Nat
        BY <1>1, <1>7, <2>2 DEF HistoryTypeOK, Watch, HistoryRow
      <3>2. row.id < watcher[n].lastid
        BY <2>2, <3>1
      <3> QED BY <1>1, <1>2, <1>7, <2>2, <3>2 DEF PassedOver
    <2>3. watcher[n] # Nobody => \A row \in sync'[n] : row.id <= watcher[n].lastid =>
             row \in sync[n] \/ row.value \in late'
      BY <1>2, <2>2
    <2>4. \A t \in trapper[n - 1] : t.alive => watcher[n] # Nobody
      BY <2>1 DEF OneConnection
    <2> QED BY <1>2, <2>1, <2>3, <2>4 DEF DeletesSent
  <1>8. ASSUME table = ZBX_HISTORY_SYNC, stops = 0 PROVE SentOnce(n)'
    <2>1. SentOnce(n) /\ Nested(n) /\ IdsApart(n)
      BY <1>1, <1>3, <1>8 DEF Link, AtNode
    <2>2. sync'[n] = sync[n] \cup data
      BY <1>2, <1>8
    <2>3. \A row \in sync[n] : row.value \in Has(n)
      BY <2>1 DEF IdsApart
    <2>4. \A row \in data : row.value \notin Has(n)
      BY <1>8 DEF Values
    <2>5. DistinctValues(sync[n])'
      BY <1>8, <2>1, <2>2, <2>3, <2>4 DEF SentOnce, DistinctValues
    <2>6. \A row \in data : row.value \notin Has(n - 1) /\ \A t \in trapper[n - 1] : row.value \notin Values(t.rows)
      BY <2>1, <2>4 DEF Nested
    <2> QED BY <1>2, <1>8, <2>1, <2>2, <2>5, <2>6 DEF SentOnce
  <1> QED BY <1>4, <1>5, <1>6, <1>7, <1>8 DEF Link, SentOnce

LEMMA HistoryCommitInv == ASSUME HistoryInv, NEW w \in HistoryWriters, HistoryCommit(w) PROVE HistoryInv'
  <1> USE NobodyApart DEF HistoryInv
  <1>1. PICK v, data :
           /\ v = inserted[w] /\ v # Nobody
           /\ data = {[id |-> v, value |-> v]}
           /\ MadeVisible(N, data)
           /\ inserted' = [inserted EXCEPT ![w] = Nobody]
           /\ UNCHANGED <<table, values, ids, watcher, trapper, stops>>
    BY DEF HistoryCommit
  <1>2. v \in 1 .. values /\ v \notin Has(N) /\ values \in Nat
    BY <1>1 DEF InsertedNew, HistoryTypeOK
  <1>3. data \in SUBSET HistoryRow /\ IsFiniteSet(data) /\ Values(data) = {v} /\ DistinctValues(data)
    <2>1. [id |-> v, value |-> v] \in HistoryRow
      BY <1>2 DEF HistoryRow
    <2>2. IsFiniteSet(data)
      BY <1>1, FS_Singleton
    <2>3. \A row \in data : row = [id |-> v, value |-> v]
      BY <1>1
    <2> QED BY <1>1, <2>1, <2>2, <2>3 DEF Values, DistinctValues
  <1>4. inserted \in [HistoryWriters -> Nat \cup {Nobody}] /\ trapper \in [Nodes -> SUBSET Request] /\ trapper[N] = {}
    BY DEF HistoryTypeOK
  <1>5. /\ inserted' \in [HistoryWriters -> Nat \cup {Nobody}]
        /\ \A x \in HistoryWriters : inserted'[x] = IF x = w THEN Nobody ELSE inserted[x]
    BY <1>1, <1>4
  <1>6. HistoryTypeOK' /\ TablesFinite'
    BY <1>1, <1>2, <1>3, <1>4, <1>5, VisibleTypeOK
  <1>7. /\ Has(N)' = Has(N) \cup {v}
        /\ \A m \in Nodes : m # N => hist'[m] = hist[m] /\ Has(m)' = Has(m) /\ sync'[m] = sync[m]
        /\ \A u \in Has(N) : hist'[N][u] = hist[N][u]
        /\ hist'[N][v] = 1
        /\ sync'[N] = IF table = ZBX_HISTORY_SYNC /\ N > 1 THEN sync[N] \cup data ELSE sync[N]
        /\ late \subseteq late'
    <2>1. /\ Has(N)' = Has(N) \cup Values(data)
          /\ \A m \in Nodes : m # N => hist'[m] = hist[m] /\ Has(m)' = Has(m) /\ sync'[m] = sync[m]
          /\ \A u \in Has(N) \ Values(data) : hist'[N][u] = hist[N][u]
          /\ \A u \in Values(data) \ Has(N) : hist'[N][u] = 1
          /\ sync'[N] = IF table = ZBX_HISTORY_SYNC /\ N > 1 THEN sync[N] \cup data ELSE sync[N]
          /\ late \subseteq late'
      <3>1. HistoryTypeOK /\ N \in Nodes /\ MadeVisible(N, data)
        BY <1>1
      <3> HIDE DEF HistoryInv
      <3> QED BY <3>1, VisibleChange
    <2> QED BY <1>2, <1>3, <2>1
  <1>8. InsertedNew'
    BY <1>1, <1>5, <1>7 DEF InsertedNew
  <1>9. ASSUME NEW m \in Nodes, m # N PROVE AtNode(m)'
    BY <1>1, <1>7, <1>9, SameNode
  <1>10. AtNode(N)'
    <2>1. table = ZBX_HISTORY => PrimaryKey(N)'
      BY <1>1, <1>4, <1>7 DEF AtNode, PrimaryKey
    <2>2. table = ZBX_HISTORY_SYNC => ThereOnce(N)'
      BY <1>1, <1>7 DEF AtNode, ThereOnce
    <2>3. ASSUME table = ZBX_HISTORY_SYNC, N > 1 PROVE IdsApart(N)'
      <3>1. IdsApart(N) /\ sync'[N] = sync[N] \cup data /\ Apart(N, v)
        BY <1>1, <1>7, <2>3 DEF AtNode, IdsApart
      <3>2. ASSUME NEW i, Apart(N, i), i # v PROVE Apart(N, i)'
        BY <1>1, <3>1, <3>2 DEF Apart
      <3>3. (\A x \in HistoryWriters : inserted[x] # Nobody => Apart(N, inserted[x]))'
        <4> SUFFICES ASSUME NEW x \in HistoryWriters, inserted'[x] # Nobody PROVE Apart(N, inserted[x])'
          OBVIOUS
        <4>1. PICK i : i = inserted[x] /\ i = inserted'[x] /\ Apart(N, i) /\ i # v
          BY <1>1, <1>5, <3>1 DEF IdsApart, InsertedNew
        <4>2. Apart(N, i)'
          BY <3>2, <4>1
        <4> QED BY <4>1, <4>2 DEF Apart
      <3>4. (\A row \in sync[N] : row.id \in 1 .. ids[N] /\ row.value \in Has(N))'
        BY <1>1, <1>7, <3>1 DEF IdsApart, Apart
      <3> QED BY <1>1, <1>4, <3>1, <3>3, <3>4 DEF IdsApart
    <2> QED BY <1>1, <2>1, <2>2, <2>3 DEF AtNode
  <1>11. ASSUME NEW m \in Slaves, m # N PROVE Link(m)'
    <2>1. m - 1 # N /\ m \in Nodes /\ m - 1 \in Nodes
      BY SlaveMaster
    <2> QED BY <1>1, <1>7, <1>11, <2>1, SameLink
  <1>12. ASSUME N \in Slaves PROVE Link(N)'
    <2>1. \A row \in data : row.id = v /\ row.value = v
      BY <1>1
    <2>2. table = ZBX_HISTORY_SYNC => (watcher[N] # Nobody => watcher[N].lastid # v)
      BY <1>1, <1>12, SlaveMaster DEF AtNode, IdsApart, Apart
    <2>3. Values(data) \subseteq 1 .. values /\ Values(data) \cap Has(N) = {}
      BY <1>2, <1>3
    <2> QED BY <1>1, <1>3, <1>12, <2>1, <2>2, <2>3, VisibleLink
  <1> QED BY <1>6, <1>8, <1>9, <1>10, <1>11, <1>12

LEMMA CommitsInv ==
  ASSUME HistoryInv, NEW n \in Nodes, NEW t \in trapper[n], Commits(n, t) PROVE HistoryInv'
  <1> USE NobodyApart DEF HistoryInv
  <1>1. PICK s \in Slaves : /\ s = n + 1 /\ s - 1 = n /\ s \in Nodes /\ n # N /\ s # n
                           /\ t \in Request /\ s # 1
                           /\ \A m \in Slaves : m - 1 = n => m = s
    BY SlaveOfTrapper, SlaveMaster
  <1>2. PICK u : u = [t EXCEPT !.step = "answer"]
    OBVIOUS
  <1>3. u \in Request /\ u.step = "answer" /\ u.rows = t.rows /\ u.alive = t.alive
    BY <1>1, <1>2 DEF Request
  <1>4. /\ t.step = "commit" /\ MadeVisible(n, t.rows)
        /\ trapper' = [trapper EXCEPT ![n] = (@ \ {t}) \cup {u}]
        /\ UNCHANGED <<table, values, inserted, ids, watcher, stops>>
    BY <1>2 DEF Commits, Becomes
  <1>5. Link(s) /\ AtNode(n)
    OBVIOUS
  <1>6. /\ t.rows \in SUBSET HistoryRow /\ IsFiniteSet(t.rows) /\ Values(t.rows) \subseteq Has(s)
        /\ Values(t.rows) \subseteq 1 .. values
    <2>1. t.rows \in SUBSET HistoryRow /\ IsFiniteSet(t.rows) /\ Values(t.rows) \subseteq Has(s)
      BY <1>1, <1>5 DEF Request, TablesFinite, Link, Nested
    <2> QED BY <1>1, <2>1 DEF HistoryTypeOK
  <1>7. /\ trapper' \in [Nodes -> SUBSET Request] /\ trapper'[N] = {}
        /\ trapper'[n] = (trapper[n] \ {t}) \cup {u}
        /\ \A m \in Nodes \ {n} : trapper'[m] = trapper[m]
        /\ \A q \in trapper'[n] : q = u \/ (q \in trapper[n] /\ q # t)
    <2>1. trapper \in [Nodes -> SUBSET Request] /\ trapper[N] = {}
      BY DEF HistoryTypeOK
    <2> QED BY <1>1, <1>3, <1>4, <2>1
  <1>8. HistoryTypeOK' /\ TablesFinite'
    <2>1. \A m \in Nodes : \A q \in trapper'[m] : \E r \in trapper[m] : q.rows = r.rows
      BY <1>3, <1>7
    <2>2. inserted' \in [HistoryWriters -> Nat \cup {Nobody}]
      BY <1>4 DEF HistoryTypeOK
    <2> QED BY <1>4, <1>6, <1>7, <2>1, <2>2, VisibleTypeOK
  <1>9. /\ Has(n)' = Has(n) \cup Values(t.rows)
        /\ \A m \in Nodes : m # n => hist'[m] = hist[m] /\ Has(m)' = Has(m) /\ sync'[m] = sync[m]
        /\ \A v \in Has(n) \ Values(t.rows) : hist'[n][v] = hist[n][v]
        /\ \A v \in Values(t.rows) \ Has(n) : hist'[n][v] = 1
        /\ sync'[n] = IF table = ZBX_HISTORY_SYNC /\ n > 1 THEN sync[n] \cup t.rows ELSE sync[n]
        /\ late \subseteq late'
    BY <1>4, VisibleChange
  <1>10. InsertedNew'
    BY <1>1, <1>4, <1>9 DEF InsertedNew
  <1>11. table = ZBX_HISTORY_SYNC /\ stops = 0 =>
            /\ \A q \in trapper[n] : q = t
            /\ t.alive /\ DistinctValues(t.rows) /\ Values(t.rows) \cap Has(n) = {}
    <2> SUFFICES ASSUME table = ZBX_HISTORY_SYNC, stops = 0
                 PROVE  /\ \A q \in trapper[n] : q = t
                        /\ t.alive /\ DistinctValues(t.rows) /\ Values(t.rows) \cap Has(n) = {}
      OBVIOUS
    <2>1. SentOnce(s) /\ OneConnection(s)
      BY <1>5 DEF Link
    <2> QED BY <1>1, <1>4, <2>1 DEF SentOnce, OneConnection
  <1>12. table = ZBX_HISTORY =>
            Values(t.rows) \cap Has(n) = {} /\ \A q \in trapper[n] : \A row \in q.rows : row.id = row.value
    BY <1>1, <1>4, <1>5 DEF AtNode, PrimaryKey, Link, RequestsWhole
  <1>13. ASSUME NEW m \in Nodes, m # n PROVE AtNode(m)'
    BY <1>4, <1>7, <1>9, <1>13, SameNode
  <1>14. AtNode(n)'
    <2>1. ASSUME table = ZBX_HISTORY PROVE PrimaryKey(n)'
      <3>1. PrimaryKey(n)
        BY <1>5, <2>1 DEF AtNode
      <3>2. (\A v \in Has(n) : hist[n][v] = 1)'
        BY <1>9, <1>12, <2>1, <3>1 DEF PrimaryKey
      <3>3. \A q \in trapper'[n] : q.step = "commit" => q \in trapper[n] /\ q # t
        BY <1>3, <1>7
      <3>4. ASSUME NEW q \in trapper[n], q.step = "commit", q # t PROVE Values(q.rows) \cap Values(t.rows) = {}
        <4>1. q.rows \cap t.rows = {} /\ q.rows \in SUBSET HistoryRow
          BY <1>4, <3>1, <3>4 DEF PrimaryKey, HistoryTypeOK, Request
        <4>2. ASSUME NEW row \in q.rows, NEW r \in t.rows, row.value = r.value PROVE FALSE
          <5>1. row = r
            BY <1>6, <1>12, <2>1, <4>1, <4>2 DEF HistoryRow
          <5> QED BY <4>1, <5>1
        <4> QED BY <4>2 DEF Values
      <3>5. (\A q \in trapper[n] : q.step = "commit" => Values(q.rows) \cap Has(n) = {})'
        BY <1>9, <3>1, <3>3, <3>4 DEF PrimaryKey
      <3> QED BY <3>1, <3>2, <3>3, <3>5 DEF PrimaryKey
    <2>2. table = ZBX_HISTORY_SYNC => ThereOnce(n)'
      BY <1>4, <1>5, <1>9, <1>11 DEF AtNode, ThereOnce
    <2>3. ASSUME table = ZBX_HISTORY_SYNC, n > 1 PROVE IdsApart(n)'
      <3>1. IdsApart(n) /\ sync'[n] = sync[n] \cup t.rows
        BY <1>5, <1>9, <2>3 DEF AtNode
      <3>2. ASSUME NEW i, Apart(n, i), \A row \in t.rows : row.id # i PROVE Apart(n, i)'
        BY <1>4, <3>1, <3>2 DEF Apart
      <3>3. \A q \in trapper'[n] : q.step = "commit" => q \in trapper[n] /\ q # t
        BY <1>3, <1>7
      <3>4. (\A q \in trapper[n] : q.step = "commit" => \A row \in q.rows : Apart(n, row.id))'
        BY <1>4, <3>1, <3>2, <3>3 DEF IdsApart
      <3>5. (\A row \in sync[n] : row.id \in 1 .. ids[n] /\ row.value \in Has(n))'
        BY <1>4, <1>9, <3>1 DEF IdsApart, Apart, Values
      <3>6. (\A q, r \in trapper[n] : q.step = "commit" /\ r.step = "commit" /\ q # r =>
               \A row \in q.rows, x \in r.rows : row.id # x.id)'
        BY <3>1, <3>3 DEF IdsApart
      <3>7. (watcher[n] # Nobody => watcher[n].lastid <= ids[n])'
        BY <1>4, <3>1 DEF IdsApart
      <3> QED BY <1>1, <3>4, <3>5, <3>6, <3>7 DEF IdsApart
    <2> QED BY <1>4, <2>1, <2>2, <2>3 DEF AtNode
  <1>15. ASSUME NEW m \in Slaves, m # n, m # s PROVE Link(m)'
    <2>1. m - 1 # n /\ m \in Nodes /\ m - 1 \in Nodes
      BY <1>1, <1>15, SlaveMaster
    <2> QED BY <1>4, <1>7, <1>9, <1>15, <2>1, SameLink
  <1>16. ASSUME n \in Slaves PROVE Link(n)'
    <2>1. trapper'[n - 1] = trapper[n - 1]
      BY <1>7, <1>16, SlaveMaster
    <2>2. table = ZBX_HISTORY_SYNC => (watcher[n] # Nobody => \A row \in t.rows : watcher[n].lastid # row.id)
      BY <1>4, <1>5, <1>16, SlaveMaster DEF AtNode, IdsApart, Apart
    <2> QED BY <1>4, <1>6, <1>11, <1>12, <1>16, <2>1, <2>2, VisibleLink
  <1>17. Link(s)'
    <2>1. /\ Has(s)' = Has(s) /\ Has(s - 1)' = Has(s - 1) \cup Values(t.rows) /\ sync'[s] = sync[s]
          /\ t \in trapper[s - 1] /\ u \in trapper'[s - 1]
          /\ \A q \in trapper'[s - 1] : q = u \/ (q \in trapper[s - 1] /\ q # t)
      BY <1>1, <1>7, <1>9
    <2>2. Nested(s)'
      BY <1>3, <1>5, <1>6, <2>1 DEF Link, Nested
    <2>3. OneConnection(s)'
      BY <1>3, <1>4, <1>5, <2>1 DEF Link, OneConnection
    <2>4. ASSUME table = ZBX_HISTORY PROVE (MissingAbove(s) /\ RequestsWhole(s) /\ LastIdTrue(s))'
      <3>1. MissingAbove(s) /\ RequestsWhole(s) /\ LastIdTrue(s)
        BY <1>5, <2>4 DEF Link
      <3>2. MissingAbove(s)'
        <4> SUFFICES ASSUME NEW v \in Has(s) \ late', v \notin Has(s - 1), v \notin Values(t.rows),
                            NEW r \in Has(s - 1) \cup Values(t.rows)
                     PROVE  r < v
          BY <2>1 DEF MissingAbove
        <4>1. CASE r \in Has(s - 1)
          BY <1>9, <3>1, <4>1 DEF MissingAbove
        <4>2. CASE r \in Values(t.rows)
          <5>1. PICK row \in t.rows : row.value = r
            BY <4>2 DEF Values
          <5>2. ~(v < r)
            BY <1>9, <2>1, <3>1, <5>1 DEF RequestsWhole
          <5>3. v \in 1 .. values /\ r \in 1 .. values /\ values \in Nat
            BY <1>1, <1>6, <4>2 DEF HistoryTypeOK
          <5>4. v # r
            BY <4>2
          <5> QED BY <5>2, <5>3, <5>4
        <4> QED BY <4>1, <4>2
      <3>3. RequestsWhole(s)'
        BY <1>3, <1>9, <2>1, <3>1 DEF RequestsWhole
      <3>4. LastIdTrue(s)'
        BY <1>4, <1>9, <2>1, <3>1 DEF LastIdTrue
      <3> QED BY <3>2, <3>3, <3>4
    <2>5. ASSUME table = ZBX_HISTORY_SYNC PROVE (MissingInTable(s) /\ DeletesSent(s))'
      <3>1. MissingInTable(s) /\ DeletesSent(s)
        BY <1>5, <2>5 DEF Link
      <3> QED BY <1>3, <1>4, <1>9, <2>1, <3>1 DEF MissingInTable, DeletesSent
    <2>6. ASSUME table = ZBX_HISTORY_SYNC, stops = 0 PROVE SentOnce(s)'
      <3>1. SentOnce(s) /\ OneConnection(s)
        BY <1>5, <2>6 DEF Link
      <3>2. \A q \in trapper'[s - 1] : q = u
        BY <1>1, <1>11, <2>1, <2>6
      <3>3. watcher[s] # Nobody
        BY <1>11, <2>1, <2>6, <3>1 DEF OneConnection
      <3>4. \A row \in sync[s] : row.value \in Has(s - 1) \cup Values(t.rows) => row.id <= watcher[s].lastid
        BY <1>4, <2>1, <2>6, <3>1 DEF SentOnce
      <3> QED BY <1>3, <1>4, <1>11, <2>1, <2>6, <3>1, <3>2, <3>3, <3>4 DEF SentOnce
    <2> QED BY <1>4, <2>2, <2>3, <2>4, <2>5, <2>6 DEF Link, SentOnce
  <1> QED BY <1>8, <1>10, <1>13, <1>14, <1>15, <1>16, <1>17

-----------------------------------------------------------------------------
LEMMA HistoryStep == ASSUME HistoryInv, [HistoryNext]_historyVars PROVE HistoryInv'
  <1>1. CASE \E w \in HistoryWriters : DCmass_add_history(w) \/ HistoryCommit(w)
    BY <1>1, AddHistoryInv, HistoryCommitInv
  <1>2. ASSUME NEW n \in Nodes, process_history_table_data(n) PROVE HistoryInv'
    BY <1>2, LastIdInv, SendInv, DeleteSentInv, NotOKInv DEF process_history_table_data
  <1>3. ASSUME NEW n \in Nodes, StopWatcher(n) PROVE HistoryInv'
    BY <1>3, StopWatcherInv
  <1>4. ASSUME NEW n \in Nodes, NEW t \in trapper[n], node_history(n, t) \/ StopTrapper(n, t) PROVE HistoryInv'
    BY <1>4, InsertsInv, CommitsInv, AnswersOKInv, StopTrapperInv DEF node_history
  <1>5. CASE UNCHANGED historyVars
    <2>1. /\ UNCHANGED <<table, values, inserted, hist, sync, ids, watcher, trapper, late, stops>>
      BY <1>5 DEF historyVars, copied
    <2>2. (HistoryTypeOK /\ TablesFinite /\ InsertedNew)'
      BY <2>1 DEF HistoryInv, HistoryTypeOK, TablesFinite, InsertedNew, Has
    <2>3. ASSUME NEW n \in Nodes PROVE AtNode(n)'
      BY <2>1, SameNode DEF HistoryInv
    <2>4. ASSUME NEW n \in Slaves PROVE Link(n)'
      BY <2>1, SameLink DEF HistoryInv
    <2> QED BY <2>2, <2>3, <2>4 DEF HistoryInv
  <1> QED BY <1>1, <1>2, <1>3, <1>4, <1>5 DEF HistoryNext

(* The inductive invariant holds of every behaviour of a chain of nodes:   *)
(* select, insert, delete and the last id asked of the master keep, at     *)
(* each link, every row either with the master or where the slave will     *)
(* still send it from.                                                     *)
THEOREM HistoryInvariance == HistorySpec => []HistoryInv
  BY HistoryInitInv, HistoryStep, PTL DEF HistorySpec

-----------------------------------------------------------------------------
(* From one link to the chain.                                             *)

LEMMA NestedUp ==
  ASSUME HistoryInv, NEW n \in Nodes, NEW m \in Nodes, n <= m
  PROVE  Has(n) \subseteq Has(m)
  <1> SUFFICES ASSUME NEW v \in Has(n), v \notin Has(m) PROVE FALSE
    OBVIOUS
  <1> DEFINE Without == {k \in Nodes : n <= k /\ v \notin Has(k)}
  <1>1. Without \in SUBSET Nat /\ Without # {}
    BY NobodyApart
  <1>2. PICK k \in Without : \A i \in Without : k <= i
    <2> HIDE DEF Without
    <2> QED BY <1>1, LeastNumber
  <1>3. k # n /\ k > n
    BY NobodyApart
  <1>4. k \in Slaves /\ k - 1 \in Nodes /\ n <= k - 1
    BY <1>3, NobodyApart DEF Slaves, Nodes
  <1>5. k - 1 \notin Without
    BY <1>2, <1>4, NobodyApart
  <1>6. v \in Has(k - 1) /\ Has(k - 1) \subseteq Has(k)
    BY <1>4, <1>5 DEF HistoryInv, Link, Nested
  <1> QED BY <1>6

(* The nearest slave of n that has a value.                                *)
LEMMA NearestWith ==
  ASSUME HistoryInv, NEW n \in Nodes, NEW v \in Has(N), v \notin Has(n)
  PROVE  \E m \in Slaves : m > n /\ v \in Has(m) /\ v \notin Has(m - 1)
  <1> DEFINE With == {k \in Nodes : n <= k /\ v \in Has(k)}
  <1>1. With \in SUBSET Nat /\ With # {}
    BY NobodyApart DEF Nodes
  <1>2. PICK m \in With : \A i \in With : m <= i
    <2> HIDE DEF With
    <2> QED BY <1>1, LeastNumber
  <1>3. m # n /\ m > n
    BY NobodyApart
  <1>4. m \in Slaves /\ m - 1 \in Nodes /\ n <= m - 1
    BY <1>3, NobodyApart DEF Slaves, Nodes
  <1>5. m - 1 \notin With
    BY <1>2, <1>4, NobodyApart
  <1> QED BY <1>3, <1>4, <1>5

LEMMA LastIsN == ASSUME HistoryTypeOK PROVE Last = N
  <1>1. DOMAIN hist = Nodes /\ N \in Nodes /\ N + 1 \notin Nodes
    BY NobodyApart DEF HistoryTypeOK, Nodes
  <1>2. \A n \in Nodes : n + 1 \notin Nodes => n = N
    BY NobodyApart
  <1> QED BY <1>1, <1>2 DEF Last

LEMMA InvAccounted == HistoryInv => HistoryAccounted
  <1> SUFFICES ASSUME HistoryInv, NEW v \in Has(N) \ late, NEW n \in Nodes \ {N}
               PROVE  \/ Times(n, v) = 0 /\ StillToSend(n, v)
                      \/ Times(n, v) = 1
                      \/ Times(n, v) > 1 /\ stops > 0
    BY LastIsN DEF HistoryAccounted, HistoryInv, HistoryTypeOK, Has
  <1> USE DEF HistoryInv
  <1>1. /\ hist[n] \in [Has(n) -> Nat \ {0}] /\ stops \in Nat
        /\ table \in {ZBX_HISTORY, ZBX_HISTORY_SYNC}
    BY DEF HistoryTypeOK
  <1>2. CASE v \in Has(n)
    <2>1. Times(n, v) = hist[n][v] /\ hist[n][v] \in Nat \ {0}
      BY <1>1, <1>2 DEF Times, BagIn, Has
    <2>2. stops = 0 \/ table = ZBX_HISTORY => hist[n][v] = 1
      BY <1>1, <1>2 DEF AtNode, PrimaryKey, ThereOnce
    <2> QED BY <1>1, <2>1, <2>2
  <1>3. CASE v \notin Has(n)
    <2>1. Times(n, v) = 0
      BY <1>3 DEF Times, BagIn, Has
    <2>2. PICK m \in Slaves : m > n /\ v \in Has(m) /\ v \notin Has(m - 1)
      BY <1>3, NearestWith
    <2>3. m - 1 \in Nodes /\ m \in Nodes /\ n <= m - 1
      <3>1. m - 1 \in Nodes /\ m \in Nodes
        BY SlaveMaster
      <3>2. m \in Nat /\ n \in Nat
        BY <3>1, NobodyApart
      <3> QED BY <2>2, <3>1, <3>2
    <2>4. CASE table = ZBX_HISTORY
      <3>1. \A u \in Has(m - 1) : u < v
        BY <2>2, <2>4 DEF Link, MissingAbove
      <3>2. Has(n) \subseteq Has(m - 1)
        BY <2>3, NestedUp
      <3>3. LastIdAt(n) \in Has(n) \cup {0} /\ LastIdAt(n) \in Nat
        BY LastIdGreatest
      <3>4. v \in Nat \ {0}
        BY NobodyApart, LastIdGreatest
      <3>5. LastIdAt(n) < v
        BY <3>1, <3>2, <3>3, <3>4
      <3>6. v > LastIdAt(n)
        BY <3>3, <3>4, <3>5
      <3> QED BY <2>1, <2>4, <3>6, TwoTables DEF StillToSend
    <2>5. CASE table = ZBX_HISTORY_SYNC
      <3>1. v \in Values(sync[m])
        BY <2>2, <2>5 DEF Link, MissingInTable
      <3>2. m \in DOMAIN sync
        BY <2>3 DEF HistoryTypeOK
      <3> QED BY <2>1, <2>2, <2>5, <3>1, <3>2 DEF StillToSend
    <2> QED BY <1>1, <2>4, <2>5
  <1> QED BY <1>2, <1>3

(* history.c, process_history_tables and process_history_table_data: no    *)
(* value of a node is passed over on its way to the masters above it, and  *)
(* none is at a master twice before something is stopped.                  *)
THEOREM HistoryReachesMasters == HistorySpec => []HistoryAccounted
  BY HistoryInvariance, InvAccounted, PTL
=============================================================================
