------------------------- MODULE ActiveChecks_proofs -------------------------
(***************************************************************************)
(* Proofs about ActiveChecks, for any items, patterns and size of the      *)
(* buffer and any number of lines and faults.                              *)
(***************************************************************************)
EXTENDS ActiveChecks, SequenceTheorems, WellFoundedInduction, TLAPS

Metric == [lastlogsize: Nat, status: {"active", "notsupported"}]

Value == [item: Items, line: Nat \cup {None}, lastlogsize: Nat]

Request == [values: Seq(Value), done: BOOLEAN]

(* None is no line, metric or request, and the buffer holds a value.       *)
Distinct ==
    /\ None \notin Nat /\ None \notin Metric /\ None \notin Request
    /\ CONFIG_BUFFER_SIZE \in Nat \ {0}

Types ==
    /\ file \in [Items -> Seq(Nat)] /\ written \in [Items -> Nat]
    /\ metrics \in [Items -> Metric \cup {None}]
    /\ buffer \in Seq(Value) /\ received \in Seq(Value)
    /\ pending \in Value \cup {None}
    /\ request # None => request \in Request /\ request.values = buffer
    /\ \A r \in late : r.values \in Seq(Value)
    /\ DOMAIN dropped = Items /\ DOMAIN refused = Items
    /\ faults \in Nat

(* The value is not from beyond the end of its file.                       *)
Within(v) == v.item \notin truncated => v.lastlogsize <= written[v.item]

FilesWhole ==
    /\ \A i \in Items \ truncated :
          /\ Len(file[i]) = written[i]
          /\ \A k \in 1 .. written[i] : file[i][k] = k
          /\ metrics[i] # None => metrics[i].lastlogsize <= written[i]
    /\ \A k \in 1 .. Len(buffer) : Within(buffer[k])
    /\ \A k \in 1 .. Len(received) : Within(received[k])
    /\ \A r \in late : \A k \in 1 .. Len(r.values) : Within(r.values[k])

(* The value is from the line after the position, or says that there is no *)
(* such line to be read.                                                   *)
PendingNext ==
    pending # None =>
        /\ metrics[pending.item] # None
        /\ pending.item \notin truncated =>
              \/ pending.line = None /\ pending.lastlogsize = metrics[pending.item].lastlogsize
              \/ /\ pending.line = pending.lastlogsize
                 /\ pending.lastlogsize = metrics[pending.item].lastlogsize + 1
                 /\ pending.lastlogsize <= written[pending.item]

BufferBehind ==
    \A k \in 1 .. Len(buffer) :
        LET i == buffer[k].item
        IN  metrics[i] # None /\ (i \notin truncated => buffer[k].lastlogsize <= metrics[i].lastlogsize)

(* All matching lines up to n are settled or in S.                         *)
Covered(i, n, S) == \A l \in 1 .. n : l \in Matches[i] => l \in Settled(i) \cup S

CoveredWith(values) ==
    \A k \in 1 .. Len(values) :
        LET i == values[k].item
        IN  i \notin truncated => Covered(i, values[k].lastlogsize, Lines(values, i))

(* Whatever of the list of values arrives, no line before it is missing.   *)
Accounted ==
    /\ \A i \in Items \ truncated : metrics[i] # None => Covered(i, metrics[i].lastlogsize, Lines(buffer, i))
    /\ CoveredWith(received)
    /\ \A r \in late : CoveredWith(r.values)
    /\ request # None /\ request.done => \A i \in Items : Lines(buffer, i) \subseteq Settled(i)

AccountInv == Types /\ FilesWhole /\ PendingNext /\ BufferBehind /\ Accounted

(* Values in the order of the file, each of the line it was read from.     *)
Ascending(values) ==
    \A k, m \in 1 .. Len(values) : k < m /\ values[k].item = values[m].item => values[k].line < values[m].line

ReadUpTo(values) ==
    \A k \in 1 .. Len(values) :
        /\ values[k].line = values[k].lastlogsize
        /\ metrics[values[k].item] # None
        /\ values[k].lastlogsize <= metrics[values[k].item].lastlogsize

Delivered == request # None /\ request.done

Ordered ==
    /\ truncated = {} /\ late = {}
    /\ pending # None => pending.line # None
    /\ Ascending(received) /\ Ascending(buffer)
    /\ ReadUpTo(received) /\ ReadUpTo(buffer)
    /\ ~Delivered => \A k \in 1 .. Len(received), m \in 1 .. Len(buffer) :
          received[k].item = buffer[m].item => received[k].line < buffer[m].line

OrderInv == faults = 0 => Ordered

-----------------------------------------------------------------------------
(* Lemmas about sequences of values.                                       *)

LEMMA InLines ==
  ASSUME NEW values, NEW i, NEW l
  PROVE  l \in Lines(values, i) <=>
            l # None /\ \E k \in 1 .. Len(values) : values[k].item = i /\ values[k].line = l
  BY DEF Lines

LEMMA LinesOfAppend ==
  ASSUME NEW values \in Seq(Value), NEW v \in Value, NEW i
  PROVE  /\ Lines(values, i) \subseteq Lines(Append(values, v), i)
         /\ v.item = i /\ v.line # None => v.line \in Lines(Append(values, v), i)
  <1> PICK w : w = Append(values, v)
    OBVIOUS
  <1>1. /\ Len(w) = Len(values) + 1 /\ Len(values) \in Nat
        /\ \A k \in 1 .. Len(values) : w[k] = values[k]
        /\ w[Len(values) + 1] = v
    BY AppendProperties
  <1>2. ASSUME NEW l \in Lines(values, i) PROVE l \in Lines(w, i)
    <2>1. PICK k \in 1 .. Len(values) : values[k].item = i /\ values[k].line = l /\ l # None
      BY InLines
    <2>2. k \in 1 .. Len(w) /\ w[k] = values[k]
      BY <1>1
    <2>3. \E n \in 1 .. Len(w) : w[n].item = i /\ w[n].line = l
      BY <2>1, <2>2
    <2> QED BY <2>1, <2>3, InLines
  <1>3. ASSUME v.item = i, v.line # None PROVE v.line \in Lines(w, i)
    <2>1. Len(values) + 1 \in 1 .. Len(w)
      BY <1>1
    <2> QED BY <1>1, <1>3, <2>1, InLines
  <1> QED BY <1>2, <1>3

LEMMA LinesOfTail ==
  ASSUME NEW values \in Seq(Value), values # <<>>, NEW i, NEW l \in Lines(values, i)
  PROVE  \/ l \in Lines(Tail(values), i)
         \/ l = values[1].line /\ values[1].item = i /\ l # None
  <1> PICK w : w = Tail(values)
    OBVIOUS
  <1>1. PICK k \in 1 .. Len(values) : values[k].item = i /\ values[k].line = l /\ l # None
    BY InLines
  <1>2. CASE k = 1
    BY <1>1, <1>2
  <1>3. CASE k # 1
    <2>1. k - 1 \in 1 .. Len(w) /\ w[k - 1] = values[k]
      BY <1>3
    <2>2. \E n \in 1 .. Len(w) : w[n].item = i /\ w[n].line = l
      BY <1>1, <2>1
    <2> QED BY <1>1, <2>2, InLines
  <1> QED BY <1>2, <1>3

LEMMA LinesOfConcat ==
  ASSUME NEW v \in Seq(Value), NEW w \in Seq(Value), NEW i
  PROVE  Lines(v, i) \subseteq Lines(v \o w, i) /\ Lines(w, i) \subseteq Lines(v \o w, i)
  <1> PICK c : c = v \o w
    OBVIOUS
  <1>1. /\ Len(c) = Len(v) + Len(w) /\ Len(v) \in Nat /\ Len(w) \in Nat
        /\ \A k \in 1 .. Len(v) + Len(w) : c[k] = IF k <= Len(v) THEN v[k] ELSE w[k - Len(v)]
    BY ConcatProperties
  <1>2. ASSUME NEW l \in Lines(v, i) PROVE l \in Lines(c, i)
    <2>1. PICK k \in 1 .. Len(v) : v[k].item = i /\ v[k].line = l /\ l # None
      BY InLines
    <2>2. k \in 1 .. Len(c) /\ c[k] = v[k]
      BY <1>1
    <2>3. \E n \in 1 .. Len(c) : c[n].item = i /\ c[n].line = l
      BY <2>1, <2>2
    <2> QED BY <2>1, <2>3, InLines
  <1>3. ASSUME NEW l \in Lines(w, i) PROVE l \in Lines(c, i)
    <2>1. PICK k \in 1 .. Len(w) : w[k].item = i /\ w[k].line = l /\ l # None
      BY InLines
    <2>2. Len(v) + k \in 1 .. Len(c) /\ c[Len(v) + k] = w[k]
      <3>1. Len(v) + k \in 1 .. Len(v) + Len(w) /\ ~(Len(v) + k <= Len(v)) /\ Len(v) + k - Len(v) = k
        BY <1>1
      <3> QED BY <1>1, <3>1
    <2>3. \E n \in 1 .. Len(c) : c[n].item = i /\ c[n].line = l
      BY <2>1, <2>2
    <2> QED BY <2>1, <2>3, InLines
  <1> QED BY <1>2, <1>3

LEMMA ItemOf ==
  ASSUME NEW values \in Seq(Value), NEW k \in 1 .. Len(values)
  PROVE  /\ values[k].item \in Items
         /\ values[k].line \in Nat \cup {None}
         /\ values[k].lastlogsize \in Nat
  <1>1. values[k] \in Value
    OBVIOUS
  <1> QED BY <1>1 DEF Value

LEMMA PositionSet ==
  ASSUME NEW m \in Metric, NEW n \in Nat, NEW s \in {"active", "notsupported"}
  PROVE  /\ [m EXCEPT !.lastlogsize = n] \in Metric /\ [m EXCEPT !.lastlogsize = n].lastlogsize = n
         /\ [m EXCEPT !.status = s] \in Metric /\ [m EXCEPT !.status = s].lastlogsize = m.lastlogsize
  BY DEF Metric

(* Lines that are settled remain so.                                       *)
LEMMA CoveredKept ==
  ASSUME NEW values \in Seq(Value), CoveredWith(values), truncated \subseteq truncated',
         \A i \in Items : Settled(i) \subseteq Settled(i)'
  PROVE  CoveredWith(values)'
  <1> SUFFICES ASSUME NEW k \in 1 .. Len(values), values[k].item \notin truncated',
                      NEW l \in 1 .. values[k].lastlogsize, l \in Matches[values[k].item]
               PROVE  \/ l \in Lines(values, values[k].item)
                      \/ \E i : i = values[k].item /\ l \in Settled(i)'
    BY DEF CoveredWith, Covered
  <1> PICK i : i = values[k].item
    OBVIOUS
  <1>1. i \in Items /\ i \notin truncated
    BY ItemOf
  <1>2. l \in Settled(i) \cup Lines(values, i)
    BY <1>1 DEF CoveredWith, Covered
  <1> QED BY <1>1, <1>2

(* What is on the way to the server is complete up to the position.        *)
LEMMA CoveredBuffer ==
  ASSUME AccountInv
  PROVE  CoveredWith(buffer)
  <1> SUFFICES ASSUME NEW k \in 1 .. Len(buffer), buffer[k].item \notin truncated,
                      NEW l \in 1 .. buffer[k].lastlogsize, l \in Matches[buffer[k].item]
               PROVE  l \in Settled(buffer[k].item) \cup Lines(buffer, buffer[k].item)
    BY DEF CoveredWith, Covered
  <1> PICK i : i = buffer[k].item
    OBVIOUS
  <1>1. i \in Items /\ buffer[k].lastlogsize \in Nat
    BY ItemOf DEF AccountInv, Types
  <1>2. metrics[i] # None /\ buffer[k].lastlogsize <= metrics[i].lastlogsize
    BY DEF AccountInv, BufferBehind
  <1>3. metrics[i].lastlogsize \in Nat
    BY <1>1, <1>2 DEF AccountInv, Types, Metric
  <1>4. l \in 1 .. metrics[i].lastlogsize
    BY <1>1, <1>2, <1>3
  <1> QED BY <1>1, <1>2, <1>4 DEF AccountInv, Accounted, Covered

(* As long as nothing is unsettled, all lists of values remain covered.    *)
LEMMA CoveredStill ==
  ASSUME AccountInv, truncated \subseteq truncated',
         \A i \in Items : Settled(i) \subseteq Settled(i)'
  PROVE  /\ \A v : v = received => CoveredWith(v)'
         /\ \A v : v = buffer => CoveredWith(v)'
         /\ \A r \in late : CoveredWith(r.values)'
  <1>1. ASSUME NEW v, v = received PROVE CoveredWith(v)'
    <2>1. v \in Seq(Value) /\ CoveredWith(v)
      BY <1>1 DEF AccountInv, Types, Accounted
    <2> QED BY <2>1, CoveredKept
  <1>2. ASSUME NEW v, v = buffer PROVE CoveredWith(v)'
    <2>1. v \in Seq(Value) /\ CoveredWith(v)
      BY <1>2, CoveredBuffer DEF AccountInv, Types
    <2> QED BY <2>1, CoveredKept
  <1>3. ASSUME NEW r \in late PROVE CoveredWith(r.values)'
    <2>1. PICK v : v = r.values
      OBVIOUS
    <2>2. v \in Seq(Value) /\ CoveredWith(v)
      BY <2>1 DEF AccountInv, Types, Accounted
    <2>3. CoveredWith(v)'
      BY <2>2, CoveredKept
    <2> QED BY <2>1, <2>3
  <1> QED BY <1>1, <1>2, <1>3

(* The lists that a step leaves alone.                                     *)
LEMMA ReceivedStill ==
  ASSUME AccountInv, truncated \subseteq truncated', received' = received, late' \subseteq late,
         \A i \in Items : Settled(i) \subseteq Settled(i)'
  PROVE  CoveredWith(received)' /\ (\A r \in late : CoveredWith(r.values))'
  <1> PICK v : v = received
    OBVIOUS
  <1>1. CoveredWith(v)'
    BY CoveredStill
  <1>2. CoveredWith(received)'
    BY <1>1 DEF CoveredWith, Covered, Settled
  <1>3. (\A r \in late : CoveredWith(r.values))'
    BY CoveredStill
  <1> QED BY <1>2, <1>3

-----------------------------------------------------------------------------
(* Each action preserves AccountInv.                                       *)

LEMMA WriteLineAccounts ==
  ASSUME AccountInv, NEW i \in Items, WriteLine(i)
  PROVE  AccountInv'
  <1> USE DEF WriteLine, agent, server, lost
  <1>1. Types'
    <2>1. file'[i] \in Seq(Nat) /\ written'[i] \in Nat
      BY DEF AccountInv, Types
    <2>2. file' \in [Items -> Seq(Nat)] /\ written' \in [Items -> Nat]
      BY <2>1 DEF AccountInv, Types
    <2> QED BY <2>2 DEF AccountInv, Types
  <1>2. FilesWhole'
    <2>1. \A j \in Items : written[j] \in Nat /\ written'[j] \in Nat /\ written[j] <= written'[j]
      BY DEF AccountInv, Types
    <2>2. ASSUME NEW j \in Items \ truncated
          PROVE  Len(file'[j]) = written'[j] /\ \A k \in 1 .. written'[j] : file'[j][k] = k
      <3>1. Len(file[j]) = written[j] /\ \A k \in 1 .. written[j] : file[j][k] = k
        BY DEF AccountInv, FilesWhole
      <3>2. file[j] \in Seq(Nat) /\ written[j] \in Nat
        BY DEF AccountInv, Types
      <3>3. CASE j = i
        <4>1. file'[j] = Append(file[j], written[j] + 1) /\ written'[j] = written[j] + 1
          BY <3>3 DEF AccountInv, Types
        <4> QED BY <3>1, <3>2, <4>1
      <3>4. CASE j # i
        BY <3>1, <3>4 DEF AccountInv, Types
      <3> QED BY <3>3, <3>4
    <2>3. ASSUME NEW j \in Items \ truncated, metrics[j] # None
          PROVE  metrics[j].lastlogsize <= written'[j]
      <3>1. metrics[j].lastlogsize \in Nat /\ metrics[j].lastlogsize <= written[j]
        BY <2>3 DEF AccountInv, FilesWhole, Types, Metric
      <3> QED BY <2>1, <3>1
    <2>4. ASSUME NEW v \in Value, Within(v) PROVE Within(v)'
      BY <2>1, <2>4 DEF Within, Value
    <2>5. (\A k \in 1 .. Len(buffer) : Within(buffer[k]))'
      <3> SUFFICES ASSUME NEW k \in 1 .. Len(buffer) PROVE \E v : v = buffer[k] /\ Within(v)'
        BY DEF Within
      <3> PICK v : v = buffer[k]
        OBVIOUS
      <3> QED BY <2>4 DEF AccountInv, FilesWhole, Types
    <2>6. (\A k \in 1 .. Len(received) : Within(received[k]))'
      <3> SUFFICES ASSUME NEW k \in 1 .. Len(received) PROVE \E v : v = received[k] /\ Within(v)'
        BY DEF Within
      <3> PICK v : v = received[k]
        OBVIOUS
      <3> QED BY <2>4 DEF AccountInv, FilesWhole, Types
    <2>7. (\A r \in late : \A k \in 1 .. Len(r.values) : Within(r.values[k]))'
      <3> SUFFICES ASSUME NEW r \in late, NEW k \in 1 .. Len(r.values)
                   PROVE  \E v : v = r.values[k] /\ Within(v)'
        BY DEF Within
      <3> PICK v : v = r.values[k]
        OBVIOUS
      <3> QED BY <2>4 DEF AccountInv, FilesWhole, Types
    <2> QED BY <2>2, <2>3, <2>5, <2>6, <2>7 DEF FilesWhole
  <1>3. PendingNext'
    <2>1. pending # None => pending \in Value /\ pending.item \in Items /\ pending.lastlogsize \in Nat
      BY DEF AccountInv, Types, Value
    <2>2. \A j \in Items : written[j] \in Nat /\ written'[j] \in Nat /\ written[j] <= written'[j]
      BY DEF AccountInv, Types
    <2> QED BY <2>1, <2>2 DEF AccountInv, PendingNext
  <1>4. BufferBehind'
    BY DEF AccountInv, BufferBehind
  <1>5. Accounted'
    BY DEF AccountInv, Accounted, CoveredWith, Covered, Settled
  <1> QED BY <1>1, <1>2, <1>3, <1>4, <1>5 DEF AccountInv

LEMMA TruncateAccounts ==
  ASSUME AccountInv, NEW i \in Items, Truncate(i)
  PROVE  AccountInv'
  <1> USE DEF Truncate, agent, server, lost, Fault
  <1>1. Types'
    <2>1. file' \in [Items -> Seq(Nat)] /\ faults' \in Nat
      BY DEF AccountInv, Types
    <2> QED BY <2>1 DEF AccountInv, Types
  <1>2. FilesWhole'
    <2>1. \A j \in Items \ truncated' : j \notin truncated /\ file'[j] = file[j]
      BY DEF AccountInv, Types
    <2> QED BY <2>1 DEF AccountInv, FilesWhole, Within
  <1>3. PendingNext'
    BY DEF AccountInv, PendingNext
  <1>4. BufferBehind'
    BY DEF AccountInv, BufferBehind
  <1>5. Accounted'
    <2>1. \A j \in Items : Settled(j)' = Settled(j)
      BY DEF Settled
    <2>2. CoveredWith(received)' /\ (\A r \in late : CoveredWith(r.values))'
      BY <2>1, ReceivedStill
    <2>3. \A j \in Items \ truncated' : metrics[j] # None =>
             Covered(j, metrics[j].lastlogsize, Lines(buffer, j))
      BY DEF AccountInv, Accounted
    <2>4. (\A j \in Items \ truncated : metrics[j] # None =>
             Covered(j, metrics[j].lastlogsize, Lines(buffer, j)))'
      BY <2>3 DEF Covered, Settled
    <2>5. (request # None /\ request.done => \A j \in Items : Lines(buffer, j) \subseteq Settled(j))'
      BY DEF AccountInv, Accounted, Settled
    <2> QED BY <2>2, <2>4, <2>5 DEF Accounted
  <1> QED BY <1>1, <1>2, <1>3, <1>4, <1>5 DEF AccountInv

LEMMA LastNumber ==
  ASSUME NEW k \in Nat, NEW K \in SUBSET (1 .. k), K # {}
  PROVE  \E n \in K : \A m \in K : m <= n
  <1> DEFINE D == {k - n : n \in K}
  <1>1. D \in SUBSET Nat /\ D # {}
    <2>1. \A n \in K : k - n \in Nat
      OBVIOUS
    <2>2. PICK n : n \in K
      OBVIOUS
    <2>3. k - n \in D
      BY <2>2
    <2> QED BY <2>1, <2>3
  <1>2. PICK d \in D : \A e \in D : <<e, d>> \notin OpToRel(<, Nat)
    <2> HIDE DEF D
    <2> QED BY <1>1, NatLessThanWellFounded, WFMin
  <1>3. PICK n \in K : d = k - n
    OBVIOUS
  <1>4. ASSUME NEW m \in K PROVE m <= n
    <2>1. k - m \in D /\ k - m \in Nat /\ k - n \in Nat
      BY <1>1
    <2>2. ~(k - m < k - n)
      BY <1>1, <1>2, <1>3, <2>1 DEF OpToRel
    <2> QED BY <2>2
  <1> QED BY <1>4

(* The position that the server gives is covered by what it received.      *)
LEMMA PositionCovered ==
  ASSUME AccountInv, NEW i \in Items, NEW k \in 0 .. Len(received)
  PROVE  /\ Position(i, k) \in Nat
         /\ i \notin truncated => Position(i, k) <= written[i]
         /\ i \notin truncated =>
               \A l \in 1 .. Position(i, k) : l \in Matches[i] => l \in Lines(received, i)
                                                             \cup dropped[i] \cup refused[i]
  <1> DEFINE K == {n \in 1 .. k : received[n].item = i /\ received[n].line # None}
             c == CHOOSE n \in K : \A m \in K : m <= n
  <1>1. Position(i, k) = IF K = {} THEN 0 ELSE received[c].lastlogsize
    BY DEF Position
  <1>2. received \in Seq(Value) /\ k \in Nat /\ Len(received) \in Nat
    BY DEF AccountInv, Types
  <1>3. K \in SUBSET (1 .. k)
    OBVIOUS
  <1>4. CASE K = {}
    <2>1. Position(i, k) = 0
      BY <1>1, <1>4
    <2>2. i \notin truncated => written[i] \in Nat
      BY DEF AccountInv, Types
    <2> QED BY <2>1, <2>2
  <1>5. CASE K # {}
    <2>1. \E n \in K : \A m \in K : m <= n
      <3> HIDE DEF K
      <3> QED BY <1>2, <1>3, <1>5, LastNumber
    <2>2. c \in K
      <3> HIDE DEF K
      <3> QED BY <2>1, Zenon DEF c
    <2> HIDE DEF c
    <2>3. c \in 1 .. Len(received) /\ received[c].item = i
      BY <1>2, <2>2
    <2> HIDE DEF K
    <2>4. Position(i, k) = received[c].lastlogsize
      BY <1>1, <1>5
    <2>5. received[c].lastlogsize \in Nat
      BY <1>2, <2>3, ItemOf
    <2>6. i \notin truncated => received[c].lastlogsize <= written[i]
      BY <2>3 DEF AccountInv, FilesWhole, Within
    <2>7. i \notin truncated => Covered(i, received[c].lastlogsize, Lines(received, i))
      BY <2>3 DEF AccountInv, Accounted, CoveredWith
    <2> QED BY <2>4, <2>5, <2>6, <2>7 DEF Covered, Settled
  <1> QED BY <1>4, <1>5

LEMMA RefreshChecksAccounts ==
  ASSUME AccountInv, Distinct, RefreshChecks
  PROVE  AccountInv'
  <1> USE DEF logs, server, lost, Idle
  <1>1. PICK k \in [Items -> 0 .. Len(received)] :
           metrics' = [i \in Items |-> add_check(metrics[i], Position(i, k[i]))]
    BY DEF RefreshChecks
  <1>2. UNCHANGED <<logs, buffer, pending, tried, request, server, lost, faults>> /\ pending = None /\ request = None
    BY DEF RefreshChecks
  <1>3. ASSUME NEW i \in Items
        PROVE  /\ metrics'[i] \in Metric
               /\ metrics[i] # None => metrics'[i].lastlogsize = metrics[i].lastlogsize
               /\ metrics[i] = None => metrics'[i].lastlogsize = Position(i, k[i])
    <2>1. metrics'[i] = add_check(metrics[i], Position(i, k[i])) /\ metrics[i] \in Metric \cup {None}
      BY <1>1 DEF AccountInv, Types
    <2>2. Position(i, k[i]) \in Nat
      BY PositionCovered
    <2> QED BY <2>1, <2>2 DEF add_check, Metric
  <1>4. \A i \in Items : metrics'[i] # None
    BY <1>3 DEF Distinct
  <1>5. Types'
    <2>1. metrics' \in [Items -> Metric \cup {None}]
      BY <1>1, <1>3
    <2> QED BY <1>2, <2>1 DEF AccountInv, Types
  <1>6. FilesWhole'
    <2>1. \A i \in Items \ truncated : metrics'[i].lastlogsize <= written[i]
      BY <1>3, PositionCovered DEF AccountInv, FilesWhole
    <2> QED BY <1>2, <2>1 DEF AccountInv, FilesWhole, Within
  <1>7. PendingNext'
    BY <1>2 DEF PendingNext
  <1>8. BufferBehind'
    <2>1. ASSUME NEW n \in 1 .. Len(buffer), NEW i, i = buffer[n].item
          PROVE  metrics'[i] # None /\ (i \notin truncated => buffer[n].lastlogsize <= metrics'[i].lastlogsize)
      <3>1. i \in Items
        BY <2>1, ItemOf DEF AccountInv, Types
      <3>2. metrics[i] # None /\ (i \notin truncated => buffer[n].lastlogsize <= metrics[i].lastlogsize)
        BY <2>1 DEF AccountInv, BufferBehind
      <3> QED BY <1>3, <1>4, <3>1, <3>2
    <2> QED BY <1>2, <2>1 DEF BufferBehind
  <1>9. Accounted'
    <2>1. \A i \in Items : Settled(i)' = Settled(i)
      BY <1>2 DEF Settled
    <2>2. CoveredWith(received)' /\ (\A r \in late : CoveredWith(r.values))'
      BY <1>2, <2>1, ReceivedStill
    <2>3. ASSUME NEW i \in Items \ truncated
          PROVE  Covered(i, metrics'[i].lastlogsize, Lines(buffer, i))
      <3>1. CASE metrics[i] # None
        BY <1>3, <3>1 DEF AccountInv, Accounted
      <3>2. CASE metrics[i] = None
        BY <1>3, <3>2, PositionCovered DEF Covered, Settled
      <3> QED BY <3>1, <3>2
    <2>4. (\A i \in Items \ truncated : metrics[i] # None =>
             Covered(i, metrics[i].lastlogsize, Lines(buffer, i)))'
      BY <1>2, <2>3 DEF Covered, Settled
    <2> QED BY <1>2, <2>2, <2>4 DEF Accounted
  <1> QED BY <1>5, <1>6, <1>7, <1>8, <1>9 DEF AccountInv

LEMMA DisableAccounts ==
  ASSUME AccountInv, Distinct, disable_all_metrics
  PROVE  AccountInv'
  <1> USE DEF disable_all_metrics, logs, server, lost, Fault, Idle
  <1>1. ASSUME NEW i \in Items
        PROVE  /\ metrics'[i] \in Metric \cup {None}
               /\ metrics'[i] = None <=> metrics[i] = None
               /\ metrics[i] # None => metrics'[i].lastlogsize = metrics[i].lastlogsize
    <2>1. metrics[i] \in Metric \cup {None}
      BY DEF AccountInv, Types
    <2> QED BY <2>1 DEF Metric, Distinct
  <1>2. Types'
    <2>1. metrics' \in [Items -> Metric \cup {None}] /\ faults' \in Nat
      BY <1>1 DEF AccountInv, Types
    <2> QED BY <2>1 DEF AccountInv, Types
  <1>3. FilesWhole'
    BY <1>1 DEF AccountInv, FilesWhole, Within
  <1>4. PendingNext'
    BY DEF PendingNext
  <1>5. BufferBehind'
    <2>1. ASSUME NEW n \in 1 .. Len(buffer), NEW i, i = buffer[n].item
          PROVE  metrics'[i] # None /\ (i \notin truncated => buffer[n].lastlogsize <= metrics'[i].lastlogsize)
      <3>1. i \in Items
        BY <2>1, ItemOf DEF AccountInv, Types
      <3>2. metrics[i] # None /\ (i \notin truncated => buffer[n].lastlogsize <= metrics[i].lastlogsize)
        BY <2>1 DEF AccountInv, BufferBehind
      <3> QED BY <1>1, <3>1, <3>2
    <2> QED BY <2>1 DEF BufferBehind
  <1>6. Accounted'
    <2>1. \A i \in Items : Settled(i)' = Settled(i)
      BY DEF Settled
    <2>2. CoveredWith(received)' /\ (\A r \in late : CoveredWith(r.values))'
      BY <2>1, ReceivedStill
    <2>3. (\A i \in Items \ truncated : metrics[i] # None =>
             Covered(i, metrics[i].lastlogsize, Lines(buffer, i)))'
      BY <1>1 DEF AccountInv, Accounted, Covered, Settled
    <2> QED BY <2>2, <2>3 DEF Accounted
  <1> QED BY <1>2, <1>3, <1>4, <1>5, <1>6 DEF AccountInv

LEMMA ProcessLogAccounts ==
  ASSUME AccountInv, Distinct, NEW i \in Items, ProcessLog(i)
  PROVE  AccountInv'
  <1> USE DEF logs, server, lost, Idle
  <1> DEFINE at == IF Len(file[i]) < metrics[i].lastlogsize THEN 0 ELSE metrics[i].lastlogsize
  <1>1. /\ metrics[i] # None /\ metrics[i] \in Metric /\ metrics[i].lastlogsize \in Nat
        /\ file[i] \in Seq(Nat) /\ Len(file[i]) \in Nat /\ written[i] \in Nat
    BY DEF AccountInv, Types, Metric, ProcessLog
  <1>2. pending = None /\ request = None /\ UNCHANGED <<logs, buffer, tried, request, server, lost, faults>>
    BY DEF ProcessLog
  <1>3. /\ at \in 0 .. Len(file[i])
        /\ i \notin truncated => /\ Len(file[i]) = written[i] /\ \A n \in 1 .. written[i] : file[i][n] = n
                                 /\ at = metrics[i].lastlogsize
    BY <1>1 DEF AccountInv, FilesWhole
  <1>4. \/ \E n \in {at, at + 1} :
              /\ metrics' = [metrics EXCEPT ![i].lastlogsize = n]
              /\ n \in 0 .. Len(file[i])
              /\ n = at + 1 => file[i][n] \notin Matches[i]
              /\ pending' = None
        \/ /\ pending' = [item |-> i, line |-> file[i][at + 1], lastlogsize |-> at + 1]
           /\ at + 1 \in 1 .. Len(file[i])
           /\ metrics' = metrics
    <2>1. CASE at = Len(file[i])
      BY <1>1, <1>2, <1>3, <2>1 DEF ProcessLog
    <2>2. CASE at # Len(file[i]) /\ file[i][at + 1] \in Matches[i]
      <3>1. at + 1 \in 1 .. Len(file[i])
        BY <1>1, <1>3, <2>2
      <3> QED BY <2>2, <3>1 DEF ProcessLog
    <2>3. CASE at # Len(file[i]) /\ file[i][at + 1] \notin Matches[i]
      <3>1. at + 1 \in 0 .. Len(file[i])
        BY <1>1, <1>3, <2>3
      <3>2. metrics' = [metrics EXCEPT ![i].lastlogsize = at + 1] /\ pending' = None
        BY <1>2, <2>3 DEF ProcessLog
      <3> QED BY <2>3, <3>1, <3>2
    <2> QED BY <2>1, <2>2, <2>3
  <1> HIDE DEF at
  <1>5. CASE \E n \in {at, at + 1} :
              /\ metrics' = [metrics EXCEPT ![i].lastlogsize = n]
              /\ n \in 0 .. Len(file[i])
              /\ n = at + 1 => file[i][n] \notin Matches[i]
              /\ pending' = None
    <2>1. PICK n \in {at, at + 1} :
              /\ metrics' = [metrics EXCEPT ![i].lastlogsize = n]
              /\ n \in 0 .. Len(file[i])
              /\ n = at + 1 => file[i][n] \notin Matches[i]
              /\ pending' = None
      BY <1>5
    <2>2. /\ metrics' \in [Items -> Metric \cup {None}]
          /\ metrics'[i] \in Metric /\ metrics'[i].lastlogsize = n
          /\ \A j \in Items : j # i => metrics'[j] = metrics[j]
      <3>1. PICK o \in Metric : o = metrics[i]
        BY <1>1
      <3>2. n \in Nat
        BY <1>1, <2>1
      <3>3. PICK m \in Metric : m = [o EXCEPT !.lastlogsize = n] /\ m.lastlogsize = n
        BY <3>2, PositionSet
      <3>4. metrics' = [metrics EXCEPT ![i] = m]
        BY <2>1, <3>1, <3>3
      <3> QED BY <3>3, <3>4 DEF AccountInv, Types
    <2>3. metrics'[i] # None /\ \A j \in Items : metrics'[j] = None <=> metrics[j] = None
      BY <1>1, <2>2 DEF Distinct
    <2>4. i \notin truncated => metrics[i].lastlogsize <= n /\ n <= written[i]
      BY <1>1, <1>3, <2>1
    <2>5. Types'
      BY <1>2, <2>1, <2>2 DEF AccountInv, Types
    <2>6. FilesWhole'
      <3>1. \A j \in Items \ truncated : metrics'[j] # None => metrics'[j].lastlogsize <= written[j]
        BY <2>2, <2>4 DEF AccountInv, FilesWhole
      <3> QED BY <1>2, <3>1 DEF AccountInv, FilesWhole, Within
    <2>7. PendingNext'
      BY <2>1 DEF PendingNext
    <2>8. BufferBehind'
      <3>1. ASSUME NEW m \in 1 .. Len(buffer), NEW j, j = buffer[m].item
            PROVE  metrics'[j] # None /\ (j \notin truncated => buffer[m].lastlogsize <= metrics'[j].lastlogsize)
        <4>1. j \in Items /\ buffer[m].lastlogsize \in Nat
          BY <3>1, ItemOf DEF AccountInv, Types
        <4>2. metrics[j] # None /\ (j \notin truncated => buffer[m].lastlogsize <= metrics[j].lastlogsize)
          BY <3>1 DEF AccountInv, BufferBehind
        <4>3. metrics'[j] # None
          BY <2>3, <4>1, <4>2
        <4>4. CASE j = i
          BY <1>1, <2>1, <2>2, <2>4, <4>1, <4>2, <4>3, <4>4
        <4>5. CASE j # i
          BY <2>2, <4>1, <4>2, <4>3, <4>5
        <4> QED BY <4>4, <4>5
      <3> QED BY <1>2, <3>1 DEF BufferBehind
    <2>9. Accounted'
      <3>1. \A j \in Items : Settled(j)' = Settled(j)
        BY <1>2 DEF Settled
      <3>2. CoveredWith(received)' /\ (\A r \in late : CoveredWith(r.values))'
        BY <1>2, <3>1, ReceivedStill
      <3>3. ASSUME NEW j \in Items \ truncated, metrics'[j] # None
            PROVE  Covered(j, metrics'[j].lastlogsize, Lines(buffer, j))
        <4>1. metrics[j] # None => Covered(j, metrics[j].lastlogsize, Lines(buffer, j))
          BY DEF AccountInv, Accounted
        <4>2. CASE j = i
          <5>1. ASSUME NEW l \in 1 .. n, l \in Matches[i]
                PROVE  l \in 1 .. metrics[i].lastlogsize
            <6>1. n = at + 1 => file[i][n] = n
              BY <1>1, <1>3, <2>1, <4>2
            <6>2. n # at + 1 => n = at
              BY <2>1
            <6> QED BY <1>1, <1>3, <2>1, <4>2, <5>1, <6>1, <6>2
          <5> QED BY <1>1, <2>2, <4>1, <4>2, <5>1 DEF Covered
        <4>3. CASE j # i
          BY <2>2, <3>3, <4>1, <4>3
        <4> QED BY <4>2, <4>3
      <3>4. (\A j \in Items \ truncated : metrics[j] # None =>
               Covered(j, metrics[j].lastlogsize, Lines(buffer, j)))'
        BY <1>2, <3>3 DEF Covered, Settled
      <3> QED BY <1>2, <3>2, <3>4 DEF Accounted
    <2> QED BY <2>5, <2>6, <2>7, <2>8, <2>9 DEF AccountInv
  <1>6. CASE /\ pending' = [item |-> i, line |-> file[i][at + 1], lastlogsize |-> at + 1]
             /\ at + 1 \in 1 .. Len(file[i])
             /\ metrics' = metrics
    <2>1. Types'
      <3>1. file[i][at + 1] \in Nat /\ at + 1 \in Nat
        BY <1>1, <1>3, <1>6
      <3>2. pending' \in Value
        BY <1>6, <3>1 DEF Value
      <3> QED BY <1>2, <1>6, <3>2 DEF AccountInv, Types
    <2>2. FilesWhole'
      BY <1>2, <1>6 DEF AccountInv, FilesWhole, Within
    <2>3. PendingNext'
      <3>1. i \notin truncated => /\ file[i][at + 1] = at + 1 /\ at + 1 = metrics[i].lastlogsize + 1
                                  /\ at + 1 <= written[i]
        BY <1>1, <1>3, <1>6
      <3>2. metrics'[i] # None /\ pending'.item = i /\ pending'.line = file[i][at + 1]
            /\ pending'.lastlogsize = at + 1
        BY <1>1, <1>6
      <3> QED BY <1>2, <1>6, <3>1, <3>2 DEF PendingNext
    <2>4. BufferBehind'
      BY <1>2, <1>6 DEF AccountInv, BufferBehind
    <2>5. Accounted'
      BY <1>2, <1>6 DEF AccountInv, Accounted, CoveredWith, Covered, Settled
    <2> QED BY <2>1, <2>2, <2>3, <2>4, <2>5 DEF AccountInv
  <1> QED BY <1>4, <1>5, <1>6

LEMMA ProcessLogFailsAccounts ==
  ASSUME AccountInv, Distinct, NEW i \in Items, ProcessLogFails(i)
  PROVE  AccountInv'
  <1> USE DEF ProcessLogFails, logs, server, lost, Idle, Fault
  <1>1. metrics[i] \in Metric /\ metrics[i].lastlogsize \in Nat
    BY DEF AccountInv, Types, Metric
  <1>2. /\ metrics' \in [Items -> Metric \cup {None}]
        /\ \A j \in Items : /\ metrics'[j] = None <=> metrics[j] = None
                            /\ metrics[j] # None => metrics'[j].lastlogsize = metrics[j].lastlogsize
    <2>1. PICK o \in Metric : o = metrics[i]
      BY <1>1
    <2>2. PICK m \in Metric : m = [o EXCEPT !.status = "notsupported"] /\ m.lastlogsize = o.lastlogsize
      BY PositionSet
    <2>3. metrics' = [metrics EXCEPT ![i] = m]
      BY <2>1, <2>2
    <2> QED BY <2>1, <2>2, <2>3 DEF AccountInv, Types, Distinct
  <1>3. Types'
    <2>1. pending' \in Value /\ faults' \in Nat
      BY <1>1 DEF AccountInv, Types, Value
    <2> QED BY <1>2, <2>1 DEF AccountInv, Types
  <1>4. FilesWhole'
    BY <1>2 DEF AccountInv, FilesWhole, Within
  <1>5. PendingNext'
    <2>1. pending'.item = i /\ pending'.line = None /\ pending'.lastlogsize = metrics[i].lastlogsize
      OBVIOUS
    <2>2. metrics'[i] # None /\ metrics'[i].lastlogsize = metrics[i].lastlogsize
      BY <1>2
    <2> QED BY <2>1, <2>2 DEF PendingNext
  <1>6. BufferBehind'
    <2>1. ASSUME NEW n \in 1 .. Len(buffer), NEW j, j = buffer[n].item
          PROVE  metrics'[j] # None /\ (j \notin truncated => buffer[n].lastlogsize <= metrics'[j].lastlogsize)
      <3>1. j \in Items
        BY <2>1, ItemOf DEF AccountInv, Types
      <3>2. metrics[j] # None /\ (j \notin truncated => buffer[n].lastlogsize <= metrics[j].lastlogsize)
        BY <2>1 DEF AccountInv, BufferBehind
      <3> QED BY <1>2, <3>1, <3>2
    <2> QED BY <2>1 DEF BufferBehind
  <1>7. Accounted'
    <2>1. \A j \in Items : Settled(j)' = Settled(j)
      BY DEF Settled
    <2>2. CoveredWith(received)' /\ (\A r \in late : CoveredWith(r.values))'
      BY <2>1, ReceivedStill
    <2>3. (\A j \in Items \ truncated : metrics[j] # None =>
             Covered(j, metrics[j].lastlogsize, Lines(buffer, j)))'
      BY <1>2 DEF AccountInv, Accounted, Covered, Settled
    <2> QED BY <2>2, <2>3 DEF Accounted
  <1> QED BY <1>3, <1>4, <1>5, <1>6, <1>7 DEF AccountInv

(* What the buffer holds after process_value: the lines it held, but for   *)
(* the one that it counts as dropped, and the new value.                   *)
LEMMA BufferAfterValue ==
  ASSUME AccountInv, Distinct, process_value
  PROVE  \E b \in Seq(Value) :
            /\ buffer' = Append(b, pending)
            /\ \A k \in 1 .. Len(b) : \E m \in 1 .. Len(buffer) : b[k] = buffer[m]
            /\ \A j \in Items : /\ Lines(buffer, j) \subseteq Lines(b, j) \cup dropped'[j]
                                /\ dropped[j] \subseteq dropped'[j]
            /\ DOMAIN dropped' = Items
  <1>1. buffer \in Seq(Value) /\ DOMAIN dropped = Items /\ Len(buffer) \in Nat
    BY DEF AccountInv, Types
  <1>2. CASE Len(buffer) < CONFIG_BUFFER_SIZE
    <2>1. buffer' = Append(buffer, pending) /\ dropped' = dropped
      BY <1>2 DEF process_value
    <2> QED BY <1>1, <2>1
  <1>3. CASE ~(Len(buffer) < CONFIG_BUFFER_SIZE)
    <2>1. buffer # <<>>
      BY <1>1, <1>3 DEF Distinct
    <2>2. PICK b : b = Tail(buffer)
      OBVIOUS
    <2>3. /\ b \in Seq(Value) /\ buffer' = Append(b, pending)
          /\ dropped' = [dropped EXCEPT ![buffer[1].item] = @ \cup ({buffer[1].line} \ {None})]
      BY <1>1, <1>3, <2>1, <2>2 DEF process_value
    <2>4. ASSUME NEW k \in 1 .. Len(b) PROVE \E m \in 1 .. Len(buffer) : b[k] = buffer[m]
      <3>1. k + 1 \in 1 .. Len(buffer) /\ b[k] = buffer[k + 1]
        BY <1>1, <2>1, <2>2, <2>4
      <3> QED BY <3>1
    <2>5. ASSUME NEW j \in Items, NEW l \in Lines(buffer, j) PROVE l \in Lines(b, j) \cup dropped'[j]
      <3>1. \/ l \in Lines(b, j)
            \/ l = buffer[1].line /\ buffer[1].item = j /\ l # None
        BY <1>1, <2>1, <2>2, LinesOfTail
      <3> QED BY <1>1, <2>3, <3>1
    <2> QED BY <1>1, <2>3, <2>4, <2>5
  <1> QED BY <1>2, <1>3

LEMMA ProcessValueAccounts ==
  ASSUME AccountInv, Distinct, process_value
  PROVE  AccountInv'
  <1> USE DEF logs, server, lost
  <1>1. PICK b \in Seq(Value) :
            /\ buffer' = Append(b, pending)
            /\ \A k \in 1 .. Len(b) : \E m \in 1 .. Len(buffer) : b[k] = buffer[m]
            /\ \A j \in Items : /\ Lines(buffer, j) \subseteq Lines(b, j) \cup dropped'[j]
                                /\ dropped[j] \subseteq dropped'[j]
            /\ DOMAIN dropped' = Items
    BY BufferAfterValue
  <1>2. PICK p : p = pending
    OBVIOUS
  <1>3. /\ p \in Value /\ request = None /\ pending' = None
        /\ UNCHANGED <<logs, request, server, refused, faults>>
        /\ metrics' = [metrics EXCEPT ![p.item].lastlogsize = p.lastlogsize]
    BY <1>2 DEF process_value, AccountInv, Types
  <1>4. PICK i \in Items : i = p.item
    BY <1>3 DEF Value
  <1>5. p.lastlogsize \in Nat /\ p.line \in Nat \cup {None}
    BY <1>3 DEF Value
  <1>6. metrics[i] # None /\ metrics[i] \in Metric /\ metrics[i].lastlogsize \in Nat
    BY <1>2, <1>3, <1>4 DEF AccountInv, Types, PendingNext, process_value, Metric
  <1>7. i \notin truncated => /\ metrics[i].lastlogsize <= p.lastlogsize /\ p.lastlogsize <= written[i]
                              /\ \/ p.lastlogsize = metrics[i].lastlogsize
                                 \/ p.lastlogsize = metrics[i].lastlogsize + 1 /\ p.line = p.lastlogsize
    <2> SUFFICES ASSUME i \notin truncated
                 PROVE  /\ metrics[i].lastlogsize <= p.lastlogsize /\ p.lastlogsize <= written[i]
                        /\ \/ p.lastlogsize = metrics[i].lastlogsize
                           \/ p.lastlogsize = metrics[i].lastlogsize + 1 /\ p.line = p.lastlogsize
      OBVIOUS
    <2>1. \/ p.line = None /\ p.lastlogsize = metrics[i].lastlogsize
          \/ p.line = p.lastlogsize /\ p.lastlogsize = metrics[i].lastlogsize + 1 /\ p.lastlogsize <= written[i]
      BY <1>2, <1>4 DEF AccountInv, PendingNext, process_value
    <2>2. metrics[i].lastlogsize <= written[i]
      BY <1>6 DEF AccountInv, FilesWhole
    <2> QED BY <1>6, <2>1, <2>2
  <1>8. /\ metrics' \in [Items -> Metric \cup {None}]
        /\ metrics'[i] \in Metric /\ metrics'[i].lastlogsize = p.lastlogsize
        /\ \A j \in Items : j # i => metrics'[j] = metrics[j]
    <2>1. PICK o \in Metric : o = metrics[i]
      BY <1>6
    <2>2. PICK n \in Nat : n = p.lastlogsize
      BY <1>5
    <2>3. PICK m \in Metric : m = [o EXCEPT !.lastlogsize = n] /\ m.lastlogsize = n
      BY PositionSet
    <2>4. metrics' = [metrics EXCEPT ![i] = m]
      BY <1>3, <1>4, <2>1, <2>2, <2>3
    <2> QED BY <2>2, <2>3, <2>4 DEF AccountInv, Types
  <1>9. metrics'[i] # None
    BY <1>8 DEF Distinct
  <1>10. /\ buffer' \in Seq(Value)
         /\ \A k \in 1 .. Len(buffer') : \/ \E m \in 1 .. Len(buffer) : buffer'[k] = buffer[m]
                                         \/ buffer'[k] = p
    <2>1. buffer' = Append(b, p)
      BY <1>1, <1>2
    <2>2. /\ Append(b, p) \in Seq(Value) /\ Len(Append(b, p)) = Len(b) + 1
          /\ \A k \in 1 .. Len(b) : Append(b, p)[k] = b[k]
          /\ Append(b, p)[Len(b) + 1] = p
      BY <1>3, AppendProperties
    <2>3. Len(b) \in Nat
      OBVIOUS
    <2>4. ASSUME NEW k \in 1 .. Len(buffer')
          PROVE  (\E m \in 1 .. Len(buffer) : buffer'[k] = buffer[m]) \/ buffer'[k] = p
      <3>1. k \in 1 .. Len(b) \/ k = Len(b) + 1
        BY <2>1, <2>2, <2>3
      <3> QED BY <1>1, <2>1, <2>2, <3>1
    <2> QED BY <2>1, <2>2, <2>4
  <1>11. \A j \in Items : Lines(buffer, j) \subseteq Lines(buffer', j) \cup dropped'[j]
    BY <1>1, <1>2, <1>3, LinesOfAppend
  <1>12. Types'
    BY <1>1, <1>3, <1>8, <1>10 DEF AccountInv, Types
  <1>13. FilesWhole'
    <2>1. \A j \in Items \ truncated : metrics'[j] # None => metrics'[j].lastlogsize <= written[j]
      BY <1>7, <1>8 DEF AccountInv, FilesWhole
    <2>2. ASSUME NEW k \in 1 .. Len(buffer') PROVE Within(buffer'[k])
      <3>1. CASE buffer'[k] = p
        BY <1>4, <1>7, <3>1 DEF Within
      <3>2. CASE \E m \in 1 .. Len(buffer) : buffer'[k] = buffer[m]
        BY <3>2 DEF AccountInv, FilesWhole
      <3> QED BY <1>10, <3>1, <3>2
    <2> QED BY <1>3, <2>1, <2>2 DEF AccountInv, FilesWhole, Within
  <1>14. PendingNext'
    BY <1>3 DEF PendingNext
  <1>15. BufferBehind'
    <2>1. ASSUME NEW k \in 1 .. Len(buffer'), NEW j, j = buffer'[k].item
          PROVE  metrics'[j] # None /\ (j \notin truncated => buffer'[k].lastlogsize <= metrics'[j].lastlogsize)
      <3>1. CASE buffer'[k] = p
        BY <1>4, <1>5, <1>8, <1>9, <2>1, <3>1
      <3>2. CASE \E m \in 1 .. Len(buffer) : buffer'[k] = buffer[m]
        <4>1. PICK m \in 1 .. Len(buffer) : buffer'[k] = buffer[m]
          BY <3>2
        <4>2. j \in Items /\ buffer[m].lastlogsize \in Nat
          BY <2>1, <4>1, ItemOf DEF AccountInv, Types
        <4>3. metrics[j] # None /\ (j \notin truncated => buffer[m].lastlogsize <= metrics[j].lastlogsize)
          BY <2>1, <4>1 DEF AccountInv, BufferBehind
        <4>4. CASE j = i
          BY <1>5, <1>6, <1>7, <1>8, <1>9, <4>1, <4>2, <4>3, <4>4
        <4>5. CASE j # i
          BY <1>8, <4>1, <4>2, <4>3, <4>5
        <4> QED BY <4>4, <4>5
      <3> QED BY <1>10, <3>1, <3>2
    <2> QED BY <1>3, <2>1 DEF BufferBehind
  <1>16. Accounted'
    <2>1. \A j \in Items : Settled(j) \cup dropped'[j] \subseteq Settled(j)'
      BY <1>1, <1>3 DEF Settled
    <2>2. CoveredWith(received)' /\ (\A r \in late : CoveredWith(r.values))'
      BY <1>3, <2>1, ReceivedStill
    <2>3. ASSUME NEW j \in Items \ truncated, metrics'[j] # None,
                 NEW l \in 1 .. metrics'[j].lastlogsize, l \in Matches[j]
          PROVE  l \in Settled(j)' \cup Lines(buffer', j)
      <3>1. CASE metrics[j] # None /\ l \in 1 .. metrics[j].lastlogsize
        <4>1. l \in Settled(j) \cup Lines(buffer, j)
          BY <2>3, <3>1 DEF AccountInv, Accounted, Covered
        <4> QED BY <1>11, <2>1, <4>1
      <3>2. CASE ~(metrics[j] # None /\ l \in 1 .. metrics[j].lastlogsize)
        <4>1. j = i
          BY <1>8, <2>3, <3>2
        <4>2. l = p.lastlogsize /\ p.line = l
          BY <1>5, <1>6, <1>7, <1>8, <2>3, <3>2, <4>1
        <4>3. p.line # None
          BY <1>5, <4>2 DEF Distinct
        <4>4. p.line \in Lines(buffer', i)
          BY <1>1, <1>2, <1>3, <1>4, <4>3, LinesOfAppend
        <4> QED BY <4>1, <4>2, <4>4
      <3> QED BY <3>1, <3>2
    <2>4. (\A j \in Items \ truncated : metrics[j] # None =>
             Covered(j, metrics[j].lastlogsize, Lines(buffer, j)))'
      BY <1>3, <2>3 DEF Covered
    <2> QED BY <1>3, <2>2, <2>4 DEF Accounted
  <1> QED BY <1>12, <1>13, <1>14, <1>15, <1>16 DEF AccountInv

LEMMA SendBufferAccounts ==
  ASSUME AccountInv, Distinct, send_buffer \/ SendFails
  PROVE  AccountInv'
  <1> USE DEF logs, agent, server, lost, MaySend, BufferAfterFailure
  <1>1. /\ UNCHANGED <<logs, metrics, buffer, pending, server, lost>> /\ request = None
        /\ \/ request' = [values |-> buffer, done |-> FALSE] /\ faults' = faults
           \/ request' = request /\ faults' = faults + 1
    BY DEF send_buffer, SendFails, Fault
  <1>2. Types'
    <2>1. faults' \in Nat
      BY <1>1 DEF AccountInv, Types
    <2>2. request' = [values |-> buffer, done |-> FALSE] \/ request' = None
      BY <1>1
    <2>3. ASSUME request' # None PROVE request' \in Request /\ request'.values = buffer'
      <3>1. PICK b \in Seq(Value) : b = buffer
        BY DEF AccountInv, Types
      <3>2. PICK r : r = [values |-> b, done |-> FALSE]
        OBVIOUS
      <3>3. r \in Request /\ r.values = b
        BY <3>2 DEF Request
      <3>4. request' = r /\ buffer' = b
        BY <1>1, <2>2, <2>3, <3>1, <3>2
      <3> QED BY <3>3, <3>4
    <2> QED BY <1>1, <2>1, <2>3 DEF AccountInv, Types
  <1>3. FilesWhole'
    BY <1>1 DEF AccountInv, FilesWhole, Within
  <1>4. PendingNext'
    BY <1>1 DEF AccountInv, PendingNext
  <1>5. BufferBehind'
    BY <1>1 DEF AccountInv, BufferBehind
  <1>6. Accounted'
    <2>1. ~(request' # None /\ request'.done)
      BY <1>1
    <2> QED BY <1>1, <2>1 DEF AccountInv, Accounted, CoveredWith, Covered, Settled
  <1> QED BY <1>2, <1>3, <1>4, <1>5, <1>6 DEF AccountInv

(* A request that is given up has the values of the buffer.                *)
LEMMA AbandonedHolds ==
  ASSUME AccountInv, NEW r \in Abandoned
  PROVE  r \in late \/ r.values = buffer
  BY DEF AccountInv, Types, Abandoned

LEMMA GiveUpAccounts ==
  ASSUME AccountInv, Distinct, GiveUp
  PROVE  AccountInv'
  <1> USE DEF logs, lost, BufferAfterFailure
  <1>1. /\ UNCHANGED <<logs, metrics, buffer, pending, received, lost>>
        /\ request' = None /\ faults' = faults + 1 /\ late' = Abandoned
    BY DEF GiveUp, Fault
  <1>2. \A r \in late' : r \in late \/ r.values = buffer
    BY <1>1, AbandonedHolds
  <1>3. Types'
    <2>1. faults' \in Nat
      BY <1>1 DEF AccountInv, Types
    <2> QED BY <1>1, <1>2, <2>1 DEF AccountInv, Types
  <1>4. FilesWhole'
    BY <1>1, <1>2 DEF AccountInv, FilesWhole, Within
  <1>5. PendingNext'
    BY <1>1 DEF AccountInv, PendingNext
  <1>6. BufferBehind'
    BY <1>1 DEF AccountInv, BufferBehind
  <1>7. Accounted'
    <2>1. CoveredWith(buffer)
      BY CoveredBuffer
    <2>2. \A r \in late' : CoveredWith(r.values)
      BY <1>2, <2>1 DEF AccountInv, Accounted
    <2> QED BY <1>1, <2>2 DEF AccountInv, Accounted, CoveredWith, Covered, Settled
  <1> QED BY <1>3, <1>4, <1>5, <1>6, <1>7 DEF AccountInv

LEMMA NoLines == ASSUME NEW i PROVE Lines(<<>>, i) = {}
  <1>1. ASSUME NEW l \in Lines(<<>>, i) PROVE FALSE
    <2>1. \E k \in 1 .. Len(<<>>) : TRUE
      BY InLines
    <2> QED BY <2>1
  <1> QED BY <1>1

(* The buffer is freed after its lines are settled.                        *)
LEMMA FreeBufferAccounts ==
  ASSUME AccountInv, Distinct, request # None, FreeBuffer, faults' \in Nat, UNCHANGED logs,
         DOMAIN refused' = Items,
         \A i \in Items : refused[i] \subseteq refused'[i] /\ Lines(buffer, i) \subseteq Settled(i) \cup refused'[i]
  PROVE  AccountInv'
  <1> USE DEF logs, server
  <1>1. UNCHANGED <<logs, metrics, pending, server, dropped>> /\ request' = None /\ buffer' = <<>>
    BY DEF FreeBuffer
  <1>2. Types'
    BY <1>1 DEF AccountInv, Types
  <1>3. FilesWhole'
    BY <1>1 DEF AccountInv, FilesWhole, Within
  <1>4. PendingNext'
    BY <1>1 DEF AccountInv, PendingNext
  <1>5. BufferBehind'
    BY <1>1 DEF BufferBehind
  <1>6. Accounted'
    <2>1. \A j \in Items : Settled(j) \cup Lines(buffer, j) \subseteq Settled(j)'
      BY <1>1 DEF Settled
    <2>2. CoveredWith(received)' /\ (\A r \in late : CoveredWith(r.values))'
      BY <1>1, <2>1, ReceivedStill
    <2>3. ASSUME NEW j \in Items \ truncated, metrics[j] # None,
                 NEW l \in 1 .. metrics[j].lastlogsize, l \in Matches[j]
          PROVE  l \in Settled(j)'
      <3>1. l \in Settled(j) \cup Lines(buffer, j)
        BY <2>3 DEF AccountInv, Accounted, Covered
      <3> QED BY <2>1, <3>1
    <2>4. (\A j \in Items \ truncated : metrics[j] # None =>
             Covered(j, metrics[j].lastlogsize, Lines(buffer, j)))'
      BY <1>1, <2>3 DEF Covered
    <2> QED BY <1>1, <2>2, <2>4 DEF Accounted
  <1> QED BY <1>2, <1>3, <1>4, <1>5, <1>6 DEF AccountInv

LEMMA AnsweredAccounts ==
  ASSUME AccountInv, Distinct, Answered \/ ClosedUnanswered
  PROVE  AccountInv'
  <1>1. CASE Answered
    <2>1. \A i \in Items : refused[i] \subseteq refused'[i] /\ Lines(buffer, i) \subseteq Settled(i) \cup refused'[i]
      BY <1>1 DEF Answered, AccountInv, Accounted
    <2>2. faults' \in Nat /\ DOMAIN refused' = Items /\ UNCHANGED logs /\ request # None /\ FreeBuffer
      BY <1>1 DEF Answered, AccountInv, Types, FreeBuffer
    <2> QED BY <2>1, <2>2, FreeBufferAccounts
  <1>2. CASE ClosedUnanswered
    <2>1. request # None /\ request.values = buffer
      BY <1>2 DEF ClosedUnanswered, AccountInv, Types
    <2>2. CASE request.done
      <3>1. \A i \in Items : refused[i] \subseteq refused'[i] /\ Lines(buffer, i) \subseteq Settled(i) \cup refused'[i]
        BY <1>2, <2>1, <2>2 DEF ClosedUnanswered, AccountInv, Accounted
      <3>2. faults' \in Nat /\ DOMAIN refused' = Items /\ UNCHANGED logs /\ FreeBuffer
        BY <1>2, <2>2 DEF ClosedUnanswered, AccountInv, Types, FreeBuffer, Fault
      <3> QED BY <2>1, <3>1, <3>2, FreeBufferAccounts
    <2>3. CASE ~request.done
      <3>1. refused' = [i \in Items |-> refused[i] \cup Lines(buffer, i)]
        BY <1>2, <2>1, <2>3 DEF ClosedUnanswered
      <3>2. \A i \in Items : refused[i] \subseteq refused'[i] /\ Lines(buffer, i) \subseteq Settled(i) \cup refused'[i]
        BY <3>1
      <3>3. faults' \in Nat /\ DOMAIN refused' = Items /\ UNCHANGED logs /\ FreeBuffer
        BY <1>2, <3>1 DEF ClosedUnanswered, AccountInv, Types, FreeBuffer, Fault
      <3> QED BY <2>1, <3>2, <3>3, FreeBufferAccounts
    <2> QED BY <2>2, <2>3
  <1> QED BY <1>1, <1>2

LEMMA RequestDone ==
  ASSUME NEW r \in Request
  PROVE  /\ [r EXCEPT !.done = TRUE] \in Request
         /\ [r EXCEPT !.done = TRUE].values = r.values /\ [r EXCEPT !.done = TRUE].done
  BY DEF Request

(* What a trapper stores after what it stored before.                      *)
LEMMA ReceivedMore ==
  ASSUME AccountInv, NEW w \in Seq(Value), CoveredWith(w), \A k \in 1 .. Len(w) : Within(w[k]),
         received' = received \o w, late' \subseteq late, UNCHANGED <<logs, lost>>
  PROVE  /\ received' \in Seq(Value)
         /\ (\A k \in 1 .. Len(received) : Within(received[k]))'
         /\ \A i \in Items : Settled(i) \cup Lines(w, i) \subseteq Settled(i)'
         /\ CoveredWith(received)' /\ (\A r \in late : CoveredWith(r.values))'
  <1> USE DEF logs, lost
  <1>1. PICK v \in Seq(Value) : v = received
    BY DEF AccountInv, Types
  <1>2. PICK c : c = v \o w
    OBVIOUS
  <1>3. /\ Len(c) = Len(v) + Len(w) /\ Len(v) \in Nat /\ Len(w) \in Nat /\ c \in Seq(Value)
        /\ \A k \in 1 .. Len(v) + Len(w) : c[k] = IF k <= Len(v) THEN v[k] ELSE w[k - Len(v)]
    BY <1>2, ConcatProperties
  <1>4. \A k \in 1 .. Len(c) : \/ \E m \in 1 .. Len(v) : c[k] = v[m]
                               \/ \E m \in 1 .. Len(w) : c[k] = w[m]
    <2> SUFFICES ASSUME NEW k \in 1 .. Len(c)
                 PROVE  (\E m \in 1 .. Len(v) : c[k] = v[m]) \/ (\E m \in 1 .. Len(w) : c[k] = w[m])
      OBVIOUS
    <2>1. CASE k <= Len(v)
      BY <1>3, <2>1
    <2>2. CASE ~(k <= Len(v))
      <3>1. k - Len(v) \in 1 .. Len(w) /\ c[k] = w[k - Len(v)]
        BY <1>3, <2>2
      <3> QED BY <3>1
    <2> QED BY <2>1, <2>2
  <1>5. (\A k \in 1 .. Len(received) : Within(received[k]))'
    <2>1. \A k \in 1 .. Len(c) : Within(c[k])
      BY <1>1, <1>4 DEF AccountInv, FilesWhole
    <2> QED BY <1>1, <1>2, <2>1 DEF Within
  <1>6. \A i \in Items : Lines(v, i) \subseteq Lines(c, i) /\ Lines(w, i) \subseteq Lines(c, i)
    BY <1>2, LinesOfConcat
  <1>7. \A i \in Items : Settled(i) \cup Lines(w, i) \subseteq Settled(i)'
    BY <1>1, <1>2, <1>6 DEF Settled
  <1>8. CoveredWith(v)' /\ CoveredWith(w)' /\ (\A r \in late : CoveredWith(r.values))'
    <2>1. CoveredWith(v)' /\ \A r \in late : CoveredWith(r.values)'
      BY <1>1, <1>7, CoveredStill
    <2>2. CoveredWith(w)'
      BY <1>7, CoveredKept
    <2> QED BY <2>1, <2>2
  <1>9. CoveredWith(received)'
    <2>1. ASSUME NEW k \in 1 .. Len(c), NEW i, i = c[k].item, i \notin truncated,
                 NEW l \in 1 .. c[k].lastlogsize, l \in Matches[i]
          PROVE  l \in Settled(i)'
      <3>1. i \in Items
        BY <1>3, <2>1, ItemOf
      <3>2. CASE \E m \in 1 .. Len(v) : c[k] = v[m]
        <4>1. Covered(i, c[k].lastlogsize, Lines(v, i))
          BY <1>1, <2>1, <3>2 DEF AccountInv, Accounted, CoveredWith
        <4>2. l \in Settled(i)
          BY <1>1, <2>1, <4>1 DEF Covered, Settled
        <4> QED BY <1>7, <3>1, <4>2
      <3>3. CASE \E m \in 1 .. Len(w) : c[k] = w[m]
        <4>1. Covered(i, c[k].lastlogsize, Lines(w, i))
          BY <2>1, <3>3 DEF CoveredWith
        <4> QED BY <1>7, <2>1, <3>1, <4>1 DEF Covered
      <3> QED BY <1>4, <3>2, <3>3
    <2>2. CoveredWith(c)'
      BY <2>1 DEF CoveredWith, Covered
    <2>3. received' = c
      BY <1>1, <1>2
    <2> QED BY <2>2, <2>3 DEF CoveredWith, Covered, Settled
  <1> QED BY <1>1, <1>2, <1>3, <1>5, <1>7, <1>8, <1>9

LEMMA ReceivingAccounts ==
  ASSUME AccountInv, Distinct, process_new_values \/ ProcessLate
  PROVE  AccountInv'
  <1> USE DEF logs, agent, lost
  <1>1. UNCHANGED <<logs, agent, lost, faults>>
    BY DEF process_new_values, ProcessLate
  <1>2. PICK w \in Seq(Value) :
           /\ CoveredWith(w) /\ \A k \in 1 .. Len(w) : Within(w[k])
           /\ received' = received \o w /\ late' \subseteq late
           /\ request' # None /\ request'.done => (request # None /\ request.done) \/ w = buffer
           /\ request' # None => request' \in Request /\ request'.values = buffer
    <2>1. CASE process_new_values
      <3>1. CoveredWith(buffer) /\ buffer \in Seq(Value) /\ (\A k \in 1 .. Len(buffer) : Within(buffer[k]))
        BY CoveredBuffer DEF AccountInv, Types, FilesWhole
      <3>2. request.values = buffer /\ received' = received \o buffer /\ late' = late
        BY <2>1 DEF process_new_values, AccountInv, Types
      <3>3. request' \in Request /\ request'.values = buffer
        <4>1. request # None /\ request \in Request /\ request' = [request EXCEPT !.done = TRUE]
          BY <2>1 DEF process_new_values, AccountInv, Types
        <4> QED BY <3>2, <4>1, RequestDone
      <3> QED BY <3>1, <3>2, <3>3
    <2>2. CASE ProcessLate
      <3>1. PICK r \in late : received' = received \o r.values /\ late' = late \ {r}
        BY <2>2 DEF ProcessLate
      <3>2. r.values \in Seq(Value) /\ CoveredWith(r.values) /\ \A k \in 1 .. Len(r.values) : Within(r.values[k])
        BY DEF AccountInv, Types, FilesWhole, Accounted
      <3>3. request' = request
        BY <2>2 DEF ProcessLate
      <3>4. request' # None => request' \in Request /\ request'.values = buffer
        BY <3>3 DEF AccountInv, Types
      <3> QED BY <3>1, <3>2, <3>3, <3>4
    <2> QED BY <2>1, <2>2
  <1>3. /\ received' \in Seq(Value)
        /\ (\A k \in 1 .. Len(received) : Within(received[k]))'
        /\ \A i \in Items : Settled(i) \cup Lines(w, i) \subseteq Settled(i)'
        /\ CoveredWith(received)' /\ (\A r \in late : CoveredWith(r.values))'
    BY <1>1, <1>2, ReceivedMore
  <1>4. Types'
    BY <1>1, <1>2, <1>3 DEF AccountInv, Types
  <1>5. FilesWhole'
    BY <1>1, <1>2, <1>3 DEF AccountInv, FilesWhole, Within
  <1>6. PendingNext'
    BY <1>1 DEF AccountInv, PendingNext
  <1>7. BufferBehind'
    BY <1>1 DEF AccountInv, BufferBehind
  <1>8. Accounted'
    <2>1. ASSUME NEW j \in Items \ truncated, metrics[j] # None,
                 NEW l \in 1 .. metrics[j].lastlogsize, l \in Matches[j]
          PROVE  l \in Settled(j)' \cup Lines(buffer, j)
      <3>1. l \in Settled(j) \cup Lines(buffer, j)
        BY <2>1 DEF AccountInv, Accounted, Covered
      <3> QED BY <1>3, <3>1
    <2>2. (\A j \in Items \ truncated : metrics[j] # None =>
             Covered(j, metrics[j].lastlogsize, Lines(buffer, j)))'
      BY <1>1, <2>1 DEF Covered
    <2>3. ASSUME request' # None, request'.done, NEW j \in Items PROVE Lines(buffer, j) \subseteq Settled(j)'
      <3>1. CASE w = buffer
        BY <1>3, <3>1
      <3>2. CASE request # None /\ request.done
        <4>1. Lines(buffer, j) \subseteq Settled(j)
          BY <3>2 DEF AccountInv, Accounted
        <4> QED BY <1>3, <4>1
      <3> QED BY <1>2, <2>3, <3>1, <3>2
    <2> QED BY <1>1, <1>3, <2>2, <2>3 DEF Accounted
  <1> QED BY <1>4, <1>5, <1>6, <1>7, <1>8 DEF AccountInv

LEMMA RestartAgentAccounts ==
  ASSUME AccountInv, Distinct, RestartAgent
  PROVE  AccountInv'
  <1> USE DEF logs, lost
  <1>1. /\ UNCHANGED <<logs, received, lost>> /\ buffer' = <<>> /\ pending' = None
        /\ request' = None /\ faults' = faults + 1 /\ late' = Abandoned
        /\ metrics' = [i \in Items |-> None]
    BY DEF RestartAgent, Fault
  <1>2. \A r \in late' : r \in late \/ r.values = buffer
    BY <1>1, AbandonedHolds
  <1>3. Types'
    <2>1. faults' \in Nat
      BY <1>1 DEF AccountInv, Types
    <2> QED BY <1>1, <1>2, <2>1 DEF AccountInv, Types
  <1>4. FilesWhole'
    BY <1>1, <1>2 DEF AccountInv, FilesWhole, Within
  <1>5. PendingNext'
    BY <1>1 DEF PendingNext
  <1>6. BufferBehind'
    BY <1>1 DEF BufferBehind
  <1>7. Accounted'
    <2>1. CoveredWith(buffer)
      BY CoveredBuffer
    <2>2. \A r \in late' : CoveredWith(r.values)
      BY <1>2, <2>1 DEF AccountInv, Accounted
    <2>3. (\A r \in late : CoveredWith(r.values))'
      BY <1>1, <2>2 DEF CoveredWith, Covered, Settled
    <2>4. CoveredWith(received)'
      BY <1>1 DEF AccountInv, Accounted, CoveredWith, Covered, Settled
    <2> QED BY <1>1, <2>3, <2>4 DEF Accounted
  <1> QED BY <1>3, <1>4, <1>5, <1>6, <1>7 DEF AccountInv

LEMMA InitAccounts == ASSUME Distinct, Init PROVE AccountInv
  <1>1. Types
    BY DEF Init, Types
  <1>2. FilesWhole
    BY DEF Init, FilesWhole
  <1>3. PendingNext /\ BufferBehind
    BY DEF Init, PendingNext, BufferBehind
  <1>4. Accounted
    BY DEF Init, Accounted, CoveredWith
  <1> QED BY <1>1, <1>2, <1>3, <1>4 DEF AccountInv

(* AccountInv is inductive.                                                *)
LEMMA StepAccounts == ASSUME AccountInv, Distinct, [Next]_vars PROVE AccountInv'
  <1>1. ASSUME NEW i \in Items, WriteLine(i) \/ Truncate(i) \/ ProcessLog(i) \/ ProcessLogFails(i)
        PROVE  AccountInv'
    BY <1>1, WriteLineAccounts, TruncateAccounts, ProcessLogAccounts, ProcessLogFailsAccounts
  <1>2. CASE RefreshChecks \/ disable_all_metrics
    BY <1>2, RefreshChecksAccounts, DisableAccounts
  <1>3. CASE process_value \/ send_buffer \/ SendFails \/ GiveUp
    BY <1>3, ProcessValueAccounts, SendBufferAccounts, GiveUpAccounts
  <1>4. CASE Answered \/ ClosedUnanswered \/ process_new_values \/ ProcessLate \/ RestartAgent
    BY <1>4, AnsweredAccounts, ReceivingAccounts, RestartAgentAccounts
  <1>5. CASE UNCHANGED vars
    <2> USE <1>5 DEF vars, logs, agent, server, lost
    <2>1. Types' /\ FilesWhole'
      BY DEF AccountInv, Types, FilesWhole, Within
    <2>2. PendingNext' /\ BufferBehind'
      BY DEF AccountInv, PendingNext, BufferBehind
    <2>3. Accounted'
      BY DEF AccountInv, Accounted, CoveredWith, Covered, Settled
    <2> QED BY <2>1, <2>2, <2>3 DEF AccountInv
  <1> QED BY <1>1, <1>2, <1>3, <1>4, <1>5 DEF Next

THEOREM AlwaysAccounts == ASSUME Distinct PROVE Spec => []AccountInv
  <1>1. Init => AccountInv
    BY InitAccounts
  <1>2. AccountInv /\ [Next]_vars => AccountInv'
    BY StepAccounts
  <1> QED BY <1>1, <1>2, PTL DEF Spec

(* active.c, process_log and send_buffer; trapper/active.c,                *)
(* send_list_of_active_checks: the agent, whatever fails or is restarted,  *)
(* never reads past a matching line that is lost in a way the code does    *)
(* not count.                                                              *)
THEOREM NoLinePassedOver == ASSUME Distinct PROVE Spec => []LinesAccounted
  <1>1. AccountInv => LinesAccounted
    <2> SUFFICES ASSUME AccountInv, NEW i \in Items \ truncated, metrics[i] # None,
                        NEW k \in 1 .. metrics[i].lastlogsize, file[i][k] \in Matches[i]
                 PROVE  file[i][k] \in Settled(i) \cup Lines(buffer, i)
      BY DEF LinesAccounted
    <2>1. metrics[i].lastlogsize \in Nat /\ written[i] \in Nat
      BY DEF AccountInv, Types, Metric
    <2>2. metrics[i].lastlogsize <= written[i]
      BY DEF AccountInv, FilesWhole
    <2>3. file[i][k] = k
      BY <2>1, <2>2 DEF AccountInv, FilesWhole
    <2> QED BY <2>3 DEF AccountInv, Accounted, Covered
  <1> QED BY <1>1, AlwaysAccounts, PTL

-----------------------------------------------------------------------------
(* Without faults each action preserves the order.                         *)

(* Positions that only grow keep ReadUpTo.                                 *)
LEMMA ReadUpToKept ==
  ASSUME NEW values \in Seq(Value), ReadUpTo(values),
         \A i \in Items : metrics[i] # None => /\ metrics[i].lastlogsize \in Nat
                                               /\ metrics'[i] # None /\ metrics'[i].lastlogsize \in Nat
                                               /\ metrics[i].lastlogsize <= metrics'[i].lastlogsize
  PROVE  ReadUpTo(values)'
  <1> SUFFICES ASSUME NEW k \in 1 .. Len(values), NEW i, i = values[k].item
               PROVE  /\ values[k].line = values[k].lastlogsize
                      /\ metrics'[i] # None /\ values[k].lastlogsize <= metrics'[i].lastlogsize
    BY DEF ReadUpTo
  <1>1. i \in Items /\ values[k].lastlogsize \in Nat
    BY ItemOf
  <1>2. /\ values[k].line = values[k].lastlogsize
        /\ metrics[i] # None /\ values[k].lastlogsize <= metrics[i].lastlogsize
    BY DEF ReadUpTo
  <1> QED BY <1>1, <1>2

LEMMA PositionsGrow ==
  ASSUME AccountInv, Distinct, Ordered, UNCHANGED <<buffer, received, request, late, truncated>>,
         (pending # None => pending.line # None)',
         \A i \in Items : metrics[i] # None => /\ metrics'[i] # None /\ metrics'[i].lastlogsize \in Nat
                                               /\ metrics[i].lastlogsize <= metrics'[i].lastlogsize
  PROVE  Ordered'
  <1>1. PICK b \in Seq(Value), c \in Seq(Value) : b = buffer /\ c = received
    BY DEF AccountInv, Types
  <1>2. \A i \in Items : metrics[i] # None => metrics[i].lastlogsize \in Nat
    BY DEF AccountInv, Types, Metric
  <1>3. ReadUpTo(b) /\ ReadUpTo(c)
    BY <1>1 DEF Ordered
  <1>4. ReadUpTo(b)' /\ ReadUpTo(c)'
    BY <1>2, <1>3, ReadUpToKept
  <1>5. ReadUpTo(buffer)' /\ ReadUpTo(received)'
    BY <1>1, <1>4 DEF ReadUpTo
  <1> QED BY <1>5 DEF Ordered, Ascending, Delivered

LEMMA ReadingOrders ==
  ASSUME AccountInv, AccountInv', Distinct, Ordered,
         (\E i \in Items : WriteLine(i) \/ ProcessLog(i)) \/ RefreshChecks
  PROVE  Ordered'
  <1>1. \A i \in Items : metrics[i] # None => metrics[i].lastlogsize \in Nat /\ metrics[i] \in Metric
    BY DEF AccountInv, Types, Metric
  <1>2. \A i \in Items : metrics'[i] # None => metrics'[i].lastlogsize \in Nat
    BY DEF AccountInv, Types, Metric
  <1>3. ASSUME NEW i \in Items, WriteLine(i) PROVE Ordered'
    BY <1>3 DEF WriteLine, agent, server, Ordered, Ascending, ReadUpTo, Delivered
  <1>4. ASSUME NEW i \in Items, ProcessLog(i) PROVE Ordered'
    <2>1. UNCHANGED <<buffer, received, request, late, truncated>> /\ pending = None /\ metrics[i] # None
      BY <1>4 DEF ProcessLog, logs, server, Idle
    <2>2. Len(file[i]) = written[i] /\ metrics[i].lastlogsize <= written[i] /\ written[i] \in Nat
          /\ file[i] \in Seq(Nat)
      BY <2>1 DEF AccountInv, FilesWhole, Types, Ordered
    <2>3. ~(Len(file[i]) < metrics[i].lastlogsize)
      BY <1>1, <2>1, <2>2
    <2>4. \/ \E n \in {metrics[i].lastlogsize, metrics[i].lastlogsize + 1} :
                metrics' = [metrics EXCEPT ![i].lastlogsize = n] /\ pending' = None
          \/ metrics' = metrics /\ pending'.line = file[i][metrics[i].lastlogsize + 1]
                /\ metrics[i].lastlogsize # Len(file[i])
      BY <1>4, <2>1, <2>3 DEF ProcessLog
    <2>5. pending' # None => pending'.line # None
      <3> SUFFICES ASSUME pending' # None PROVE pending'.line # None
        OBVIOUS
      <3>1. metrics[i].lastlogsize + 1 \in 1 .. Len(file[i])
        BY <1>1, <2>1, <2>2, <2>4
      <3>2. file[i][metrics[i].lastlogsize + 1] \in Nat
        BY <2>2, <3>1
      <3> QED BY <2>4, <3>2 DEF Distinct
    <2>6. ASSUME NEW j \in Items, metrics[j] # None
          PROVE  metrics'[j] # None /\ metrics'[j].lastlogsize \in Nat /\ metrics[j].lastlogsize <= metrics'[j].lastlogsize
      <3>1. CASE metrics' = metrics
        BY <1>1, <2>6, <3>1
      <3>2. CASE \E n \in {metrics[i].lastlogsize, metrics[i].lastlogsize + 1} :
                    metrics' = [metrics EXCEPT ![i].lastlogsize = n]
        <4>1. PICK n : /\ n = metrics[i].lastlogsize \/ n = metrics[i].lastlogsize + 1
                       /\ metrics' = [metrics EXCEPT ![i].lastlogsize = n]
          BY <3>2
        <4>2. n \in Nat /\ metrics[i].lastlogsize <= n
          BY <1>1, <2>1, <4>1
        <4>3. PICK o \in Metric : o = metrics[i]
          BY <1>1, <2>1
        <4>4. PICK m \in Metric : m = [o EXCEPT !.lastlogsize = n] /\ m.lastlogsize = n
          BY <4>2, PositionSet
        <4>5. metrics' = [metrics EXCEPT ![i] = m] /\ metrics \in [Items -> Metric \cup {None}]
          BY <4>1, <4>3, <4>4 DEF AccountInv, Types
        <4>6. CASE j = i
          BY <4>4, <4>5, <4>6, <4>2 DEF Distinct
        <4>7. CASE j # i
          BY <1>1, <2>6, <4>5, <4>7
        <4> QED BY <4>6, <4>7
      <3> QED BY <2>4, <3>1, <3>2
    <2>7. (pending # None => pending.line # None)'
      BY <2>5
    <2> QED BY <2>1, <2>6, <2>7, PositionsGrow
  <1>5. CASE RefreshChecks
    <2>1. UNCHANGED <<buffer, received, request, late, truncated, pending>>
      BY <1>5 DEF RefreshChecks, logs, server
    <2>2. PICK k \in [Items -> 0 .. Len(received)] :
             metrics' = [i \in Items |-> add_check(metrics[i], Position(i, k[i]))]
      BY <1>5 DEF RefreshChecks
    <2>3. ASSUME NEW j \in Items, metrics[j] # None
          PROVE  metrics'[j] # None /\ metrics'[j].lastlogsize \in Nat /\ metrics[j].lastlogsize <= metrics'[j].lastlogsize
      <3>1. metrics'[j] = [metrics[j] EXCEPT !.status = "active"]
        BY <2>2, <2>3 DEF add_check
      <3>2. PICK o \in Metric : o = metrics[j]
        BY <1>1, <2>3
      <3>3. PICK m \in Metric : m = [o EXCEPT !.status = "active"] /\ m.lastlogsize = o.lastlogsize
        BY PositionSet
      <3>4. metrics'[j] = m
        BY <3>1, <3>2, <3>3
      <3> QED BY <1>1, <2>3, <3>2, <3>3, <3>4 DEF Distinct
    <2>4. (pending # None => pending.line # None)'
      BY <2>1 DEF Ordered
    <2> QED BY <2>1, <2>3, <2>4, PositionsGrow
  <1> QED BY <1>3, <1>4, <1>5

LEMMA ProcessValueOrders ==
  ASSUME AccountInv, AccountInv', Distinct, Ordered, process_value
  PROVE  Ordered'
  <1>1. /\ request = None /\ pending # None /\ pending' = None
        /\ UNCHANGED <<received, request, late, truncated>>
    BY DEF process_value, logs, server
  <1>2. PICK p \in Value : p = pending
    BY <1>1 DEF AccountInv, Types
  <1>3. PICK i \in Items : i = p.item
    BY DEF Value
  <1>4. PICK n \in Nat : n = metrics[i].lastlogsize /\ metrics[i] # None /\ metrics[i] \in Metric
    BY <1>1, <1>2, <1>3 DEF AccountInv, Types, PendingNext, Metric
  <1>5. p.line = n + 1 /\ p.lastlogsize = n + 1
    BY <1>1, <1>2, <1>3, <1>4 DEF AccountInv, PendingNext, Ordered
  <1>6. PICK b \in Seq(Value), d \in {0, 1} :
           /\ buffer' = Append(b, p)
           /\ \A k \in 1 .. Len(b) : k + d \in 1 .. Len(buffer) /\ b[k] = buffer[k + d]
    <2>1. buffer \in Seq(Value) /\ Len(buffer) \in Nat
      BY DEF AccountInv, Types
    <2>2. CASE Len(buffer) < CONFIG_BUFFER_SIZE
      <3>1. buffer' = Append(buffer, p)
        BY <1>2, <2>2 DEF process_value
      <3>2. \A k \in 1 .. Len(buffer) : k + 0 \in 1 .. Len(buffer) /\ buffer[k] = buffer[k + 0]
        BY <2>1
      <3> QED BY <2>1, <3>1, <3>2
    <2>3. CASE ~(Len(buffer) < CONFIG_BUFFER_SIZE)
      <3>1. buffer # <<>>
        BY <2>1, <2>3 DEF Distinct
      <3>2. buffer' = Append(Tail(buffer), p) /\ Tail(buffer) \in Seq(Value)
        BY <1>2, <2>1, <2>3, <3>1 DEF process_value
      <3>3. \A k \in 1 .. Len(Tail(buffer)) : k + 1 \in 1 .. Len(buffer) /\ Tail(buffer)[k] = buffer[k + 1]
        BY <2>1, <3>1
      <3> QED BY <3>2, <3>3
    <2> QED BY <2>2, <2>3
  <1>7. /\ Len(buffer') = Len(b) + 1 /\ Len(b) \in Nat
        /\ \A k \in 1 .. Len(b) : buffer'[k] = b[k]
        /\ buffer'[Len(b) + 1] = p
    BY <1>6, AppendProperties
  <1>8. ASSUME NEW k \in 1 .. Len(b)
        PROVE  /\ b[k].item \in Items /\ b[k].line \in Nat
               /\ b[k].line = b[k].lastlogsize /\ metrics[b[k].item] # None
               /\ b[k].lastlogsize <= metrics[b[k].item].lastlogsize
    <2>1. k + d \in 1 .. Len(buffer) /\ b[k] = buffer[k + d]
      BY <1>6
    <2>2. b[k].item \in Items /\ b[k].lastlogsize \in Nat
      BY ItemOf
    <2> QED BY <2>1, <2>2 DEF Ordered, ReadUpTo
  <1>9. ASSUME NEW j \in Items, metrics[j] # None
        PROVE  /\ metrics[j].lastlogsize \in Nat /\ metrics'[j] # None /\ metrics'[j].lastlogsize \in Nat
               /\ metrics[j].lastlogsize <= metrics'[j].lastlogsize
               /\ j = i => metrics'[j].lastlogsize = n + 1
    <2>1. PICK o \in Metric : o = metrics[i]
      BY <1>4
    <2>2. PICK m \in Metric : m = [o EXCEPT !.lastlogsize = n + 1] /\ m.lastlogsize = n + 1
      <3>1. n + 1 \in Nat
        OBVIOUS
      <3> QED BY <3>1, PositionSet
    <2>3. metrics' = [metrics EXCEPT ![i] = m] /\ metrics \in [Items -> Metric \cup {None}]
      BY <1>2, <1>3, <1>5, <2>1, <2>2 DEF process_value, AccountInv, Types
    <2>4. metrics[j].lastlogsize \in Nat
      BY <1>9, <2>3 DEF Metric
    <2>5. CASE j = i
      BY <1>4, <2>2, <2>3, <2>4, <2>5 DEF Distinct
    <2>6. CASE j # i
      BY <1>9, <2>3, <2>4, <2>6
    <2> QED BY <2>5, <2>6
  <1>10. Ascending(buffer')
    <2> SUFFICES ASSUME NEW k \in 1 .. Len(b) + 1, NEW m \in 1 .. Len(b) + 1, k < m,
                        buffer'[k].item = buffer'[m].item
                 PROVE  buffer'[k].line < buffer'[m].line
      BY <1>7 DEF Ascending
    <2>1. k \in 1 .. Len(b) /\ (m \in 1 .. Len(b) \/ m = Len(b) + 1)
      BY <1>7
    <2>2. CASE m \in 1 .. Len(b)
      <3>1. /\ k + d \in 1 .. Len(buffer) /\ m + d \in 1 .. Len(buffer) /\ k + d < m + d
            /\ buffer'[k] = buffer[k + d] /\ buffer'[m] = buffer[m + d]
        BY <1>6, <1>7, <2>1, <2>2
      <3> QED BY <3>1 DEF Ordered, Ascending
    <2>3. CASE m = Len(b) + 1
      <3>1. b[k].item = i /\ buffer'[k] = b[k] /\ buffer'[m] = p
        BY <1>3, <1>7, <2>1, <2>3
      <3>2. b[k].line \in Nat /\ b[k].line <= n
        BY <1>4, <1>8, <2>1, <3>1
      <3> QED BY <1>5, <3>1, <3>2
    <2> QED BY <2>1, <2>2, <2>3
  <1>11. ReadUpTo(buffer)'
    <2> SUFFICES ASSUME NEW k \in 1 .. Len(b) + 1, NEW j, j = buffer'[k].item
                 PROVE  /\ buffer'[k].line = buffer'[k].lastlogsize
                        /\ metrics'[j] # None /\ buffer'[k].lastlogsize <= metrics'[j].lastlogsize
      BY <1>7 DEF ReadUpTo
    <2>1. CASE k = Len(b) + 1
      BY <1>3, <1>4, <1>5, <1>7, <1>9, <2>1
    <2>2. CASE k # Len(b) + 1
      <3>1. k \in 1 .. Len(b) /\ buffer'[k] = b[k]
        BY <1>7, <2>2
      <3>2. /\ j \in Items /\ b[k].line \in Nat /\ b[k].line = b[k].lastlogsize /\ metrics[j] # None
            /\ b[k].lastlogsize <= metrics[j].lastlogsize
        BY <1>8, <3>1
      <3> QED BY <1>9, <3>1, <3>2
    <2> QED BY <2>1, <2>2
  <1>12. ReadUpTo(received)'
    <2>1. PICK v \in Seq(Value) : v = received
      BY DEF AccountInv, Types
    <2>2. ReadUpTo(v)
      BY <2>1 DEF Ordered
    <2>3. ReadUpTo(v)'
      BY <1>9, <2>2, ReadUpToKept
    <2> QED BY <1>1, <2>1, <2>3 DEF ReadUpTo
  <1>13. ASSUME NEW k \in 1 .. Len(received), NEW m \in 1 .. Len(b) + 1,
                received[k].item = buffer'[m].item
         PROVE  received[k].line < buffer'[m].line
    <2>1. ~Delivered
      BY <1>1 DEF Delivered
    <2>2. CASE m = Len(b) + 1
      <3>1. received[k].item = i /\ buffer'[m] = p
        BY <1>3, <1>7, <1>13, <2>2
      <3>2. received[k].lastlogsize \in Nat
        BY ItemOf DEF AccountInv, Types
      <3>3. received[k].line = received[k].lastlogsize /\ received[k].lastlogsize <= n
        BY <1>4, <3>1 DEF Ordered, ReadUpTo
      <3> QED BY <1>5, <3>1, <3>2, <3>3
    <2>3. CASE m # Len(b) + 1
      <3>1. m \in 1 .. Len(b) /\ m + d \in 1 .. Len(buffer) /\ buffer'[m] = buffer[m + d]
        BY <1>6, <1>7, <2>3
      <3> QED BY <1>13, <2>1, <3>1 DEF Ordered
    <2> QED BY <2>2, <2>3
  <1> QED BY <1>1, <1>7, <1>10, <1>11, <1>12, <1>13 DEF Ordered, Ascending

LEMMA SendingOrders ==
  ASSUME AccountInv, AccountInv', Distinct, Ordered, send_buffer \/ Answered
  PROVE  Ordered'
  <1>1. CASE send_buffer
    <2>1. /\ request = None /\ UNCHANGED <<metrics, buffer, pending, received, late, truncated>>
      BY <1>1 DEF send_buffer, MaySend, agent, server, logs
    <2>2. ~Delivered
      BY <2>1 DEF Delivered
    <2> QED BY <2>1, <2>2 DEF Ordered, Ascending, ReadUpTo
  <1>2. CASE Answered
    <2>1. buffer' = <<>> /\ UNCHANGED <<metrics, pending, received, late>>
      BY <1>2 DEF Answered, FreeBuffer, server
    <2>2. truncated' = truncated
      BY <1>2 DEF Answered, FreeBuffer, logs
    <2> QED BY <2>1, <2>2 DEF Ordered, Ascending, ReadUpTo
  <1> QED BY <1>1, <1>2

LEMMA ReceivingOrders ==
  ASSUME AccountInv, AccountInv', Distinct, Ordered, process_new_values
  PROVE  Ordered'
  <1>1. /\ ~Delivered /\ UNCHANGED <<metrics, buffer, pending, late, truncated>>
        /\ received' = received \o buffer
    BY DEF process_new_values, AccountInv, Types, Delivered, agent, logs
  <1>2. PICK v \in Seq(Value), w \in Seq(Value) : v = received /\ w = buffer
    BY DEF AccountInv, Types
  <1>3. PICK c : c = v \o w
    OBVIOUS
  <1>4. /\ Len(c) = Len(v) + Len(w) /\ Len(v) \in Nat /\ Len(w) \in Nat /\ c \in Seq(Value)
        /\ \A k \in 1 .. Len(v) + Len(w) : c[k] = IF k <= Len(v) THEN v[k] ELSE w[k - Len(v)]
    BY <1>3, ConcatProperties
  <1>5. ASSUME NEW k \in 1 .. Len(c)
        PROVE  \/ k \in 1 .. Len(v) /\ c[k] = v[k]
               \/ ~(k \in 1 .. Len(v)) /\ k - Len(v) \in 1 .. Len(w) /\ c[k] = w[k - Len(v)]
    <2>1. CASE k <= Len(v)
      BY <1>4, <2>1
    <2>2. CASE ~(k <= Len(v))
      BY <1>4, <2>2
    <2> QED BY <2>1, <2>2
  <1>6. Delivered'
    <2>1. request # None /\ request \in Request /\ request' = [request EXCEPT !.done = TRUE]
      BY DEF process_new_values, AccountInv, Types
    <2>2. request' \in Request /\ request'.done
      BY <2>1, RequestDone
    <2> QED BY <2>2 DEF Delivered, Distinct
  <1>7. Ascending(c)
    <2> SUFFICES ASSUME NEW k \in 1 .. Len(c), NEW m \in 1 .. Len(c), k < m, c[k].item = c[m].item
                 PROVE  c[k].line < c[m].line
      BY DEF Ascending
    <2>1. Ascending(v) /\ Ascending(w)
      BY <1>2 DEF Ordered
    <2>2. CASE k \in 1 .. Len(v) /\ m \in 1 .. Len(v)
      <3>1. c[k] = v[k] /\ c[m] = v[m]
        BY <1>5, <2>2
      <3> QED BY <2>1, <2>2, <3>1 DEF Ascending
    <2>3. CASE k \in 1 .. Len(v) /\ m \notin 1 .. Len(v)
      <3>1. c[k] = v[k] /\ m - Len(v) \in 1 .. Len(w) /\ c[m] = w[m - Len(v)]
        BY <1>5, <2>3
      <3> QED BY <1>1, <1>2, <2>3, <3>1 DEF Ordered
    <2>4. CASE k \notin 1 .. Len(v)
      <3>1. m \notin 1 .. Len(v)
        BY <1>4, <2>4
      <3>2. /\ k - Len(v) \in 1 .. Len(w) /\ m - Len(v) \in 1 .. Len(w) /\ k - Len(v) < m - Len(v)
            /\ c[k] = w[k - Len(v)] /\ c[m] = w[m - Len(v)]
        BY <1>4, <1>5, <2>4, <3>1
      <3> QED BY <2>1, <3>2 DEF Ascending
    <2> QED BY <2>2, <2>3, <2>4
  <1>8. ReadUpTo(c)
    <2>1. ReadUpTo(v) /\ ReadUpTo(w)
      BY <1>2 DEF Ordered
    <2> QED BY <1>5, <2>1 DEF ReadUpTo
  <1> QED BY <1>1, <1>2, <1>3, <1>6, <1>7, <1>8 DEF Ordered, Ascending, ReadUpTo

LEMMA StepOrders == ASSUME AccountInv, AccountInv', Distinct, OrderInv, [Next]_vars PROVE OrderInv'
  <1> SUFFICES ASSUME faults' = 0 PROVE Ordered'
    BY DEF OrderInv
  <1>1. CASE faults' = faults
    <2>1. Ordered
      BY <1>1 DEF OrderInv
    <2>2. faults + 1 # faults
      BY DEF AccountInv, Types
    <2>3. ~ProcessLate
      BY <2>1 DEF Ordered, ProcessLate
    <2>4. ~(disable_all_metrics \/ SendFails \/ GiveUp \/ ClosedUnanswered \/ RestartAgent)
      BY <1>1, <2>2 DEF disable_all_metrics, SendFails, GiveUp, ClosedUnanswered, RestartAgent, Fault
    <2>5. \A i \in Items : ~(Truncate(i) \/ ProcessLogFails(i))
      BY <1>1, <2>2 DEF Truncate, ProcessLogFails, Fault
    <2>6. CASE (\E i \in Items : WriteLine(i) \/ ProcessLog(i)) \/ RefreshChecks
      BY <2>1, <2>6, ReadingOrders
    <2>7. CASE process_value \/ send_buffer \/ Answered \/ process_new_values
      BY <2>1, <2>7, ProcessValueOrders, SendingOrders, ReceivingOrders
    <2>8. CASE UNCHANGED vars
      BY <2>1, <2>8 DEF vars, logs, agent, server, lost, Ordered, Ascending, ReadUpTo, Delivered
    <2> QED BY <2>3, <2>4, <2>5, <2>6, <2>7, <2>8 DEF Next
  <1>2. CASE faults' # faults
    <2>1. faults' = faults + 1
      <3>1. CASE \E i \in Items : WriteLine(i) \/ Truncate(i) \/ ProcessLog(i) \/ ProcessLogFails(i)
        BY <1>2, <3>1 DEF WriteLine, Truncate, ProcessLog, ProcessLogFails, Fault
      <3>2. CASE RefreshChecks \/ disable_all_metrics \/ process_value \/ send_buffer \/ SendFails \/ GiveUp
        BY <1>2, <3>2
           DEF RefreshChecks, disable_all_metrics, process_value, send_buffer, SendFails, GiveUp, Fault
      <3>3. CASE Answered \/ ClosedUnanswered \/ process_new_values \/ ProcessLate \/ RestartAgent
        BY <1>2, <3>3 DEF Answered, ClosedUnanswered, process_new_values, ProcessLate, RestartAgent, Fault
      <3>4. CASE UNCHANGED vars
        BY <1>2, <3>4 DEF vars
      <3> QED BY <3>1, <3>2, <3>3, <3>4 DEF Next
    <2>2. faults + 1 # 0
      BY DEF AccountInv, Types
    <2> QED BY <2>1, <2>2
  <1> QED BY <1>1, <1>2

(* active.c, process_value and send_buffer; trapper.c, process_new_values: *)
(* as long as nothing fails, no line arrives twice, or after a later one.  *)
THEOREM InOrderWithoutFaults == ASSUME Distinct PROVE Spec => []OnceInOrder
  <1>1. Init => OrderInv
    BY DEF Init, OrderInv, Ordered, Ascending, ReadUpTo
  <1>2. AccountInv /\ AccountInv' /\ OrderInv /\ [Next]_vars => OrderInv'
    BY StepOrders
  <1>3. OrderInv => OnceInOrder
    BY DEF OrderInv, Ordered, Ascending, OnceInOrder
  <1> QED BY <1>1, <1>2, <1>3, AlwaysAccounts, PTL DEF Spec
=============================================================================
