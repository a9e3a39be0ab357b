--------------------------- MODULE TrendCache_proofs ---------------------------
(***************************************************************************)
(* Proofs about TrendCache, for any items, values, sizes of the cache and  *)
(* db syncers.                                                             *)
(***************************************************************************)
EXTENDS TrendCache, SequenceTheorems, FiniteSetTheorems, WellFoundedInduction, TLAPS

-----------------------------------------------------------------------------
(* The binary search.                                                      *)

(* What search of DCget_trend_nearestindex says of the range r, when g is  *)
(* search.                                                                 *)
Probe(itemid, g, r) ==
    LET index == r[1] + (r[2] - r[1]) \div 2
        found == trends[index].itemid
    IN  IF found = itemid THEN index
        ELSE IF r[1] = r[2] THEN IF found < itemid THEN index + 1 ELSE index
        ELSE IF found < itemid THEN g[<<index + 1, r[2]>>]
        ELSE g[<<r[1], index>>]

Search(itemid) == CHOOSE g : g = [r \in Ranges(Len(trends)) |-> Probe(itemid, g, r)]

LEMMA SearchIs ==
    ASSUME NEW itemid
    PROVE  DCget_trend_nearestindex(itemid) = IF trends = <<>> THEN 1 ELSE Search(itemid)[<<1, Len(trends)>>]
  BY DEF DCget_trend_nearestindex, Search, Probe

(* The ranges of fewer than k more indices than one.                       *)
Narrow(n, k) == {r \in Ranges(n) : r[2] - r[1] < k}

LEMMA Halves ==
    ASSUME NEW n \in Nat, NEW k \in Nat, NEW r \in Narrow(n, k + 1), r[1] # r[2],
           NEW index, index = r[1] + (r[2] - r[1]) \div 2
    PROVE  /\ <<index + 1, r[2]>> \in Narrow(n, k)
           /\ <<r[1], index>> \in Narrow(n, k)
  <1>1. /\ r[1] \in 1 .. n /\ r[2] \in 1 .. n /\ r[1] < r[2] /\ r[2] - r[1] < k + 1
    BY DEF Narrow, Ranges
  <1> PICK a \in Nat : a = r[1]
    BY <1>1
  <1> PICK b \in Nat : b = r[2]
    BY <1>1
  <1>2. index \in Nat /\ a <= index /\ index < b
    BY <1>1
  <1>3. <<index + 1, b>> \in Ranges(n) /\ <<a, index>> \in Ranges(n)
    BY <1>1, <1>2 DEF Ranges
  <1> QED BY <1>1, <1>2, <1>3 DEF Narrow

(* The recursion ends.                                                     *)
LEMMA SearchExists ==
    ASSUME NEW itemid, NEW n \in Nat
    PROVE  \E g : g = [r \in Ranges(n) |-> Probe(itemid, g, r)]
  <1> DEFINE Defined(k) == \E g : g = [r \in Narrow(n, k) |-> Probe(itemid, g, r)]
             Undefined == {k \in Nat : ~Defined(k)}
  <1>1. Defined(0)
    <2>1. Narrow(n, 0) = {}
      BY DEF Narrow, Ranges
    <2> DEFINE g == [r \in {} |-> 0]
    <2>2. g = [r \in Narrow(n, 0) |-> Probe(itemid, g, r)]
      BY <2>1
    <2> HIDE DEF g
    <2> QED BY <2>2
  <1>2. ASSUME NEW k \in Nat, Defined(k) PROVE Defined(k + 1)
    <2> PICK g : g = [r \in Narrow(n, k) |-> Probe(itemid, g, r)]
      BY <1>2
    <2> PICK h : h = [r \in Narrow(n, k + 1) |-> Probe(itemid, g, r)]
      OBVIOUS
    <2>1. ASSUME NEW r \in Narrow(n, k) PROVE h[r] = g[r]
      <3>1. r \in Narrow(n, k + 1)
        BY DEF Narrow, Ranges
      <3>2. h[r] = Probe(itemid, g, r)
        BY <3>1
      <3>3. g[r] = Probe(itemid, g, r)
        OBVIOUS
      <3> QED BY <3>2, <3>3
    <2>2. ASSUME NEW r \in Narrow(n, k + 1) PROVE Probe(itemid, g, r) = Probe(itemid, h, r)
      <3> DEFINE index == r[1] + (r[2] - r[1]) \div 2
      <3>1. r[1] # r[2] => /\ h[<<index + 1, r[2]>>] = g[<<index + 1, r[2]>>]
                           /\ h[<<r[1], index>>] = g[<<r[1], index>>]
        BY <2>1, Halves
      <3> HIDE DEF index
      <3>2. Probe(itemid, g, r) =
                IF trends[index].itemid = itemid THEN index
                ELSE IF r[1] = r[2] THEN IF trends[index].itemid < itemid THEN index + 1 ELSE index
                ELSE IF trends[index].itemid < itemid THEN g[<<index + 1, r[2]>>]
                ELSE g[<<r[1], index>>]
        BY DEF Probe, index
      <3>3. Probe(itemid, h, r) =
                IF trends[index].itemid = itemid THEN index
                ELSE IF r[1] = r[2] THEN IF trends[index].itemid < itemid THEN index + 1 ELSE index
                ELSE IF trends[index].itemid < itemid THEN h[<<index + 1, r[2]>>]
                ELSE h[<<r[1], index>>]
        BY DEF Probe, index
      <3> QED BY <3>1, <3>2, <3>3
    <2>3. h = [r \in Narrow(n, k + 1) |-> Probe(itemid, h, r)]
      BY <2>2
    <2> QED BY <2>3
  <1>3. Undefined = {}
    <2> SUFFICES ASSUME Undefined # {} PROVE FALSE
      OBVIOUS
    <2> HIDE DEF Defined
    <2>1. PICK k \in Undefined : \A l \in Undefined : ~ (<<l, k>> \in OpToRel(<, Nat))
      BY NatLessThanWellFounded, WFMin
    <2>2. k \in Nat /\ ~Defined(k) /\ \A l \in Undefined : ~ (l < k)
      BY <2>1 DEF OpToRel
    <2>3. k # 0
      BY <1>1, <2>2
    <2>4. k - 1 \in Nat /\ Defined(k - 1)
      BY <2>2, <2>3
    <2> QED BY <1>2, <2>2, <2>4
  <1>4. Defined(n)
    BY <1>3
  <1>5. Narrow(n, n) = Ranges(n)
    BY DEF Narrow, Ranges
  <1> QED BY <1>4, <1>5

(* The index of the structure of the item, or the one that it must get.    *)
PlaceOf(itemid, p) ==
    /\ p \in 1 .. Len(trends) + 1
    /\ \A j \in 1 .. Len(trends) :
          /\ j < p => trends[j].itemid < itemid
          /\ j = p => trends[j].itemid >= itemid
          /\ j > p => trends[j].itemid > itemid

(* The place is in the range or one behind it.                             *)
Around(itemid, r) ==
    \A j \in 1 .. Len(trends) :
        /\ j < r[1] => trends[j].itemid < itemid
        /\ j > r[2] => trends[j].itemid > itemid

(* A range of one place: the item goes there or behind it.                 *)
LEMMA LastProbe ==
    ASSUME NEW n \in Nat, n = Len(trends), NEW itemid \in Nat, NEW a \in 1 .. n,
           NEW found \in Nat, found = trends[a].itemid, found # itemid,
           \A j \in 1 .. n : trends[j].itemid \in Nat,
           \A j \in 1 .. n : /\ j < a => trends[j].itemid < itemid
                             /\ j > a => trends[j].itemid > itemid
    PROVE  PlaceOf(itemid, IF found < itemid THEN a + 1 ELSE a)
  <1>1. CASE found < itemid
    <2>1. \A j \in 1 .. n : /\ j < a + 1 => trends[j].itemid < itemid
                            /\ j = a + 1 => trends[j].itemid >= itemid
                            /\ j > a + 1 => trends[j].itemid > itemid
      <3> SUFFICES ASSUME NEW j \in 1 .. n
                   PROVE  /\ j < a + 1 => trends[j].itemid < itemid
                          /\ j >= a + 1 => trends[j].itemid > itemid /\ trends[j].itemid >= itemid
        OBVIOUS
      <3>1. CASE j <= a
        BY <1>1, <3>1
      <3>2. CASE j > a
        <4>1. trends[j].itemid > itemid /\ trends[j].itemid \in Nat
          BY <3>2
        <4> QED BY <3>2, <4>1
      <3> QED BY <3>1, <3>2
    <2> QED BY <1>1, <2>1 DEF PlaceOf
  <1>2. CASE found > itemid
    <2>1. \A j \in 1 .. n : /\ j < a => trends[j].itemid < itemid
                            /\ j = a => trends[j].itemid >= itemid
                            /\ j > a => trends[j].itemid > itemid
      BY <1>2
    <2> QED BY <1>2, <2>1 DEF PlaceOf
  <1> QED BY <1>1, <1>2

LEMMA SearchFinds ==
    ASSUME TrendsSorted, NEW n \in Nat, n = Len(trends), NEW itemid \in Nat,
           \A j \in 1 .. n : trends[j].itemid \in Nat,
           NEW g, g = [r \in Ranges(n) |-> Probe(itemid, g, r)],
           NEW q \in Ranges(n), Around(itemid, q)
    PROVE  PlaceOf(itemid, g[q])
  <1> DEFINE Right(k) == \A r \in Narrow(n, k) : Around(itemid, r) => PlaceOf(itemid, g[r])
             Wrong == {k \in Nat : ~Right(k)}
  <1>1. Right(0)
    BY DEF Narrow, Ranges
  <1>2. ASSUME NEW k \in Nat, Right(k) PROVE Right(k + 1)
    <2> SUFFICES ASSUME NEW r \in Narrow(n, k + 1), Around(itemid, r)
                 PROVE  PlaceOf(itemid, g[r])
      OBVIOUS
    <2> PICK a \in 1 .. n : a = r[1]
      BY DEF Narrow, Ranges
    <2> PICK b \in 1 .. n : b = r[2]
      BY DEF Narrow, Ranges
    <2> PICK index : index = r[1] + (r[2] - r[1]) \div 2
      OBVIOUS
    <2>1. a <= b /\ r \in Ranges(n)
      BY DEF Narrow, Ranges
    <2>2. index \in 1 .. n /\ a <= index /\ index <= b
      BY <2>1
    <2> PICK found \in Nat : found = trends[index].itemid
      BY <2>2
    <2>3. g[r] = IF found = itemid THEN index
                 ELSE IF a = b THEN IF found < itemid THEN index + 1 ELSE index
                 ELSE IF found < itemid THEN g[<<index + 1, b>>]
                 ELSE g[<<a, index>>]
      BY <2>1 DEF Probe
    <2>4. \A j \in 1 .. n : /\ j < index => trends[j].itemid < found
                            /\ j > index => trends[j].itemid > found
      BY <2>2 DEF TrendsSorted
    <2>5. CASE found = itemid
      <3>1. g[r] = index
        BY <2>3, <2>5
      <3>2. ASSUME NEW j \in 1 .. n
            PROVE  /\ j < index => trends[j].itemid < itemid
                   /\ j = index => trends[j].itemid >= itemid
                   /\ j > index => trends[j].itemid > itemid
        <4>1. CASE j = index
          BY <4>1, <2>2, <2>5
        <4>2. CASE j # index
          BY <4>2, <2>2, <2>4, <2>5
        <4> QED BY <4>1, <4>2
      <3>3. index \in 1 .. Len(trends) + 1
        BY <2>2
      <3> QED BY <3>1, <3>2, <3>3 DEF PlaceOf
    <2>6. CASE found # itemid /\ a = b
      <3>1. index = a
        BY <2>2, <2>6
      <3>2. \A j \in 1 .. n : /\ j < a => trends[j].itemid < itemid
                              /\ j > a => trends[j].itemid > itemid
        BY <2>6 DEF Around
      <3>3. g[r] = IF found < itemid THEN a + 1 ELSE a
        BY <2>3, <2>6, <3>1
      <3>4. found = trends[a].itemid /\ found # itemid
        BY <2>6, <3>1
      <3>5. PlaceOf(itemid, IF found < itemid THEN a + 1 ELSE a)
        BY <3>2, <3>4, LastProbe
      <3> QED BY <3>3, <3>5
    <2>7. CASE found < itemid /\ a # b
      <3>1. <<index + 1, b>> \in Narrow(n, k)
        BY <2>7, Halves
      <3> PICK s : s = <<index + 1, b>>
        OBVIOUS
      <3>2. Around(itemid, s)
        <4> SUFFICES ASSUME NEW j \in 1 .. n
                     PROVE  (j < index + 1 => trends[j].itemid < itemid) /\ (j > b => trends[j].itemid > itemid)
          BY DEF Around
        <4>1. j > b => trends[j].itemid > itemid
          BY DEF Around
        <4>2. j < index => trends[j].itemid < found
          BY <2>4
        <4>3. j < index + 1 => trends[j].itemid < itemid
          BY <4>2, <2>2, <2>7
        <4> QED BY <4>1, <4>3
      <3>3. g[r] = g[s]
        BY <2>3, <2>7
      <3> QED BY <3>1, <3>2, <3>3, <1>2
    <2>8. CASE found > itemid /\ a # b
      <3>1. <<a, index>> \in Narrow(n, k)
        BY <2>8, Halves
      <3> PICK s : s = <<a, index>>
        OBVIOUS
      <3>2. Around(itemid, s)
        <4> SUFFICES ASSUME NEW j \in 1 .. n
                     PROVE  (j < a => trends[j].itemid < itemid) /\ (j > index => trends[j].itemid > itemid)
          BY DEF Around
        <4>1. j < a => trends[j].itemid < itemid
          BY DEF Around
        <4>2. j > index => trends[j].itemid > found
          BY <2>4
        <4>3. j > index => trends[j].itemid > itemid
          BY <4>2, <2>2, <2>8
        <4> QED BY <4>1, <4>3
      <3>3. g[r] = g[s]
        BY <2>3, <2>8
      <3> QED BY <3>1, <3>2, <3>3, <1>2
    <2> QED BY <2>5, <2>6, <2>7, <2>8
  <1>3. Wrong = {}
    <2> SUFFICES ASSUME Wrong # {} PROVE FALSE
      OBVIOUS
    <2> HIDE DEF Right
    <2>1. PICK k \in Wrong : \A l \in Wrong : ~ (<<l, k>> \in OpToRel(<, Nat))
      BY NatLessThanWellFounded, WFMin
    <2>2. k \in Nat /\ ~Right(k) /\ \A l \in Wrong : ~ (l < k)
      BY <2>1 DEF OpToRel
    <2>3. k # 0
      BY <1>1, <2>2
    <2>4. k - 1 \in Nat /\ Right(k - 1)
      BY <2>2, <2>3
    <2> QED BY <1>2, <2>2, <2>4
  <1>4. Right(n) /\ q \in Narrow(n, n)
    BY <1>3 DEF Narrow, Ranges
  <1> QED BY <1>4

(* DCget_trend_nearestindex finds the structure or its place.              *)
LEMMA NearestIndex ==
    ASSUME TrendsSorted, Len(trends) \in Nat, NEW itemid \in Nat,
           trends = <<>> <=> Len(trends) = 0,
           \A j \in 1 .. Len(trends) : trends[j].itemid \in Nat
    PROVE  PlaceOf(itemid, DCget_trend_nearestindex(itemid))
  <1>1. CASE trends = <<>>
    BY <1>1, SearchIs DEF PlaceOf
  <1>2. CASE trends # <<>>
    <2> PICK n \in Nat : n = Len(trends)
      OBVIOUS
    <2> PICK g : g = Search(itemid)
      OBVIOUS
    <2>1. g = [r \in Ranges(n) |-> Probe(itemid, g, r)]
      BY SearchExists DEF Search
    <2> PICK q : q = <<1, n>>
      OBVIOUS
    <2>2. q \in Ranges(n) /\ Around(itemid, q)
      BY <1>2 DEF Ranges, Around
    <2>3. PlaceOf(itemid, g[q])
      BY <2>1, <2>2, SearchFinds
    <2> QED BY <2>3, <1>2, SearchIs
  <1> QED BY <1>1, <1>2

-----------------------------------------------------------------------------
(* The array and the rows.                                                 *)

Value == [itemid : TrendItems, type : Types, clock : Hours, value : Numbers]

Trend == [itemid : TrendItems, type : Types, clock : Hours \cup {0}, num : Nat,
          min : Int, avg : Int, max : Int]

TrendRow == [num : Nat \ {0}, min : Int, avg : Int, max : Int]

Update == [key : Key, row : TrendRow]

Typed ==
    /\ trends \in Seq(Trend)
    /\ rows \in [Key -> TrendRow \cup {NoRow}]
    /\ stage \in [TrendSyncers -> {"idle", "get", "add", "crashed"}]
    /\ todo \in [TrendSyncers -> Seq(Value)]
    /\ trend \in [TrendSyncers -> Nat]
    /\ sql \in [TrendSyncers -> Seq(Update)]
    /\ seen \in Seq(Value)

(* A structure has the hour of its values, if it has any; a syncer that    *)
(* adds a value has one and an index of the array.                         *)
InPlace ==
    /\ \A i \in 1 .. Len(trends) : trends[i].num = 0 <=> trends[i].clock = 0
    /\ \A i \in 1 .. Len(trends) : trends[i].num = 0 => trends[i].avg = 0
    /\ \A s \in TrendSyncers : stage[s] = "add" => todo[s] # <<>> /\ trend[s] <= Len(trends)

ArrayInv == Typed /\ InPlace /\ TrendsSorted

LEMMA Inserted ==
    ASSUME NEW S, NEW t \in Seq(S), NEW e \in S, NEW i \in 1 .. Len(t) + 1
    PROVE  /\ InsertAt(t, i, e) \in Seq(S)
           /\ Len(InsertAt(t, i, e)) = Len(t) + 1
           /\ \A j \in 1 .. Len(t) + 1 :
                 InsertAt(t, i, e)[j] = IF j < i THEN t[j] ELSE IF j = i THEN e ELSE t[j - 1]
  <1>1. PICK n \in Nat : n = Len(t)
    OBVIOUS
  <1>2. PICK a : a = SubSeq(t, 1, i - 1)
    OBVIOUS
  <1>3. PICK b : b = SubSeq(t, i, n)
    OBVIOUS
  <1>4. a \in Seq(S) /\ Len(a) = i - 1 /\ \A j \in 1 .. i - 1 : a[j] = t[j]
    BY <1>1, <1>2
  <1>5. b \in Seq(S) /\ Len(b) = n + 1 - i /\ \A j \in 1 .. n + 1 - i : b[j] = t[i + j - 1]
    <2>1. CASE i <= n
      BY <1>1, <1>3, <2>1
    <2>2. CASE i = n + 1
      <3>1. b = <<>>
        BY <1>1, <1>3, <2>2, SubSeqEmpty
      <3> QED BY <1>1, <3>1, <2>2
    <2> QED BY <1>1, <2>1, <2>2
  <1>6. PICK c : c = a \o <<e>>
    OBVIOUS
  <1>7. c \in Seq(S) /\ Len(c) = i /\ \A j \in 1 .. i : c[j] = IF j < i THEN t[j] ELSE e
    BY <1>4, <1>6
  <1>8. PICK d : d = c \o b
    OBVIOUS
  <1>9. /\ d \in Seq(S) /\ Len(d) = Len(c) + Len(b)
        /\ \A j \in 1 .. Len(c) + Len(b) : d[j] = IF j <= Len(c) THEN c[j] ELSE b[j - Len(c)]
    BY <1>5, <1>7, <1>8, ConcatProperties
  <1>10. d \in Seq(S) /\ Len(d) = n + 1 /\ \A j \in 1 .. n + 1 : d[j] = IF j <= i THEN c[j] ELSE b[j - i]
    BY <1>1, <1>5, <1>7, <1>9
  <1>11. ASSUME NEW j \in 1 .. n + 1
         PROVE  d[j] = IF j < i THEN t[j] ELSE IF j = i THEN e ELSE t[j - 1]
    <2>1. CASE j <= i
      BY <1>1, <2>1, <1>7, <1>10
    <2>2. CASE j > i
      <3>1. j - i \in 1 .. n + 1 - i /\ i + (j - i) - 1 = j - 1
        BY <1>1, <2>2
      <3>2. b[j - i] = t[j - 1]
        BY <3>1, <1>5
      <3>3. d[j] = b[j - i]
        BY <1>1, <2>2, <1>10
      <3> QED BY <1>1, <2>2, <3>2, <3>3
    <2> QED BY <1>1, <2>1, <2>2
  <1>12. InsertAt(t, i, e) = d
    BY <1>1, <1>2, <1>3, <1>6, <1>8 DEF InsertAt
  <1> QED BY <1>1, <1>10, <1>11, <1>12

LEMMA TotalInt ==
    ASSUME NEW type, NEW num \in Nat, NEW avg \in Int
    PROVE  Total(type, num, avg) \in Int
  <1>1. PICK W \in Nat \ {0} : W = 2 ^ UINT_BITS
    BY TrendCacheAssumption
  <1>2. num * avg \in Int
    OBVIOUS
  <1>3. (num * avg) % W \in Int
    BY <1>2
  <1> QED BY <1>1, <1>3 DEF Total

LEMMA AverageInt ==
    ASSUME NEW type, NEW total \in Int, NEW num \in Nat \ {0}
    PROVE  Average(type, total, num) \in Int
  <1>1. PICK W \in Nat \ {0} : W = 2 ^ UINT_BITS
    BY TrendCacheAssumption
  <1>2. total % W \in Int
    OBVIOUS
  <1>3. (total % W) \div num \in Int
    BY <1>2
  <1> QED BY <1>1, <1>3 DEF Average

(* A structure with values is written as a row.                            *)
LEMMA MergedRow ==
    ASSUME NEW t \in Trend, t.num # 0, NEW row \in TrendRow \cup {NoRow}
    PROVE  Merged(t, row) \in TrendRow
  <1>1. /\ t.num \in Nat \ {0} /\ t.min \in Int /\ t.avg \in Int /\ t.max \in Int
    BY DEF Trend
  <1>2. CASE row = NoRow
    BY <1>1, <1>2 DEF Merged, TrendRow
  <1>3. CASE row # NoRow
    <2>1. row.num \in Nat \ {0} /\ row.min \in Int /\ row.avg \in Int /\ row.max \in Int
      BY <1>3 DEF TrendRow
    <2>2. PICK total \in Int : total = Total(t.type, t.num, t.avg) + Total(t.type, row.num, row.avg)
      BY <1>1, <2>1, TotalInt
    <2>3. t.num + row.num \in Nat \ {0}
      BY <1>1, <2>1
    <2>4. PICK avg \in Int : avg = Average(t.type, total, t.num + row.num)
      BY <2>3, AverageInt
    <2>5. Lesser(row.min, t.min) \in Int /\ Greater(row.max, t.max) \in Int
      BY <1>1, <2>1 DEF Lesser, Greater
    <2>6. Merged(t, row) = [num |-> t.num + row.num, min |-> Lesser(row.min, t.min),
                            max |-> Greater(row.max, t.max), avg |-> avg]
      BY <1>3, <2>2, <2>4 DEF Merged
    <2> QED BY <2>3, <2>5, <2>6 DEF TrendRow
  <1> QED BY <1>2, <1>3

LEMMA AccumulatedTrend ==
    ASSUME NEW t \in Trend, NEW v \in Value
    PROVE  /\ Accumulated(t, v) \in Trend
           /\ Accumulated(t, v).num # 0 /\ Accumulated(t, v).clock # 0
           /\ Accumulated(t, v).itemid = t.itemid
  <1>1. PICK num \in Nat : num = IF MustFlush(t, v) THEN 0 ELSE t.num
    BY DEF Trend
  <1>2. PICK avg \in Int : avg = IF MustFlush(t, v) THEN 0 ELSE t.avg
    BY DEF Trend
  <1>3. v.value \in Int /\ t.min \in Int /\ t.max \in Int /\ v.clock \in Hours /\ v.type \in Types
    BY TrendCacheAssumption DEF Value, Trend
  <1>4. PICK total \in Int : total = Total(v.type, num, avg) + v.value
    BY <1>3, TotalInt
  <1>5. PICK new \in Int : new = Average(v.type, total, num + 1)
    BY <1>4, AverageInt
  <1>6. PICK min \in Int : min = IF num = 0 THEN v.value ELSE Lesser(v.value, t.min)
    BY <1>3 DEF Lesser
  <1>7. PICK max \in Int : max = IF num = 0 THEN v.value ELSE Greater(v.value, t.max)
    BY <1>3 DEF Greater
  <1>8. Accumulated(t, v) = [itemid |-> t.itemid, type |-> v.type, clock |-> v.clock, num |-> num + 1,
                             min |-> min, max |-> max, avg |-> new]
    BY <1>1, <1>2, <1>4, <1>5, <1>6, <1>7 DEF Accumulated
  <1>9. t.itemid \in TrendItems
    BY DEF Trend
  <1> QED BY <1>3, <1>8, <1>9, TrendCacheAssumption DEF Trend

LEMMA LastOf ==
    ASSUME NEW n \in Nat, NEW K \in SUBSET (1 .. n), K # {}
    PROVE  \E j \in K : \A i \in K : i <= j
  <1> DEFINE D == {n - j : j \in K}
  <1>1. D \subseteq Nat /\ D # {}
    <2>1. \A j \in K : n - j \in Nat
      OBVIOUS
    <2>2. PICK j : j \in K
      OBVIOUS
    <2>3. n - j \in D
      BY <2>2
    <2> QED BY <2>1, <2>3
  <1>2. PICK d \in D : \A e \in D : <<e, d>> \notin OpToRel(<, Nat)
    <2> HIDE DEF D
    <2> QED BY <1>1, NatLessThanWellFounded, WFMin
  <1>3. PICK j \in K : d = n - j
    OBVIOUS
  <1>4. ASSUME NEW i \in K PROVE i <= j
    <2>1. n - i \in D /\ n - i \in Nat /\ n - j \in Nat
      OBVIOUS
    <2>2. ~(n - i < n - j)
      BY <1>2, <1>3, <2>1 DEF OpToRel
    <2> QED BY <2>2
  <1> QED BY <1>4

(* A row is that of an update, or as it was.                               *)
LEMMA ExecutedRow ==
    ASSUME NEW q, Len(q) \in Nat, NEW k \in Key
    PROVE  \/ Executed(q)[k] = rows[k] /\ \A j \in 1 .. Len(q) : q[j].key # k
           \/ \E j \in 1 .. Len(q) : q[j].key = k /\ Executed(q)[k] = q[j].row
  <1> DEFINE hits == {j \in 1 .. Len(q) : q[j].key = k}
             last == CHOOSE j \in hits : \A i \in hits : i <= j
  <1>1. Executed(q)[k] = IF hits = {} THEN rows[k] ELSE q[last].row
    BY DEF Executed
  <1>2. CASE hits = {}
    BY <1>1, <1>2
  <1>3. CASE hits # {}
    <2>1. last \in hits
      <3> HIDE DEF hits
      <3>1. hits \in SUBSET (1 .. Len(q))
        BY DEF hits
      <3>2. \E j \in hits : \A i \in hits : i <= j
        BY <1>3, <3>1, LastOf
      <3> QED BY <3>2, Zenon
    <2> HIDE DEF last
    <2>2. last \in 1 .. Len(q) /\ q[last].key = k
      BY <2>1
    <2> QED BY <1>1, <1>3, <2>2
  <1> QED BY <1>2, <1>3

-----------------------------------------------------------------------------
(* The steps, as they change the array.                                    *)

LEMMA ArrayInit == TrendInit => ArrayInv
  BY DEF TrendInit, ArrayInv, Typed, InPlace, TrendsSorted

LEMMA ArrayBatch == ASSUME ArrayInv, NEW s \in TrendSyncers, DCmass_update_trends(s) PROVE ArrayInv'
  <1>1. PICK m \in 1 .. MaxBatch : \E b \in Batches(m) : todo' = [todo EXCEPT ![s] = b]
    BY DEF DCmass_update_trends
  <1> PICK b \in Batches(m) : todo' = [todo EXCEPT ![s] = b]
    BY <1>1
  <1>2. b \in [1 .. m -> [itemid : TrendItems, type : Types, clock : Hours, value : Numbers]]
    BY DEF Batches
  <1>3. b \in Seq(Value)
    <2>1. m \in Nat /\ b \in [1 .. m -> Value]
      BY <1>2 DEF Value
    <2> HIDE DEF Value
    <2> QED BY <2>1
  <1>4. /\ stage' = [stage EXCEPT ![s] = "get"]
        /\ UNCHANGED <<trends, rows, trend, sql, seen>>
    BY DEF DCmass_update_trends
  <1>5. Typed'
    BY <1>1, <1>3, <1>4 DEF ArrayInv, Typed
  <1>6. InPlace'
    BY <1>1, <1>4 DEF ArrayInv, Typed, InPlace
  <1> QED BY <1>4, <1>5, <1>6 DEF ArrayInv, TrendsSorted

LEMMA Structures ==
    ASSUME Typed
    PROVE  /\ Len(trends) \in Nat /\ (trends = <<>> <=> Len(trends) = 0)
           /\ \A j \in 1 .. Len(trends) : trends[j] \in Trend /\ trends[j].itemid \in Nat
  <1>1. trends \in Seq(Trend)
    BY DEF Typed
  <1>2. \A t \in Trend : t.itemid \in Nat
    BY TrendCacheAssumption DEF Trend
  <1> QED BY <1>1, <1>2

(* The place of the item of the next value.                                *)
LEMMA NextPlace ==
    ASSUME ArrayInv, NEW s \in TrendSyncers, todo[s] # <<>>
    PROVE  /\ Head(todo[s]) \in Value
           /\ PlaceOf(Head(todo[s]).itemid, DCget_trend_nearestindex(Head(todo[s]).itemid))
  <1>1. Head(todo[s]) \in Value
    BY DEF ArrayInv, Typed
  <1>2. Head(todo[s]).itemid \in Nat
    BY <1>1, TrendCacheAssumption DEF Value
  <1>3. /\ Len(trends) \in Nat /\ (trends = <<>> <=> Len(trends) = 0)
        /\ \A j \in 1 .. Len(trends) : trends[j].itemid \in Nat
    BY Structures DEF ArrayInv
  <1> QED BY <1>1, <1>2, <1>3, NearestIndex DEF ArrayInv

LEMMA ArrayGet == ASSUME ArrayInv, NEW s \in TrendSyncers, DCget_trend(s) PROVE ArrayInv'
  <1>1. PICK itemid : itemid = Head(todo[s]).itemid
    OBVIOUS
  <1>2. PICK index : index = DCget_trend_nearestindex(itemid)
    OBVIOUS
  <1>3. itemid \in TrendItems /\ itemid \in Nat /\ PlaceOf(itemid, index)
    BY <1>1, <1>2, NextPlace, TrendCacheAssumption DEF DCget_trend, Value
  <1>4. PICK n \in Nat : n = Len(trends)
    BY DEF ArrayInv, Typed
  <1>5. index \in 1 .. n + 1
    BY <1>3, <1>4 DEF PlaceOf
  <1>6. /\ stage[s] = "get" /\ stage' = [stage EXCEPT ![s] = "add"] /\ todo[s] # <<>>
        /\ UNCHANGED <<rows, todo, sql, seen>>
    BY DEF DCget_trend
  <1>7. CASE /\ trends' = trends
             /\ trend' = [trend EXCEPT ![s] = 0] \/ (trend' = [trend EXCEPT ![s] = index] /\ index <= n)
    <2>1. Typed'
      <3>1. index \in Nat
        BY <1>5
      <3>2. trend' \in [TrendSyncers -> Nat]
        <4>1. CASE trend' = [trend EXCEPT ![s] = 0]
          BY <4>1 DEF ArrayInv, Typed
        <4>2. CASE trend' = [trend EXCEPT ![s] = index]
          BY <3>1, <4>2 DEF ArrayInv, Typed
        <4> QED BY <1>7, <4>1, <4>2
      <3>3. stage' \in [TrendSyncers -> {"idle", "get", "add", "crashed"}]
        BY <1>6 DEF ArrayInv, Typed
      <3> QED BY <3>2, <3>3, <1>6, <1>7 DEF ArrayInv, Typed
    <2>2. InPlace'
      BY <1>4, <1>5, <1>6, <1>7 DEF ArrayInv, Typed, InPlace
    <2> QED BY <2>1, <2>2, <1>7 DEF ArrayInv, TrendsSorted
  <1>8. CASE /\ ~Found(index, itemid)
             /\ trend' = [trend EXCEPT ![s] = index]
             /\ trends' = InsertAt(trends, index, NewTrend(itemid))
    <2>1. PICK e \in Trend : e = NewTrend(itemid)
      <3>1. /\ itemid \in TrendItems /\ "float" \in Types /\ 0 \in Hours \cup {0} /\ 0 \in Nat /\ 0 \in Int
        BY <1>3 DEF Types
      <3>2. NewTrend(itemid) \in Trend
        BY <3>1 DEF Trend, NewTrend
      <3> QED BY <3>2
    <2>2. e.itemid = itemid /\ e.num = 0 /\ e.clock = 0 /\ e.avg = 0
      BY <2>1 DEF NewTrend
    <2>3. /\ trends' \in Seq(Trend) /\ Len(trends') = n + 1
          /\ \A j \in 1 .. n + 1 :
                trends'[j] = IF j < index THEN trends[j] ELSE IF j = index THEN e ELSE trends[j - 1]
      <3>1. Len(trends) \in Nat /\ trends \in Seq(Trend) /\ index \in 1 .. Len(trends) + 1 /\ e \in Trend
        BY <1>4, <1>5, <2>1 DEF ArrayInv, Typed
      <3>2. /\ InsertAt(trends, index, e) \in Seq(Trend)
            /\ Len(InsertAt(trends, index, e)) = Len(trends) + 1
            /\ \A j \in 1 .. Len(trends) + 1 :
                  InsertAt(trends, index, e)[j] = IF j < index THEN trends[j] ELSE IF j = index THEN e ELSE trends[j - 1]
        BY <3>1, Inserted, SMTT(60)
      <3>3. trends' = InsertAt(trends, index, e)
        BY <1>8, <2>1
      <3> QED BY <1>4, <3>2, <3>3
    <2>4. Typed'
      BY <1>5, <1>6, <1>8, <2>3 DEF ArrayInv, Typed
    <2>5. \A j \in 1 .. n : /\ j < index => trends[j].itemid < itemid
                            /\ j >= index => trends[j].itemid > itemid
      <3> SUFFICES ASSUME NEW j \in 1 .. n, j = index PROVE trends[j].itemid > itemid
        BY <1>3, <1>4, <1>5 DEF PlaceOf
      <3>1. trends[j].itemid # itemid /\ trends[j].itemid \in Nat /\ trends[j].itemid >= itemid
        <4>1. trends[j].itemid \in Nat
          BY <1>4, Structures DEF ArrayInv
        <4>2. trends[j].itemid # itemid
          BY <1>4, <1>8 DEF Found
        <4> QED BY <1>3, <1>4, <4>1, <4>2 DEF PlaceOf
      <3> QED BY <3>1, <1>3
    <2>6. ASSUME NEW i \in 1 .. n + 1, NEW j \in 1 .. n + 1, i < j
          PROVE  trends'[i].itemid < trends'[j].itemid
      <3>1. \A k, l \in 1 .. n : k < l => trends[k].itemid < trends[l].itemid
        BY <1>4 DEF ArrayInv, TrendsSorted
      <3>2. CASE j < index
        <4>1. trends'[i] = trends[i] /\ trends'[j] = trends[j] /\ i \in 1 .. n /\ j \in 1 .. n
          BY <1>5, <2>3, <2>6, <3>2
        <4> QED BY <2>6, <3>1, <4>1
      <3>3. CASE j = index
        <4>1. trends'[i] = trends[i] /\ trends'[j] = e /\ i \in 1 .. n
          BY <1>5, <2>3, <2>6, <3>3
        <4> QED BY <1>5, <2>2, <2>5, <2>6, <3>3, <4>1
      <3>4. CASE index < j /\ i < index
        <4>1. trends'[i] = trends[i] /\ trends'[j] = trends[j - 1] /\ i \in 1 .. n /\ j - 1 \in 1 .. n
          BY <1>5, <2>3, <2>6, <3>4
        <4>2. i < j - 1
          BY <1>5, <3>4
        <4> QED BY <3>1, <4>1, <4>2
      <3>5. CASE index < j /\ i = index
        <4>1. trends'[i] = e /\ trends'[j] = trends[j - 1] /\ j - 1 \in 1 .. n /\ j - 1 >= index
          BY <1>5, <2>3, <2>6, <3>5
        <4>2. trends[j - 1].itemid > itemid
          BY <2>5, <4>1
        <4> QED BY <1>3, <2>2, <4>1, <4>2
      <3>6. CASE index < j /\ i > index
        <4>1. trends'[i] = trends[i - 1] /\ trends'[j] = trends[j - 1] /\ i - 1 \in 1 .. n /\ j - 1 \in 1 .. n
          BY <1>5, <2>3, <2>6, <3>6
        <4>2. i - 1 < j - 1
          BY <2>6
        <4> QED BY <3>1, <4>1, <4>2
      <3> QED BY <1>5, <3>2, <3>3, <3>4, <3>5, <3>6
    <2>7. TrendsSorted'
      BY <2>3, <2>6 DEF TrendsSorted
    <2>8. ASSUME NEW j \in 1 .. n + 1
          PROVE  (trends'[j].num = 0 <=> trends'[j].clock = 0) /\ (trends'[j].num = 0 => trends'[j].avg = 0)
      <3>1. CASE j < index
        BY <1>4, <1>5, <2>3, <3>1 DEF ArrayInv, InPlace
      <3>2. CASE j = index
        BY <2>2, <2>3, <3>2
      <3>3. CASE j > index
        <4>1. j - 1 \in 1 .. n /\ trends'[j] = trends[j - 1]
          BY <1>5, <2>3, <3>3
        <4> QED BY <1>4, <4>1 DEF ArrayInv, InPlace
      <3> QED BY <1>5, <3>1, <3>2, <3>3
    <2>9. ASSUME NEW p \in TrendSyncers, stage'[p] = "add"
          PROVE  todo'[p] # <<>> /\ trend'[p] <= n + 1
      <3>1. CASE p = s
        BY <1>5, <1>6, <1>8, <3>1 DEF ArrayInv, Typed
      <3>2. CASE p # s
        <4>1. todo[p] # <<>> /\ trend[p] <= n /\ trend[p] \in Nat
          BY <1>4, <1>6, <2>9, <3>2 DEF ArrayInv, Typed, InPlace
        <4> QED BY <1>6, <1>8, <3>2, <4>1 DEF ArrayInv, Typed
      <3> QED BY <3>1, <3>2
    <2> QED BY <2>3, <2>4, <2>7, <2>8, <2>9 DEF ArrayInv, InPlace
  <1> QED BY <1>1, <1>2, <1>4, <1>7, <1>8 DEF DCget_trend, Found

(* DCadd_trend changes a structure, and not its item.                      *)
LEMMA ArrayAdd == ASSUME ArrayInv, NEW s \in TrendSyncers, DCadd_trend(s) PROVE ArrayInv'
  <1>1. stage[s] = "add" /\ todo[s] # <<>> /\ trend[s] \in Nat /\ trend[s] <= Len(trends)
        /\ UNCHANGED <<rows, trend>>
    BY DEF DCadd_trend, ArrayInv, Typed, InPlace
  <1>2. CASE trend[s] = 0
    <2>1. /\ stage' = [stage EXCEPT ![s] = "crashed"]
          /\ UNCHANGED <<trends, todo, sql, seen>>
      BY <1>2 DEF DCadd_trend
    <2>2. Typed'
      BY <1>1, <2>1 DEF ArrayInv, Typed
    <2>3. InPlace'
      BY <1>1, <2>1 DEF ArrayInv, Typed, InPlace
    <2> QED BY <2>1, <2>2, <2>3 DEF ArrayInv, TrendsSorted
  <1>3. CASE trend[s] # 0
    <2>1. PICK i \in 1 .. Len(trends) : i = trend[s]
      BY <1>1, <1>3
    <2>2. PICK t \in Trend : t = trends[i]
      BY Structures DEF ArrayInv
    <2>3. PICK v \in Value : v = Head(todo[s])
      BY <1>1 DEF ArrayInv, Typed
    <2>4. PICK u \in Trend : u = Accumulated(t, v)
      BY AccumulatedTrend
    <2>5. u.num # 0 /\ u.clock # 0 /\ u.itemid = t.itemid
      BY <2>4, AccumulatedTrend
    <2>6. /\ sql' = IF MustFlush(t, v) THEN [sql EXCEPT ![s] = Append(sql[s], Flush(t))] ELSE sql
          /\ trends' = [trends EXCEPT ![i] = u]
          /\ todo' = [todo EXCEPT ![s] = Tail(todo[s])]
          /\ seen' = Append(seen, v)
          /\ stage' = [stage EXCEPT ![s] = "get"]
      BY <1>3, <2>1, <2>2, <2>3, <2>4 DEF DCadd_trend
    <2>7. ASSUME MustFlush(t, v) PROVE Flush(t) \in Update
      <3>1. t.num # 0 /\ t.clock # 0
        BY <2>1, <2>2, <2>7 DEF MustFlush, ArrayInv, InPlace, Trend
      <3>2. KeyOf(t) \in Key
        BY <3>1 DEF KeyOf, Key, Trend
      <3>3. rows[KeyOf(t)] \in TrendRow \cup {NoRow}
        BY <3>2 DEF ArrayInv, Typed
      <3>4. Merged(t, rows[KeyOf(t)]) \in TrendRow
        BY <3>1, <3>3, MergedRow
      <3> QED BY <3>2, <3>4 DEF Flush, FoundRow, Update
    <2>8. sql' \in [TrendSyncers -> Seq(Update)]
      <3>1. CASE MustFlush(t, v)
        <4>1. Append(sql[s], Flush(t)) \in Seq(Update)
          BY <2>7, <3>1 DEF ArrayInv, Typed
        <4> QED BY <2>6, <3>1, <4>1 DEF ArrayInv, Typed
      <3>2. CASE ~MustFlush(t, v)
        BY <2>6, <3>2 DEF ArrayInv, Typed
      <3> QED BY <3>1, <3>2
    <2>9. trends' \in Seq(Trend) /\ Len(trends') = Len(trends)
      BY <2>6 DEF ArrayInv, Typed
    <2>10. \A j \in 1 .. Len(trends) : trends'[j] = IF j = i THEN u ELSE trends[j]
      BY <2>6 DEF ArrayInv, Typed
    <2>11. Typed'
      <3>1. todo' \in [TrendSyncers -> Seq(Value)] /\ seen' \in Seq(Value)
        BY <1>1, <2>6 DEF ArrayInv, Typed
      <3> QED BY <1>1, <2>6, <2>8, <2>9, <3>1 DEF ArrayInv, Typed
    <2>12. InPlace'
      BY <1>1, <2>5, <2>6, <2>9, <2>10 DEF ArrayInv, Typed, InPlace
    <2>13. TrendsSorted'
      BY <2>2, <2>5, <2>9, <2>10 DEF ArrayInv, TrendsSorted
    <2> QED BY <2>11, <2>12, <2>13 DEF ArrayInv
  <1> QED BY <1>2, <1>3

LEMMA ExecutedTyped ==
    ASSUME Typed, NEW q, Len(q) \in Nat,
           \A j \in 1 .. Len(q) : q[j].key \in Key => q[j].row \in TrendRow
    PROVE  Executed(q) \in [Key -> TrendRow \cup {NoRow}]
  <1>1. ASSUME NEW k \in Key PROVE Executed(q)[k] \in TrendRow \cup {NoRow}
    <2>1. rows[k] \in TrendRow \cup {NoRow}
      BY DEF Typed
    <2> QED BY <2>1, ExecutedRow
  <1>2. Executed(q) = [k \in Key |-> Executed(q)[k]]
    BY DEF Executed
  <1> QED BY <1>1, <1>2

LEMMA ArrayExecute == ASSUME ArrayInv, NEW s \in TrendSyncers, Execute(s) PROVE ArrayInv'
  <1>1. /\ rows' = Executed(sql[s])
        /\ sql' = [sql EXCEPT ![s] = <<>>] /\ stage' = [stage EXCEPT ![s] = "idle"]
        /\ UNCHANGED <<trends, todo, trend, seen>>
    BY DEF Execute
  <1>2. rows' \in [Key -> TrendRow \cup {NoRow}]
    <2>1. sql[s] \in Seq(Update)
      BY DEF ArrayInv, Typed
    <2>2. Len(sql[s]) \in Nat /\ \A j \in 1 .. Len(sql[s]) : sql[s][j] \in Update
      BY <2>1
    <2>3. \A u \in Update : u.row \in TrendRow
      BY DEF Update
    <2> QED BY <1>1, <2>2, <2>3, ExecutedTyped DEF ArrayInv
  <1>3. Typed'
    BY <1>1, <1>2 DEF ArrayInv, Typed
  <1>4. InPlace'
    BY <1>1 DEF ArrayInv, Typed, InPlace
  <1> QED BY <1>1, <1>3, <1>4 DEF ArrayInv, TrendsSorted

(* The updates of DCsync_trends.                                           *)
Flushes == [i \in 1 .. Len(trends) |-> Flush(trends[i])]

LEMMA FlushesOf ==
    ASSUME ArrayInv
    PROVE  /\ Len(Flushes) = Len(trends) /\ Len(trends) \in Nat
           /\ \A j \in 1 .. Len(trends) :
                 /\ Flushes[j].key = KeyOf(trends[j])
                 /\ KeyOf(trends[j]) \in Key => /\ Flushes[j].row = Merged(trends[j], rows[KeyOf(trends[j])])
                                               /\ trends[j].num # 0
                                               /\ Flushes[j].row \in TrendRow
  <1>1. Len(trends) \in Nat /\ Len(Flushes) = Len(trends)
    BY Structures DEF ArrayInv, Flushes
  <1> SUFFICES ASSUME NEW j \in 1 .. Len(trends)
               PROVE  /\ Flushes[j].key = KeyOf(trends[j])
                      /\ KeyOf(trends[j]) \in Key => /\ Flushes[j].row = Merged(trends[j], rows[KeyOf(trends[j])])
                                                    /\ trends[j].num # 0
                                                    /\ Flushes[j].row \in TrendRow
    BY <1>1
  <1>2. PICK t \in Trend : t = trends[j]
    BY Structures DEF ArrayInv
  <1>3. /\ Flushes[j].key = KeyOf(t)
        /\ KeyOf(t) \in Key => Flushes[j].row = Merged(t, rows[KeyOf(t)])
    BY <1>2 DEF Flushes, Flush, FoundRow
  <1>4. ASSUME KeyOf(t) \in Key PROVE t.num # 0 /\ Flushes[j].row \in TrendRow
    <2>1. t.clock \in Hours
      BY <1>4 DEF KeyOf, Key
    <2>2. t.num # 0
      BY <1>2, <2>1, TrendCacheAssumption DEF ArrayInv, InPlace
    <2>3. rows[KeyOf(t)] \in TrendRow \cup {NoRow}
      BY <1>4 DEF ArrayInv, Typed
    <2> QED BY <1>3, <1>4, <2>2, <2>3, MergedRow
  <1> QED BY <1>2, <1>3, <1>4

LEMMA ArraySync == ASSUME ArrayInv, DCsync_trends PROVE ArrayInv'
  <1>1. /\ rows' = Executed(Flushes) /\ trends' = <<>>
        /\ UNCHANGED <<stage, todo, trend, sql, seen>>
        /\ \A s \in TrendSyncers : stage[s] = "idle"
    BY DEF DCsync_trends, Flushes
  <1>2. rows' \in [Key -> TrendRow \cup {NoRow}]
    BY <1>1, FlushesOf, ExecutedTyped DEF ArrayInv
  <1>3. Typed'
    BY <1>1, <1>2 DEF ArrayInv, Typed
  <1>4. InPlace' /\ TrendsSorted'
    BY <1>1 DEF InPlace, TrendsSorted
  <1> QED BY <1>3, <1>4 DEF ArrayInv

LEMMA ArrayKill == ASSUME ArrayInv, KillSyncers PROVE ArrayInv'
  <1>1. /\ stage' = [s \in TrendSyncers |-> "idle"] /\ todo' = [s \in TrendSyncers |-> <<>>]
        /\ sql' = [s \in TrendSyncers |-> <<>>]
        /\ UNCHANGED <<trends, rows, trend, seen>>
    BY DEF KillSyncers
  <1>2. <<>> \in Seq(Value) /\ <<>> \in Seq(Update)
    OBVIOUS
  <1>3. todo' \in [TrendSyncers -> Seq(Value)] /\ sql' \in [TrendSyncers -> Seq(Update)]
    BY <1>1, <1>2
  <1>4. Typed'
    BY <1>1, <1>3 DEF ArrayInv, Typed
  <1>5. InPlace' /\ TrendsSorted'
    BY <1>1 DEF ArrayInv, InPlace, TrendsSorted
  <1> QED BY <1>4, <1>5 DEF ArrayInv

LEMMA ArrayNext == ASSUME ArrayInv, [TrendNext]_trendVars PROVE ArrayInv'
  <1>1. CASE UNCHANGED trendVars
    BY <1>1 DEF trendVars, ArrayInv, Typed, InPlace, TrendsSorted
  <1>2. CASE TrendNext
    BY <1>2, ArrayBatch, ArrayGet, ArrayAdd, ArrayExecute, ArrayKill, ArraySync DEF TrendNext
  <1> QED BY <1>1, <1>2

(* The binary search of DCget_trend_nearestindex and the insertion of      *)
(* DCget_trend keep the array sorted, with one structure for an item, for  *)
(* any number of db syncers that change it at once.                        *)
THEOREM StaysSorted == TrendSpec => []TrendsSorted
  <1>1. ArrayInv => TrendsSorted
    BY DEF ArrayInv
  <1> QED BY <1>1, ArrayInit, ArrayNext, PTL DEF TrendSpec

-----------------------------------------------------------------------------
(* AverageBetween: what bounds the numbers that num * avg multiplies.      *)
(* The structures that hold values.                                        *)
Kept == {trends[i] : i \in {j \in 1 .. Len(trends) : trends[j].num > 0}}

(* What a step does to them.                                               *)
KeepsRows == Kept' = Kept /\ Unexecuted' = Unexecuted /\ rows' = rows /\ seen' = seen

Adds(t, v) ==
    /\ Kept' = {u \in Kept : u.itemid # t.itemid} \cup {Accumulated(t, v)}
    /\ Unexecuted' = Unexecuted \cup (IF MustFlush(t, v) THEN {Flush(t)} ELSE {})
    /\ rows' = rows /\ seen' = Append(seen, v)
    /\ t.num > 0 => t \in Kept
    /\ \A u \in Kept : u.itemid = t.itemid => u = t
    /\ t.num = 0 => t.avg = 0

Writes ==
    /\ Kept' = Kept /\ Unexecuted' \subseteq Unexecuted /\ seen' = seen
    /\ \A k \in Key : \/ rows'[k] = rows[k]
                      \/ \E p \in Unexecuted : p.key = k /\ rows'[k] = p.row

WritesAll ==
    /\ Kept' = {} /\ Unexecuted' = Unexecuted /\ seen' = seen
    /\ \A k \in Key : \/ rows'[k] = rows[k] /\ \A t \in Kept : KeyOf(t) # k
                      \/ \E t \in Kept : KeyOf(t) = k /\ rows'[k] = Merged(t, rows[k])

LEMMA KeptTyped ==
    ASSUME ArrayInv
    PROVE  /\ \A t \in Kept : t \in Trend /\ t.num \in Nat \ {0} /\ KeyOf(t) \in Key
           /\ \A t, u \in Kept : t.itemid = u.itemid => t = u
           /\ \A p \in Unexecuted : p \in Update
           /\ Len(seen) \in Nat
  <1>1. ASSUME NEW t \in Kept PROVE t \in Trend /\ t.num \in Nat \ {0} /\ KeyOf(t) \in Key
    <2>1. PICK i \in 1 .. Len(trends) : t = trends[i] /\ trends[i].num > 0
      BY DEF Kept
    <2>2. t \in Trend
      BY <2>1, Structures DEF ArrayInv
    <2>3. t.num \in Nat \ {0}
      BY <2>1, <2>2 DEF Trend
    <2>4. t.clock # 0
      BY <2>1, <2>3 DEF ArrayInv, InPlace
    <2> QED BY <2>2, <2>3, <2>4 DEF Trend, KeyOf, Key
  <1>2. ASSUME NEW t \in Kept, NEW u \in Kept, t.itemid = u.itemid PROVE t = u
    <2>1. PICK i \in 1 .. Len(trends) : t = trends[i]
      BY DEF Kept
    <2>2. PICK j \in 1 .. Len(trends) : u = trends[j]
      BY DEF Kept
    <2>3. trends[i].itemid \in Nat /\ trends[j].itemid \in Nat /\ Len(trends) \in Nat
      BY Structures DEF ArrayInv
    <2>4. i = j
      BY <1>2, <2>1, <2>2, <2>3 DEF ArrayInv, TrendsSorted
    <2> QED BY <2>1, <2>2, <2>4
  <1>3. ASSUME NEW p \in Unexecuted PROVE p \in Update
    <2>1. PICK s \in TrendSyncers : \E j \in 1 .. Len(sql[s]) : p = sql[s][j]
      BY DEF Unexecuted
    <2>2. sql[s] \in Seq(Update)
      BY DEF ArrayInv, Typed
    <2> QED BY <2>1, <2>2
  <1>4. Len(seen) \in Nat
    BY DEF ArrayInv, Typed
  <1> QED BY <1>1, <1>2, <1>3, <1>4

LEMMA MovesGet == ASSUME ArrayInv, NEW s \in TrendSyncers, DCget_trend(s) PROVE KeepsRows
  <1>1. rows' = rows /\ sql' = sql /\ seen' = seen
    BY DEF DCget_trend
  <1>2. Unexecuted' = Unexecuted
    BY <1>1 DEF Unexecuted
  <1>3. CASE trends' = trends
    BY <1>1, <1>2, <1>3 DEF KeepsRows, Kept
  <1>4. CASE trends' # trends
    <2>1. PICK itemid : itemid = Head(todo[s]).itemid
      OBVIOUS
    <2>2. PICK index : index = DCget_trend_nearestindex(itemid)
      OBVIOUS
    <2>3. trends' = InsertAt(trends, index, NewTrend(itemid))
      BY <1>4, <2>1, <2>2 DEF DCget_trend
    <2>4. itemid \in TrendItems /\ PlaceOf(itemid, index)
      BY <2>1, <2>2, NextPlace DEF DCget_trend, Value
    <2>5. Len(trends) \in Nat /\ trends \in Seq(Trend) /\ index \in 1 .. Len(trends) + 1
      BY <2>4, Structures DEF ArrayInv, Typed, PlaceOf
    <2>6. NewTrend(itemid) \in Trend /\ NewTrend(itemid).num = 0
      BY <2>4 DEF NewTrend, Trend, Types
    <2>7. /\ Len(trends') = Len(trends) + 1
          /\ \A j \in 1 .. Len(trends) + 1 :
                trends'[j] = IF j < index THEN trends[j]
                             ELSE IF j = index THEN NewTrend(itemid) ELSE trends[j - 1]
      BY <2>3, <2>5, <2>6, Inserted
    <2>8. ASSUME NEW t \in Kept' PROVE t \in Kept
      <3>1. PICK j \in 1 .. Len(trends) + 1 : t = trends'[j] /\ trends'[j].num > 0
        BY <2>7 DEF Kept
      <3>2. j # index
        BY <2>5, <2>6, <2>7, <3>1
      <3>3. PICK i \in 1 .. Len(trends) : t = trends[i]
        BY <2>5, <2>7, <3>1, <3>2
      <3> QED BY <3>1, <3>3 DEF Kept
    <2>9. ASSUME NEW t \in Kept PROVE t \in Kept'
      <3>1. PICK j \in 1 .. Len(trends) : t = trends[j] /\ trends[j].num > 0
        BY DEF Kept
      <3>2. PICK i \in 1 .. Len(trends) + 1 : i = IF j < index THEN j ELSE j + 1
        BY <2>5
      <3>3. trends'[i] = t
        BY <2>5, <2>7, <3>1, <3>2
      <3> QED BY <2>7, <3>1, <3>3 DEF Kept
    <2> QED BY <1>1, <1>2, <2>8, <2>9 DEF KeepsRows
  <1> QED BY <1>3, <1>4

LEMMA MovesAdd ==
    ASSUME ArrayInv, NEW s \in TrendSyncers, DCadd_trend(s)
    PROVE  \/ trend[s] = 0 /\ KeepsRows
           \/ trend[s] # 0 /\ \E t \in Trend, v \in Value :
                                 t = trends[trend[s]] /\ v = Head(todo[s]) /\ Adds(t, v)
  <1>1. stage[s] = "add" /\ todo[s] # <<>> /\ trend[s] \in Nat /\ trend[s] <= Len(trends)
        /\ rows' = rows
    BY DEF DCadd_trend, ArrayInv, Typed, InPlace
  <1>2. CASE trend[s] = 0
    <2>1. trends' = trends /\ sql' = sql /\ seen' = seen
      BY <1>2 DEF DCadd_trend
    <2> QED BY <1>1, <1>2, <2>1 DEF KeepsRows, Kept, Unexecuted
  <1>3. CASE trend[s] # 0
    <2>1. PICK i \in 1 .. Len(trends) : i = trend[s]
      BY <1>1, <1>3, Structures DEF ArrayInv
    <2>2. PICK t \in Trend : t = trends[i]
      BY Structures DEF ArrayInv
    <2>3. PICK v \in Value : v = Head(todo[s])
      BY <1>1, NextPlace
    <2>4. /\ sql' = IF MustFlush(t, v) THEN [sql EXCEPT ![s] = Append(@, Flush(t))] ELSE sql
          /\ trends' = [trends EXCEPT ![i] = Accumulated(t, v)]
          /\ seen' = Append(seen, v)
      BY <1>3, <2>1, <2>2, <2>3 DEF DCadd_trend
    <2>5. Len(seen') = Len(seen) + 1
      BY <2>3, <2>4 DEF ArrayInv, Typed
    <2>6. t.num > 0 => t \in Kept
      BY <2>2 DEF Kept
    <2>7. /\ Len(trends') = Len(trends)
          /\ \A j \in 1 .. Len(trends) : trends'[j] = IF j = i THEN Accumulated(t, v) ELSE trends[j]
      BY <2>4 DEF ArrayInv, Typed
    <2>8. ASSUME NEW u \in Kept', u # Accumulated(t, v) PROVE u \in Kept /\ u.itemid # t.itemid
      <3>1. PICK j \in 1 .. Len(trends) : u = trends'[j] /\ trends'[j].num > 0
        BY <2>7 DEF Kept
      <3>2. j # i /\ u = trends[j]
        BY <2>7, <2>8, <3>1
      <3>3. u \in Kept
        BY <3>1, <3>2 DEF Kept
      <3>4. trends[i].itemid \in Nat /\ trends[j].itemid \in Nat /\ Len(trends) \in Nat
        BY Structures DEF ArrayInv
      <3>5. trends[j].itemid # trends[i].itemid
        BY <3>2, <3>4 DEF ArrayInv, TrendsSorted
      <3> QED BY <2>2, <3>2, <3>3, <3>5
    <2>9. ASSUME NEW p \in Unexecuted'
          PROVE  p \in Unexecuted \cup (IF MustFlush(t, v) THEN {Flush(t)} ELSE {})
      <3>1. CASE MustFlush(t, v)
        <4>1. PICK f : f = Flush(t)
          OBVIOUS
        <4>2. PICK q \in TrendSyncers : \E j \in 1 .. Len(sql'[q]) : p = sql'[q][j]
          BY DEF Unexecuted
        <4>3. sql' = [sql EXCEPT ![s] = Append(sql[s], f)]
          BY <2>4, <3>1, <4>1
        <4>4. sql[q] \in Seq(Update)
          BY DEF ArrayInv, Typed
        <4>5. sql \in [TrendSyncers -> Seq(Update)]
          BY DEF ArrayInv, Typed
        <4>6. CASE q # s
          <5>1. sql'[q] = sql[q]
            BY <4>3, <4>5, <4>6
          <5> QED BY <4>2, <5>1 DEF Unexecuted
        <4>7. CASE q = s
          <5>1. sql'[q] = Append(sql[q], f)
            BY <4>3, <4>5, <4>7
          <5>2. /\ Len(sql'[q]) = Len(sql[q]) + 1 /\ Len(sql[q]) \in Nat
                /\ \A j \in 1 .. Len(sql[q]) + 1 :
                      sql'[q][j] = IF j = Len(sql[q]) + 1 THEN f ELSE sql[q][j]
            BY <4>4, <5>1
          <5>3. p = f \/ \E j \in 1 .. Len(sql[q]) : p = sql[q][j]
            BY <4>2, <5>2
          <5> QED BY <3>1, <4>1, <5>3 DEF Unexecuted
        <4> QED BY <4>6, <4>7
      <3>2. CASE ~MustFlush(t, v)
        BY <2>4, <3>2 DEF Unexecuted
      <3> QED BY <3>1, <3>2
    <2>10. Accumulated(t, v) \in Kept'
      <3>1. Accumulated(t, v).num > 0
        BY AccumulatedTrend DEF Trend
      <3>2. i \in 1 .. Len(trends') /\ trends'[i] = Accumulated(t, v)
        BY <2>7
      <3> QED BY <3>1, <3>2 DEF Kept
    <2>11. ASSUME NEW u \in Kept, u.itemid # t.itemid PROVE u \in Kept'
      <3>1. PICK j \in 1 .. Len(trends) : u = trends[j] /\ trends[j].num > 0
        BY DEF Kept
      <3>2. j # i
        BY <2>2, <2>11, <3>1
      <3>3. j \in 1 .. Len(trends') /\ trends'[j] = u
        BY <2>7, <3>1, <3>2
      <3> QED BY <3>1, <3>3 DEF Kept
    <2>12. ASSUME NEW p, p \in Unexecuted \cup (IF MustFlush(t, v) THEN {Flush(t)} ELSE {})
           PROVE  p \in Unexecuted'
      <3>1. CASE MustFlush(t, v)
        <4>1. PICK f : f = Flush(t)
          OBVIOUS
        <4>2. sql' = [sql EXCEPT ![s] = Append(sql[s], f)]
          BY <2>4, <3>1, <4>1
        <4>3. sql \in [TrendSyncers -> Seq(Update)] /\ sql[s] \in Seq(Update)
          BY DEF ArrayInv, Typed
        <4>4. sql'[s] = Append(sql[s], f)
          BY <4>2, <4>3
        <4>5. /\ Len(sql'[s]) = Len(sql[s]) + 1 /\ Len(sql[s]) \in Nat
              /\ \A j \in 1 .. Len(sql[s]) + 1 :
                    sql'[s][j] = IF j = Len(sql[s]) + 1 THEN f ELSE sql[s][j]
          BY <4>3, <4>4
        <4>6. CASE p = f
          <5>1. PICK j \in 1 .. Len(sql'[s]) : j = Len(sql'[s])
            BY <4>5
          <5>2. p = sql'[s][j]
            BY <4>5, <4>6, <5>1
          <5> QED BY <5>2 DEF Unexecuted
        <4>7. CASE p \in Unexecuted
          <5>1. PICK q \in TrendSyncers : \E j \in 1 .. Len(sql[q]) : p = sql[q][j]
            BY <4>7 DEF Unexecuted
          <5>2. CASE q = s
            <6>1. PICK j \in 1 .. Len(sql[s]) : p = sql[s][j]
              BY <5>1, <5>2
            <6>2. j \in 1 .. Len(sql'[s]) /\ sql'[s][j] = p
              BY <4>5, <6>1
            <6> QED BY <6>2 DEF Unexecuted
          <5>3. CASE q # s
            <6>1. sql'[q] = sql[q]
              BY <4>2, <4>3, <5>3
            <6> QED BY <5>1, <6>1 DEF Unexecuted
          <5> QED BY <5>2, <5>3
        <4> QED BY <2>12, <3>1, <4>1, <4>6, <4>7
      <3>2. CASE ~MustFlush(t, v)
        BY <2>4, <2>12, <3>2 DEF Unexecuted
      <3> QED BY <3>1, <3>2
    <2>13. Kept' = {u \in Kept : u.itemid # t.itemid} \cup {Accumulated(t, v)}
      BY <2>8, <2>10, <2>11
    <2>14. Unexecuted' = Unexecuted \cup (IF MustFlush(t, v) THEN {Flush(t)} ELSE {})
      BY <2>9, <2>12
    <2>15. ASSUME NEW u \in Kept, u.itemid = t.itemid PROVE u = t
      <3>1. PICK j \in 1 .. Len(trends) : u = trends[j]
        BY DEF Kept
      <3>2. trends[i].itemid \in Nat /\ trends[j].itemid \in Nat /\ Len(trends) \in Nat
        BY Structures DEF ArrayInv
      <3>3. i = j
        BY <2>2, <2>15, <3>1, <3>2 DEF ArrayInv, TrendsSorted
      <3> QED BY <2>2, <3>1, <3>3
    <2>16. t.num = 0 => t.avg = 0
      BY <2>2 DEF ArrayInv, InPlace
    <2>17. Adds(t, v)
      BY <1>1, <2>4, <2>6, <2>13, <2>14, <2>15, <2>16 DEF Adds
    <2> QED BY <1>3, <2>1, <2>2, <2>3, <2>17
  <1> QED BY <1>2, <1>3

LEMMA MovesExecute == ASSUME ArrayInv, NEW s \in TrendSyncers, Execute(s) PROVE Writes
  <1>1. /\ rows' = Executed(sql[s]) /\ sql' = [sql EXCEPT ![s] = <<>>]
        /\ trends' = trends /\ seen' = seen
    BY DEF Execute
  <1>2. sql \in [TrendSyncers -> Seq(Update)]
    BY DEF ArrayInv, Typed
  <1>3. \A q \in TrendSyncers : sql'[q] = IF q = s THEN <<>> ELSE sql[q]
    BY <1>1, <1>2
  <1>4. ASSUME NEW p \in Unexecuted' PROVE p \in Unexecuted
    <2>1. PICK q \in TrendSyncers : \E j \in 1 .. Len(sql'[q]) : p = sql'[q][j]
      BY DEF Unexecuted
    <2>2. q # s
      BY <1>3, <2>1
    <2> QED BY <1>3, <2>1, <2>2 DEF Unexecuted
  <1>5. ASSUME NEW k \in Key
        PROVE  rows'[k] = rows[k] \/ \E p \in Unexecuted : p.key = k /\ rows'[k] = p.row
    <2>1. PICK q : q = sql[s]
      OBVIOUS
    <2>2. Len(q) \in Nat
      BY <1>2, <2>1
    <2>3. \/ Executed(q)[k] = rows[k]
          \/ \E j \in 1 .. Len(q) : q[j].key = k /\ Executed(q)[k] = q[j].row
      BY <2>2, ExecutedRow
    <2> QED BY <1>1, <2>1, <2>3 DEF Unexecuted
  <1> QED BY <1>1, <1>4, <1>5 DEF Writes, Kept

LEMMA MovesSync == ASSUME ArrayInv, DCsync_trends PROVE WritesAll
  <1>1. rows' = Executed(Flushes) /\ trends' = <<>> /\ sql' = sql /\ seen' = seen
    BY DEF DCsync_trends, Flushes
  <1>2. Kept' = {}
    BY <1>1 DEF Kept
  <1>3. ASSUME NEW k \in Key
        PROVE  \/ rows'[k] = rows[k] /\ \A t \in Kept : KeyOf(t) # k
               \/ \E t \in Kept : KeyOf(t) = k /\ rows'[k] = Merged(t, rows[k])
    <2>1. PICK q : q = Flushes
      OBVIOUS
    <2>2. Len(q) \in Nat /\ Len(q) = Len(trends)
      BY <2>1, FlushesOf
    <2>3. CASE Executed(q)[k] = rows[k] /\ \A j \in 1 .. Len(q) : q[j].key # k
      <3>1. ASSUME NEW t \in Kept PROVE KeyOf(t) # k
        <4>1. PICK j \in 1 .. Len(trends) : t = trends[j]
          BY DEF Kept
        <4>2. q[j].key = KeyOf(t) /\ j \in 1 .. Len(q)
          BY <2>1, <2>2, <4>1, FlushesOf
        <4> QED BY <2>3, <4>2
      <3> QED BY <1>1, <2>1, <2>3, <3>1
    <2>4. CASE \E j \in 1 .. Len(q) : q[j].key = k /\ Executed(q)[k] = q[j].row
      <3>1. PICK j \in 1 .. Len(trends) : q[j].key = k /\ Executed(q)[k] = q[j].row
        BY <2>2, <2>4
      <3>2. KeyOf(trends[j]) = k /\ q[j].row = Merged(trends[j], rows[k]) /\ trends[j].num # 0
        BY <2>1, <3>1, FlushesOf
      <3>3. trends[j] \in Kept
        <4>1. trends[j].num \in Nat
          BY Structures DEF ArrayInv, Trend
        <4> QED BY <3>2, <4>1 DEF Kept
      <3> QED BY <1>1, <2>1, <3>1, <3>2, <3>3
    <2> QED BY <2>2, <2>3, <2>4, ExecutedRow
  <1> QED BY <1>1, <1>2, <1>3 DEF WritesAll, Unexecuted

LEMMA MovesKill == ASSUME KillSyncers PROVE Writes /\ Unexecuted' = {}
  <1>1. /\ sql' = [s \in TrendSyncers |-> <<>>]
        /\ trends' = trends /\ rows' = rows /\ seen' = seen
    BY DEF KillSyncers
  <1>2. Unexecuted' = {}
    BY <1>1 DEF Unexecuted
  <1> QED BY <1>1, <1>2 DEF Writes, Kept

LEMMA Moves ==
    ASSUME ArrayInv, [TrendNext]_trendVars
    PROVE  \/ KeepsRows
           \/ \E t \in Trend, v \in Value : Adds(t, v)
           \/ Writes
           \/ WritesAll
  <1>1. CASE UNCHANGED trendVars
    BY <1>1 DEF trendVars, KeepsRows, Kept, Unexecuted
  <1>2. ASSUME NEW s \in TrendSyncers, DCmass_update_trends(s) PROVE KeepsRows
    <2>1. trends' = trends /\ sql' = sql /\ rows' = rows /\ seen' = seen
      BY <1>2 DEF DCmass_update_trends
    <2> QED BY <2>1 DEF KeepsRows, Kept, Unexecuted
  <1> QED BY <1>1, <1>2, MovesGet, MovesAdd, MovesExecute, MovesKill, MovesSync DEF TrendNext

-----------------------------------------------------------------------------
(* No summary of values counts more of them than were added: a structure   *)
(* together with the row it will be merged into, committed or not.         *)
Counted ==
    /\ \A k \in Key : rows[k].num <= Len(seen)
    /\ \A p \in Unexecuted : p.row.num <= Len(seen)
    /\ \A t \in Kept : t.num + rows[KeyOf(t)].num <= Len(seen)
    /\ \A t \in Kept, p \in Unexecuted : p.key = KeyOf(t) => t.num + p.row.num <= Len(seen)

CountInv == ArrayInv /\ Counted

LEMMA RowNum ==
    ASSUME ArrayInv, NEW k \in Key
    PROVE  rows[k].num \in Nat /\ (rows[k] \in TrendRow \/ rows[k] = NoRow)
  <1>1. rows[k] \in TrendRow \cup {NoRow}
    BY DEF ArrayInv, Typed
  <1> QED BY <1>1 DEF TrendRow, NoRow

LEMMA MergedNum ==
    ASSUME NEW t, NEW row, t.num \in Nat, row.num \in Nat
    PROVE  Merged(t, row).num = t.num + row.num
  BY DEF Merged, NoRow

LEMMA PendingNum ==
    ASSUME ArrayInv, NEW p \in Unexecuted
    PROVE  p.row.num \in Nat /\ p.key \in Key /\ p.row \in TrendRow
  BY KeptTyped DEF Update, TrendRow

LEMMA CountInit == TrendInit => Counted
  <1> SUFFICES ASSUME TrendInit PROVE Counted
    OBVIOUS
  <1>1. Kept = {} /\ Unexecuted = {} /\ Len(seen) = 0
    BY DEF TrendInit, Kept, Unexecuted
  <1>2. \A k \in Key : rows[k].num = 0
    BY DEF TrendInit, NoRow
  <1> QED BY <1>1, <1>2 DEF Counted

LEMMA CountAdds ==
    ASSUME CountInv, NEW t \in Trend, NEW v \in Value, Adds(t, v)
    PROVE  Counted'
  <1>1. PICK a \in Trend : a = Accumulated(t, v)
    BY AccumulatedTrend
  <1>2. PICK n \in Nat : n = Len(seen)
    BY KeptTyped DEF CountInv
  <1>3. Len(seen') = n + 1 /\ rows' = rows
    BY <1>2 DEF Adds
  <1>4. \A k \in Key : rows[k].num \in Nat /\ rows[k].num <= n
    BY <1>2, RowNum DEF CountInv, Counted
  <1>5. \A p \in Unexecuted : p.row.num \in Nat /\ p.row.num <= n
    BY <1>2, PendingNum DEF CountInv, Counted
  <1>6. \A u \in Kept : u.num \in Nat /\ KeyOf(u) \in Key /\ u.num + rows[KeyOf(u)].num <= n
    BY <1>2, KeptTyped DEF CountInv, Counted
  <1>7. \A u \in Kept, p \in Unexecuted : p.key = KeyOf(u) => u.num + p.row.num <= n
    BY <1>2 DEF CountInv, Counted
  <1>8. \A u \in Kept' : u = a \/ (u \in Kept /\ u.itemid # t.itemid)
    BY <1>1 DEF Adds
  <1>9. /\ a.itemid = t.itemid /\ a.type = v.type /\ a.clock = v.clock
        /\ a.num = IF MustFlush(t, v) THEN 1 ELSE t.num + 1
    BY <1>1 DEF Accumulated, Trend
  <1>10. KeyOf(a) \in Key
    BY <1>1, <1>9 DEF KeyOf, Key, Trend, Value
  <1>11. a.num + rows[KeyOf(a)].num <= n + 1
    <2>1. CASE MustFlush(t, v) \/ t.num = 0
      BY <1>4, <1>9, <1>10, <2>1
    <2>2. CASE ~MustFlush(t, v) /\ t.num # 0
      <3>1. t.num > 0 /\ t \in Kept
        BY <2>2 DEF Adds, Trend
      <3>2. KeyOf(a) = KeyOf(t)
        BY <1>9, <2>2, <3>1 DEF MustFlush, KeyOf
      <3> QED BY <1>4, <1>6, <1>9, <1>10, <2>2, <3>1, <3>2
    <2> QED BY <2>1, <2>2
  <1>12. ASSUME NEW p \in Unexecuted' PROVE \/ p \in Unexecuted
                                         \/ /\ MustFlush(t, v) /\ t \in Kept /\ p = Flush(t)
                                            /\ p.row.num \in Nat /\ p.row.num <= n
                                            /\ p.key = KeyOf(t)
    <2>1. CASE p \in Unexecuted
      BY <2>1
    <2>2. CASE p \notin Unexecuted
      <3>1. MustFlush(t, v) /\ p = Flush(t)
        BY <2>2 DEF Adds
      <3>2. t \in Kept
        BY <3>1 DEF Adds, MustFlush
      <3>3. p.key = KeyOf(t) /\ p.row = Merged(t, rows[KeyOf(t)])
        BY <1>6, <3>1, <3>2 DEF Flush, FoundRow
      <3>4. p.row.num = t.num + rows[KeyOf(t)].num
        BY <1>4, <1>6, <3>2, <3>3, MergedNum
      <3> QED BY <1>4, <1>6, <3>1, <3>2, <3>3, <3>4
    <2> QED BY <2>1, <2>2
  <1>13. ASSUME NEW p \in Unexecuted', p.key = KeyOf(a) PROVE a.num + p.row.num <= n + 1
    <2>1. p.row.num \in Nat /\ p.row.num <= n
      BY <1>5, <1>12
    <2>2. CASE MustFlush(t, v) \/ t.num = 0
      BY <1>9, <2>1, <2>2
    <2>3. CASE ~MustFlush(t, v) /\ t.num # 0
      <3>1. t.num > 0 /\ t \in Kept
        BY <2>3 DEF Adds, Trend
      <3>2. KeyOf(a) = KeyOf(t)
        BY <1>9, <2>3, <3>1 DEF MustFlush, KeyOf
      <3>3. p \in Unexecuted
        BY <1>12, <2>3
      <3>4. t.num + p.row.num <= n
        BY <1>7, <1>13, <3>1, <3>2, <3>3
      <3> QED BY <1>6, <1>9, <2>1, <2>3, <3>1, <3>4
    <2> QED BY <2>2, <2>3
  <1>14. ASSUME NEW u \in Kept', NEW p \in Unexecuted', p.key = KeyOf(u) PROVE u.num + p.row.num <= n + 1
    <2>1. CASE u = a
      BY <1>13, <1>14, <2>1
    <2>2. CASE u \in Kept /\ u.itemid # t.itemid
      <3>1. KeyOf(u) # KeyOf(t)
        BY <2>2 DEF KeyOf
      <3>2. p \in Unexecuted
        BY <1>12, <1>14, <3>1
      <3> QED BY <1>5, <1>6, <1>7, <1>14, <2>2, <3>2
    <2> QED BY <1>8, <2>1, <2>2
  <1>15. \A k \in Key : rows'[k].num <= Len(seen')
    BY <1>3, <1>4
  <1>16. \A p \in Unexecuted' : p.row.num <= Len(seen')
    BY <1>3, <1>5, <1>12
  <1>17. \A u \in Kept' : u.num + rows'[KeyOf(u)].num <= Len(seen')
    BY <1>3, <1>4, <1>6, <1>8, <1>11
  <1> QED BY <1>3, <1>14, <1>15, <1>16, <1>17 DEF Counted

LEMMA CountWrites == ASSUME CountInv, Writes PROVE Counted'
  <1>1. \A u \in Kept' : u \in Kept /\ KeyOf(u) \in Key
    BY KeptTyped DEF CountInv, Writes
  <1>2. \A p \in Unexecuted' : p \in Unexecuted
    BY DEF Writes
  <1>3. ASSUME NEW k \in Key
        PROVE  rows'[k] = rows[k] \/ \E p \in Unexecuted : p.key = k /\ rows'[k] = p.row
    BY DEF Writes
  <1>4. \A k \in Key : rows'[k].num <= Len(seen)
    BY <1>3 DEF CountInv, Counted
  <1>5. ASSUME NEW u \in Kept' PROVE u.num + rows'[KeyOf(u)].num <= Len(seen)
    <2>1. CASE rows'[KeyOf(u)] = rows[KeyOf(u)]
      BY <1>1, <2>1 DEF CountInv, Counted
    <2>2. CASE \E p \in Unexecuted : p.key = KeyOf(u) /\ rows'[KeyOf(u)] = p.row
      BY <1>1, <2>2 DEF CountInv, Counted
    <2> QED BY <1>1, <1>3, <2>1, <2>2
  <1>6. seen' = seen
    BY DEF Writes
  <1> QED BY <1>1, <1>2, <1>4, <1>5, <1>6 DEF CountInv, Counted

LEMMA CountWritesAll == ASSUME CountInv, WritesAll PROVE Counted'
  <1>1. ASSUME NEW k \in Key PROVE rows'[k].num <= Len(seen)
    <2>1. CASE rows'[k] = rows[k]
      BY <2>1 DEF CountInv, Counted
    <2>2. CASE \E t \in Kept : KeyOf(t) = k /\ rows'[k] = Merged(t, rows[k])
      <3>1. PICK t \in Kept : KeyOf(t) = k /\ rows'[k] = Merged(t, rows[k])
        BY <2>2
      <3>2. rows'[k].num = t.num + rows[KeyOf(t)].num
        BY <3>1, KeptTyped, RowNum, MergedNum DEF CountInv
      <3> QED BY <3>2 DEF CountInv, Counted
    <2> QED BY <2>1, <2>2 DEF WritesAll
  <1> QED BY <1>1 DEF WritesAll, CountInv, Counted

LEMMA CountNext == ASSUME CountInv, [TrendNext]_trendVars PROVE CountInv'
  <1>1. ASSUME KeepsRows PROVE Counted'
    <2>1. /\ \A u \in Kept' : u \in Kept
          /\ \A p \in Unexecuted' : p \in Unexecuted
          /\ rows' = rows /\ seen' = seen
      BY <1>1 DEF KeepsRows
    <2> QED BY <2>1 DEF CountInv, Counted
  <1>2. Counted'
    BY <1>1, Moves, CountAdds, CountWrites, CountWritesAll DEF CountInv
  <1> QED BY <1>2, ArrayNext DEF CountInv

-----------------------------------------------------------------------------
(* Numbers from 0 to Largest, and so many of them that their sum fits in   *)
(* the zbx_uint64_t that num * avg is computed in.                         *)
Fits(Largest) == Len(seen) * Largest < 2 ^ UINT_BITS

Ordered(r, Largest) == 0 <= r.min /\ r.min <= r.avg /\ r.avg <= r.max /\ r.max <= Largest

InOrder(Largest) ==
    /\ \A t \in Kept : t.type = "uint" => Ordered(t, Largest)
    /\ \A k \in Key : k.type = "uint" /\ rows[k] # NoRow => Ordered(rows[k], Largest)
    /\ \A p \in Unexecuted : p.key.type = "uint" => Ordered(p.row, Largest)

OrderInv(Largest) == CountInv /\ (Fits(Largest) => InOrder(Largest))

LEMMA MeanBetween ==
    ASSUME NEW n \in Nat \ {0}, NEW lo \in Nat, NEW hi \in Nat, NEW total \in Nat,
           lo * n <= total, total <= hi * n
    PROVE  total \div n \in Nat /\ lo <= total \div n /\ total \div n <= hi
  <1>1. PICK d \in Nat : d = total \div n
    OBVIOUS
  <1>2. PICK r \in Nat : r = total % n
    OBVIOUS
  <1>3. total = n * d + r /\ r < n
    BY <1>1, <1>2
  <1>4. lo <= d
    <2>1. SUFFICES ASSUME d + 1 <= lo PROVE FALSE
      OBVIOUS
    <2>2. (d + 1) * n <= lo * n
      BY <2>1
    <2>3. (d + 1) * n = n * d + n
      OBVIOUS
    <2> QED BY <1>3, <2>2, <2>3
  <1>5. d <= hi
    <2>1. SUFFICES ASSUME hi + 1 <= d PROVE FALSE
      OBVIOUS
    <2>2. (hi + 1) * n <= d * n
      BY <2>1
    <2>3. (hi + 1) * n = hi * n + n /\ d * n = n * d
      OBVIOUS
    <2>4. hi * n \in Int /\ n * d \in Int
      OBVIOUS
    <2> QED BY <1>3, <2>2, <2>3, <2>4
  <1> QED BY <1>1, <1>4, <1>5

(* Nothing is cut off by the width of the type.                            *)
LEMMA Exact ==
    ASSUME NEW W \in Nat \ {0}, NEW x \in Nat, x < W
    PROVE  x % W = x
  OBVIOUS

LEMMA Monotone ==
    ASSUME NEW a \in Nat, NEW b \in Nat, NEW c \in Nat, a <= b
    PROVE  a * c \in Nat /\ b * c \in Nat /\ a * c <= b * c /\ c * a <= c * b
  <1>1. PICK d \in Nat : b = a + d
    <2>1. b - a \in Nat /\ b = a + (b - a)
      OBVIOUS
    <2> QED BY <2>1
  <1>2. a * c \in Nat /\ d * c \in Nat
    OBVIOUS
  <1>3. b * c = a * c + d * c
    BY <1>1
  <1>4. c * a = a * c /\ c * b = b * c
    OBVIOUS
  <1> QED BY <1>2, <1>3, <1>4

(* The total of n numbers from lo to hi.                                   *)
TotalOf(n, lo, hi, total) == total \in Nat /\ lo * n <= total /\ total <= hi * n

LEMMA TotalExact ==
    ASSUME NEW n \in Nat, NEW lo \in Nat, NEW avg \in Nat, NEW hi \in Nat, NEW Largest \in Nat,
           lo <= avg, avg <= hi, hi <= Largest, n * Largest < 2 ^ UINT_BITS
    PROVE  TotalOf(n, lo, hi, Total("uint", n, avg))
  <1>1. PICK W \in Nat \ {0} : W = 2 ^ UINT_BITS
    BY TrendCacheAssumption
  <1>2. avg * n \in Nat /\ lo * n <= avg * n
    BY Monotone
  <1>3. avg * n <= hi * n /\ avg <= Largest
    BY Monotone
  <1>4. n * avg <= n * Largest /\ n * Largest \in Nat
    BY <1>3, Monotone
  <1>5. PICK x \in Nat : x = n * avg /\ x = avg * n
    BY <1>2
  <1>6. x < W
    BY <1>1, <1>4, <1>5
  <1>7. Total("uint", n, avg) = x % W
    BY <1>1, <1>5 DEF Total
  <1>8. Total("uint", n, avg) = x
    BY <1>6, <1>7, Exact
  <1>9. lo * n <= x /\ x <= hi * n
    BY <1>2, <1>3, <1>5
  <1> QED BY <1>8, <1>9 DEF TotalOf

LEMMA Mean ==
    ASSUME NEW n \in Nat, NEW m \in Nat, n + m # 0,
           NEW lo \in Nat, NEW hi \in Nat, NEW Largest \in Nat, hi <= Largest,
           (n + m) * Largest < 2 ^ UINT_BITS,
           NEW x, TotalOf(n, lo, hi, x), NEW y, TotalOf(m, lo, hi, y)
    PROVE  /\ Average("uint", x + y, n + m) \in Nat
           /\ lo <= Average("uint", x + y, n + m) /\ Average("uint", x + y, n + m) <= hi
  <1>1. PICK W \in Nat \ {0} : W = 2 ^ UINT_BITS
    BY TrendCacheAssumption
  <1>2. PICK k \in Nat \ {0} : k = n + m
    OBVIOUS
  <1>3. lo * k = lo * n + lo * m /\ hi * k = hi * n + hi * m
    BY <1>2
  <1>4. lo * n \in Nat /\ lo * m \in Nat /\ hi * n \in Nat /\ hi * m \in Nat
    OBVIOUS
  <1>5. PICK z \in Nat : z = x + y
    BY DEF TotalOf
  <1>6. lo * k <= z /\ z <= hi * k
    BY <1>3, <1>4, <1>5 DEF TotalOf
  <1>7. hi * k <= Largest * k /\ Largest * k = k * Largest /\ hi * k \in Nat /\ k * Largest \in Nat
    BY Monotone
  <1>8. z < W
    BY <1>1, <1>2, <1>6, <1>7
  <1>9. Average("uint", x + y, n + m) = (z % W) \div k
    BY <1>1, <1>2, <1>5 DEF Average
  <1>10. Average("uint", x + y, n + m) = z \div k
    BY <1>8, <1>9, Exact
  <1> QED BY <1>6, <1>10, MeanBetween

LEMMA MergedOrdered ==
    ASSUME NEW Largest \in Nat, NEW t \in Trend, t.num # 0, t.type = "uint", Ordered(t, Largest),
           NEW row \in TrendRow \cup {NoRow}, row # NoRow => Ordered(row, Largest),
           (t.num + row.num) * Largest < 2 ^ UINT_BITS
    PROVE  Ordered(Merged(t, row), Largest)
  <1>1. CASE row = NoRow
    BY <1>1 DEF Merged, Ordered
  <1>2. CASE row # NoRow
    <2>1. row \in TrendRow
      BY <1>2
    <2>2. PICK lo, hi : lo = Lesser(row.min, t.min) /\ hi = Greater(row.max, t.max)
      OBVIOUS
    <2>3. /\ t.num \in Nat \ {0} /\ t.min \in Int /\ t.avg \in Int /\ t.max \in Int
          /\ row.num \in Nat \ {0} /\ row.min \in Int /\ row.avg \in Int /\ row.max \in Int
      BY <2>1 DEF Trend, TrendRow
    <2>4. /\ 0 <= t.min /\ t.min <= t.avg /\ t.avg <= t.max /\ t.max <= Largest
          /\ 0 <= row.min /\ row.min <= row.avg /\ row.avg <= row.max /\ row.max <= Largest
      BY <1>2 DEF Ordered
    <2>5. /\ lo \in Nat /\ hi \in Nat /\ t.avg \in Nat /\ row.avg \in Nat /\ hi <= Largest
          /\ lo <= t.avg /\ t.avg <= hi /\ lo <= row.avg /\ row.avg <= hi
      BY <2>2, <2>3, <2>4 DEF Lesser, Greater
    <2>6. t.num * Largest < 2 ^ UINT_BITS /\ row.num * Largest < 2 ^ UINT_BITS
      <3>1. PICK W \in Nat \ {0} : W = 2 ^ UINT_BITS
        BY TrendCacheAssumption
      <3>2. PICK n \in Nat, m \in Nat, k \in Nat : n = t.num /\ m = row.num /\ k = n + m
        BY <2>3
      <3>3. n * Largest <= k * Largest /\ m * Largest <= k * Largest
        BY <3>2, Monotone
      <3>4. n * Largest \in Nat /\ m * Largest \in Nat /\ k * Largest \in Nat
        OBVIOUS
      <3>5. k * Largest < W
        BY <3>1, <3>2
      <3> QED BY <3>1, <3>2, <3>3, <3>4, <3>5
    <2>7. PICK x : x = Total("uint", t.num, t.avg)
      OBVIOUS
    <2>8. PICK y : y = Total("uint", row.num, row.avg)
      OBVIOUS
    <2>9. TotalOf(t.num, lo, hi, x) /\ TotalOf(row.num, lo, hi, y)
      BY <2>3, <2>5, <2>6, <2>7, <2>8, TotalExact
    <2>10. PICK avg : avg = Average("uint", x + y, t.num + row.num)
      OBVIOUS
    <2>11. avg \in Nat /\ lo <= avg /\ avg <= hi
      <3>1. t.num + row.num # 0
        BY <2>3
      <3> QED BY <2>3, <2>5, <2>9, <2>10, <3>1, Mean
    <2>12. /\ Merged(t, row).min = lo /\ Merged(t, row).max = hi /\ Merged(t, row).avg = avg
      BY <1>2, <2>2, <2>7, <2>8, <2>10 DEF Merged
    <2> QED BY <2>5, <2>11, <2>12 DEF Ordered
  <1> QED BY <1>1, <1>2

LEMMA AccumulatedOrdered ==
    ASSUME NEW Largest \in Nat, NEW t \in Trend, NEW v \in Value,
           v.type = "uint", v.value \in 0 .. Largest,
           ~MustFlush(t, v) /\ t.num > 0 => Ordered(t, Largest),
           Accumulated(t, v).num * Largest < 2 ^ UINT_BITS
    PROVE  Ordered(Accumulated(t, v), Largest)
  <1>1. PICK n \in Nat : n = IF MustFlush(t, v) THEN 0 ELSE t.num
    BY DEF Trend
  <1>2. PICK old \in Int : old = IF MustFlush(t, v) THEN 0 ELSE t.avg
    BY DEF Trend
  <1>3. PICK value \in Nat : value = v.value
    OBVIOUS
  <1>4. PICK lo, hi : /\ lo = IF n = 0 THEN value ELSE Lesser(value, t.min)
                      /\ hi = IF n = 0 THEN value ELSE Greater(value, t.max)
    OBVIOUS
  <1>5. PICK x : x = Total("uint", n, old)
    OBVIOUS
  <1>6. PICK a : a = Accumulated(t, v)
    OBVIOUS
  <1>7. a.min = lo /\ a.max = hi /\ a.num = n + 1 /\ a.avg = Average("uint", x + value, n + 1)
    BY <1>1, <1>2, <1>3, <1>4, <1>5, <1>6 DEF Accumulated
  <1>8. n # 0 => Ordered(t, Largest) /\ old = t.avg
    BY <1>1, <1>2 DEF Trend
  <1>9. t.min \in Int /\ t.avg \in Int /\ t.max \in Int
    BY DEF Trend
  <1>10. lo \in Nat /\ hi \in Nat /\ hi <= Largest /\ lo <= value /\ value <= hi
         /\ (n # 0 => old \in Nat /\ lo <= old /\ old <= hi)
    BY <1>3, <1>4, <1>8, <1>9 DEF Ordered, Lesser, Greater
  <1>11. (n + 1) * Largest < 2 ^ UINT_BITS
    BY <1>6, <1>7
  <1>12. TotalOf(n, lo, hi, x)
    <2>1. CASE n = 0
      <3>1. PICK W \in Nat \ {0} : W = 2 ^ UINT_BITS
        BY TrendCacheAssumption
      <3>2. x = (n * old) % W
        BY <1>5, <3>1 DEF Total
      <3>3. n * old = 0 /\ lo * n = 0 /\ hi * n = 0
        BY <1>10, <2>1
      <3>4. x = 0
        BY <3>2, <3>3
      <3> QED BY <3>3, <3>4 DEF TotalOf
    <2>2. CASE n # 0
      <3>1. n * Largest < 2 ^ UINT_BITS
        <4>1. PICK W \in Nat \ {0} : W = 2 ^ UINT_BITS
          BY TrendCacheAssumption
        <4>2. PICK k \in Nat : k = n + 1
          OBVIOUS
        <4>3. n * Largest <= k * Largest /\ n * Largest \in Nat /\ k * Largest \in Nat
          BY <4>2, Monotone
        <4> QED BY <1>11, <4>1, <4>2, <4>3
      <3> QED BY <1>5, <1>10, <2>2, <3>1, TotalExact
    <2> QED BY <2>1, <2>2
  <1>13. TotalOf(1, lo, hi, value)
    BY <1>10 DEF TotalOf
  <1>14. Average("uint", x + value, n + 1) \in Nat
         /\ lo <= Average("uint", x + value, n + 1) /\ Average("uint", x + value, n + 1) <= hi
    <2>1. n + 1 # 0
      OBVIOUS
    <2> QED BY <1>10, <1>11, <1>12, <1>13, <2>1, Mean
  <1> QED BY <1>6, <1>7, <1>10, <1>14 DEF Ordered

LEMMA FitsBelow ==
    ASSUME NEW Largest \in Nat, NEW n \in Nat, NEW m \in Nat, n <= m, m * Largest < 2 ^ UINT_BITS
    PROVE  n * Largest < 2 ^ UINT_BITS
  <1>1. PICK W \in Nat \ {0} : W = 2 ^ UINT_BITS
    BY TrendCacheAssumption
  <1>2. n * Largest <= m * Largest /\ n * Largest \in Nat /\ m * Largest \in Nat
    BY Monotone
  <1> QED BY <1>1, <1>2

(* What DCflush_trend writes for a structure, in a string or at once.      *)
LEMMA OrderMerged ==
    ASSUME NEW Largest \in Nat, OrderInv(Largest), Fits(Largest),
           NEW t \in Kept, t.type = "uint"
    PROVE  Ordered(Merged(t, rows[KeyOf(t)]), Largest)
  <1>1. t \in Trend /\ t.num \in Nat \ {0} /\ KeyOf(t) \in Key /\ KeyOf(t).type = "uint"
        /\ Len(seen) \in Nat
    BY KeptTyped DEF OrderInv, CountInv, KeyOf
  <1>2. PICK row \in TrendRow \cup {NoRow} : row = rows[KeyOf(t)]
    BY <1>1, RowNum DEF OrderInv, CountInv
  <1>3. row.num \in Nat /\ t.num + row.num <= Len(seen)
    BY <1>1, <1>2, RowNum DEF OrderInv, CountInv, Counted
  <1>4. PICK n \in Nat : n = t.num + row.num
    BY <1>1, <1>3
  <1>5. n * Largest < 2 ^ UINT_BITS
    BY <1>1, <1>3, <1>4, FitsBelow DEF Fits
  <1>6. Ordered(t, Largest) /\ (row # NoRow => Ordered(row, Largest))
    BY <1>1, <1>2 DEF OrderInv, InOrder
  <1> QED BY <1>1, <1>2, <1>4, <1>5, <1>6, MergedOrdered

LEMMA OrderAdds ==
    ASSUME NEW Largest \in Nat, Numbers \subseteq 0 .. Largest,
           OrderInv(Largest), CountInv', Fits(Largest)',
           NEW t \in Trend, NEW v \in Value, Adds(t, v)
    PROVE  InOrder(Largest)'
  <1>1. PICK n \in Nat : n = Len(seen)
    BY KeptTyped DEF OrderInv, CountInv
  <1>2. Len(seen') = n + 1 /\ rows' = rows
    BY <1>1 DEF Adds
  <1>3. (n + 1) * Largest < 2 ^ UINT_BITS
    BY <1>2 DEF Fits
  <1>4. Fits(Largest)
    <2>1. n + 1 \in Nat /\ n <= n + 1
      OBVIOUS
    <2>2. n * Largest < 2 ^ UINT_BITS
      BY <1>3, <2>1, FitsBelow
    <2> QED BY <1>1, <2>2 DEF Fits
  <1>5. InOrder(Largest)
    BY <1>4 DEF OrderInv
  <1>6. ASSUME NEW u \in Kept', u.type = "uint" PROVE Ordered(u, Largest)
    <2>1. CASE u \in Kept
      BY <1>5, <1>6, <2>1 DEF InOrder
    <2>2. CASE u \notin Kept
      <3>1. u = Accumulated(t, v)
        BY <2>2 DEF Adds
      <3>2. v.type = "uint"
        BY <1>6, <3>1 DEF Accumulated
      <3>3. v.value \in 0 .. Largest
        BY DEF Value
      <3>4. ~MustFlush(t, v) /\ t.num > 0 => Ordered(t, Largest)
        BY <1>5, <3>2 DEF Adds, MustFlush, InOrder
      <3>5. u \in Trend /\ u.num \in Nat
        BY <3>1, AccumulatedTrend DEF Trend
      <3>6. u.num <= n + 1
        <4>1. u.num + rows'[KeyOf(u)].num <= n + 1
          BY <1>2 DEF CountInv, Counted
        <4>2. KeyOf(u) \in Key
          BY <3>1 DEF Accumulated, KeyOf, Key, Value, Trend
        <4>3. rows'[KeyOf(u)].num \in Nat
          BY <1>2, <4>2, RowNum DEF OrderInv, CountInv
        <4> QED BY <3>5, <4>1, <4>3
      <3>7. u.num * Largest < 2 ^ UINT_BITS
        <4>1. PICK m \in Nat : m = n + 1
          OBVIOUS
        <4> QED BY <1>3, <3>5, <3>6, <4>1, FitsBelow
      <3> QED BY <3>1, <3>2, <3>3, <3>4, <3>7, AccumulatedOrdered
    <2> QED BY <2>1, <2>2
  <1>7. ASSUME NEW p \in Unexecuted', p.key.type = "uint" PROVE Ordered(p.row, Largest)
    <2>1. CASE p \in Unexecuted
      BY <1>5, <1>7, <2>1 DEF InOrder
    <2>2. CASE p \notin Unexecuted
      <3>1. MustFlush(t, v) /\ p = Flush(t)
        BY <2>2 DEF Adds
      <3>2. t \in Kept
        BY <3>1 DEF Adds, MustFlush
      <3>3. p.row = Merged(t, rows[KeyOf(t)]) /\ t.type = "uint"
        <4>1. KeyOf(t) \in Key
          BY <3>2, KeptTyped DEF OrderInv, CountInv
        <4> QED BY <1>7, <3>1, <4>1 DEF Flush, FoundRow, KeyOf
      <3> QED BY <1>4, <3>2, <3>3, OrderMerged
    <2> QED BY <2>1, <2>2
  <1>8. \A k \in Key : k.type = "uint" /\ rows'[k] # NoRow => Ordered(rows'[k], Largest)
    BY <1>2, <1>5 DEF InOrder
  <1>9. /\ \A u \in Kept' : u.type = "uint" => Ordered(u, Largest)
        /\ \A p \in Unexecuted' : p.key.type = "uint" => Ordered(p.row, Largest)
    BY <1>6, <1>7
  <1> QED BY <1>8, <1>9 DEF InOrder, Ordered

(* The steps that add no value.                                            *)
LEMMA OrderWrites ==
    ASSUME NEW Largest \in Nat, OrderInv(Largest), Fits(Largest)', KeepsRows \/ Writes \/ WritesAll
    PROVE  InOrder(Largest)'
  <1>1. /\ \A u \in Kept' : u \in Kept
        /\ \A p \in Unexecuted' : p \in Unexecuted
        /\ seen' = seen
    BY DEF KeepsRows, Writes, WritesAll
  <1>2. Fits(Largest) /\ InOrder(Largest)
    BY <1>1 DEF Fits, OrderInv
  <1>3. ASSUME NEW k \in Key, k.type = "uint", rows'[k] # NoRow PROVE Ordered(rows'[k], Largest)
    <2>1. CASE rows'[k] = rows[k]
      BY <1>2, <1>3, <2>1 DEF InOrder
    <2>2. CASE \E p \in Unexecuted : p.key = k /\ rows'[k] = p.row
      BY <1>2, <1>3, <2>2 DEF InOrder
    <2>3. CASE \E t \in Kept : KeyOf(t) = k /\ rows'[k] = Merged(t, rows[k])
      <3>1. PICK t \in Kept : KeyOf(t) = k /\ rows'[k] = Merged(t, rows[k])
        BY <2>3
      <3>2. t.type = "uint"
        BY <1>3, <3>1 DEF KeyOf
      <3> QED BY <1>2, <3>1, <3>2, OrderMerged
    <2> QED BY <2>1, <2>2, <2>3 DEF KeepsRows, Writes, WritesAll
  <1>4. /\ \A u \in Kept' : u.type = "uint" => Ordered(u, Largest)
        /\ \A p \in Unexecuted' : p.key.type = "uint" => Ordered(p.row, Largest)
    BY <1>1, <1>2 DEF InOrder
  <1> QED BY <1>3, <1>4 DEF InOrder, Ordered

LEMMA OrderInit == ASSUME NEW Largest PROVE TrendInit => OrderInv(Largest)
  <1> SUFFICES ASSUME TrendInit PROVE OrderInv(Largest)
    OBVIOUS
  <1>1. Kept = {} /\ Unexecuted = {} /\ \A k \in Key : rows[k] = NoRow
    BY DEF TrendInit, Kept, Unexecuted
  <1> QED BY <1>1, ArrayInit, CountInit DEF OrderInv, CountInv, InOrder

LEMMA OrderNext ==
    ASSUME NEW Largest \in Nat, Numbers \subseteq 0 .. Largest,
           OrderInv(Largest), [TrendNext]_trendVars
    PROVE  OrderInv(Largest)'
  <1>1. CountInv'
    BY CountNext DEF OrderInv
  <1>2. ASSUME Fits(Largest)' PROVE InOrder(Largest)'
    BY <1>1, <1>2, Moves, OrderAdds, OrderWrites DEF OrderInv, CountInv
  <1> QED BY <1>1, <1>2 DEF OrderInv

LEMMA PartsOrdered ==
    ASSUME NEW Largest \in Nat, OrderInv(Largest), Fits(Largest)
    PROVE  AverageBetween
  <1> SUFFICES ASSUME NEW k \in Key, k.type = "uint", NEW t \in Parts(k)
               PROVE  t.min <= t.avg /\ t.avg <= t.max
    BY DEF AverageBetween
  <1>1. InOrder(Largest)
    BY DEF OrderInv
  <1>2. CASE t \in InCache(k)
    <2>1. t \in Kept /\ KeyOf(t) = k
      BY <1>2 DEF InCache, Kept
    <2> QED BY <1>1, <2>1 DEF InOrder, Ordered, KeyOf
  <1>3. CASE t \in Row(k)
    <2>1. (t = rows[k] /\ t # NoRow) \/ \E p \in Unexecuted : p.key = k /\ t = p.row
      BY <1>3 DEF Row, Unexecuted
    <2> QED BY <1>1, <2>1 DEF InOrder, Ordered
  <1> QED BY <1>2, <1>3 DEF Parts

(* The truncated average of an unsigned item, in the cache, in the string  *)
(* of a syncer and in the database, stays between the extremes of its      *)
(* values as long as the sum of all values fits in zbx_uint64_t: with any  *)
(* number of syncers, also where two of them overwrite each other's row.   *)
THEOREM StaysBetween ==
    ASSUME NEW Largest \in Nat, Numbers \subseteq 0 .. Largest
    PROVE  TrendSpec => [](Fits(Largest) => AverageBetween)
  <1>1. TrendInit => OrderInv(Largest)
    BY OrderInit
  <1>2. OrderInv(Largest) /\ [TrendNext]_trendVars => OrderInv(Largest)'
    BY OrderNext
  <1>3. OrderInv(Largest) => (Fits(Largest) => AverageBetween)
    BY PartsOrdered
  <1> QED BY <1>1, <1>2, <1>3, PTL DEF TrendSpec

-----------------------------------------------------------------------------
(* TrendsComplete: with one db syncer nothing is lost between the cache    *)
(* and the database.                                                       *)
OneSyncer == \A s, t \in TrendSyncers : s = t

(* The parts C in the cache and R in the database are those of n numbers,  *)
(* all of them in X, with the given total.                                 *)
Accounts(C, R, n, X, total, type) ==
    /\ AtMostOne(C) /\ AtMostOne(R)
    /\ NumOf(C) + NumOf(R) = n
    /\ \A x \in X : \E t \in C \cup R : t.min <= x
    /\ \A x \in X : \E t \in C \cup R : t.max >= x
    /\ \A t \in C \cup R : {t.min, t.max} \subseteq X
    /\ type = "float" => AvgOf(C) + AvgOf(R) = total

LEMMA Single ==
    ASSUME NEW t
    PROVE  AtMostOne({t}) /\ NumOf({t}) = t.num /\ AvgOf({t}) = t.avg
  <1>1. (CHOOSE u \in {t} : TRUE) = t
    OBVIOUS
  <1> QED BY <1>1 DEF AtMostOne, NumOf, AvgOf

LEMMA Nothing == AtMostOne({}) /\ NumOf({}) = 0 /\ AvgOf({}) = 0
  BY DEF AtMostOne, NumOf, AvgOf

LEMMA PartInt ==
    ASSUME NEW R \in SUBSET TrendRow, AtMostOne(R)
    PROVE  NumOf(R) \in Nat /\ AvgOf(R) \in Int
  <1>1. CASE R = {}
    BY <1>1 DEF NumOf, AvgOf
  <1>2. CASE R # {}
    <2>1. PICK r \in R : R = {r}
      BY <1>2 DEF AtMostOne
    <2> QED BY <2>1, Single DEF TrendRow
  <1> QED BY <1>1, <1>2

(* A structure starts with a value.                                        *)
LEMMA AccountsNew ==
    ASSUME NEW R \in SUBSET TrendRow, NEW n \in Nat, NEW X \in SUBSET Int, NEW total \in Int,
           NEW type, NEW x \in Int, Accounts({}, R, n, X, total, type),
           NEW a, a.num = 1, a.min = x, a.max = x, type = "float" => a.avg = x
    PROVE  Accounts({a}, R, n + 1, X \cup {x}, total + x, type)
  <1>1. AtMostOne(R) /\ NumOf(R) \in Nat /\ AvgOf(R) \in Int
    BY PartInt DEF Accounts
  <1>2. NumOf(R) = n /\ (type = "float" => AvgOf(R) = total)
    BY <1>1, Nothing DEF Accounts
  <1>3. NumOf({a}) + NumOf(R) = n + 1 /\ (type = "float" => AvgOf({a}) + AvgOf(R) = total + x)
    BY <1>1, <1>2, Single
  <1>4. \A t \in R : {t.min, t.max} \subseteq X
    BY DEF Accounts
  <1>5. \A y \in X : \E t \in R : t.min <= y
    BY DEF Accounts
  <1>6. \A y \in X : \E t \in R : t.max >= y
    BY DEF Accounts
  <1>7. \A t \in {a} \cup R : {t.min, t.max} \subseteq X \cup {x}
    BY <1>4
  <1>8. \A y \in X \cup {x} : \E t \in {a} \cup R : t.min <= y
    BY <1>5
  <1>9. \A y \in X \cup {x} : \E t \in {a} \cup R : t.max >= y
    BY <1>6
  <1> QED BY <1>1, <1>3, <1>7, <1>8, <1>9, Single DEF Accounts

(* One more value.                                                         *)
LEMMA AccountsMore ==
    ASSUME NEW R \in SUBSET TrendRow, NEW n \in Nat, NEW X \in SUBSET Int, NEW total \in Int,
           NEW type, NEW x \in Int, NEW t \in Trend, Accounts({t}, R, n, X, total, type),
           NEW a, a.num = t.num + 1, a.min = Lesser(x, t.min), a.max = Greater(x, t.max),
           type = "float" => a.avg = t.avg + x
    PROVE  Accounts({a}, R, n + 1, X \cup {x}, total + x, type)
  <1>1. AtMostOne(R) /\ NumOf(R) \in Nat /\ AvgOf(R) \in Int
    BY PartInt DEF Accounts
  <1>2. t.num \in Nat /\ t.avg \in Int /\ t.min \in Int /\ t.max \in Int
    BY DEF Trend
  <1>3. t.num + NumOf(R) = n /\ (type = "float" => t.avg + AvgOf(R) = total)
    BY Single DEF Accounts
  <1>4. NumOf({a}) + NumOf(R) = n + 1 /\ (type = "float" => AvgOf({a}) + AvgOf(R) = total + x)
    <2>1. NumOf({a}) = t.num + 1 /\ (type = "float" => AvgOf({a}) = t.avg + x)
      BY Single
    <2> QED BY <1>1, <1>2, <1>3, <2>1
  <1>5. /\ a.min \in Int /\ a.min <= x /\ a.min <= t.min /\ a.min \in {x, t.min}
        /\ a.max \in Int /\ a.max >= x /\ a.max >= t.max /\ a.max \in {x, t.max}
    BY <1>2 DEF Lesser, Greater
  <1>6. \A u \in {t} \cup R : {u.min, u.max} \subseteq X
    BY DEF Accounts
  <1>7. \A y \in X : \E u \in {t} \cup R : u.min <= y
    BY DEF Accounts
  <1>8. \A y \in X : \E u \in {t} \cup R : u.max >= y
    BY DEF Accounts
  <1>9. \A u \in {a} \cup R : {u.min, u.max} \subseteq X \cup {x}
    BY <1>5, <1>6
  <1>10. ASSUME NEW y \in X \cup {x} PROVE \E u \in {a} \cup R : u.min <= y
    <2>1. y \in Int
      OBVIOUS
    <2> QED BY <1>2, <1>5, <1>7, <2>1
  <1>11. ASSUME NEW y \in X \cup {x} PROVE \E u \in {a} \cup R : u.max >= y
    <2>1. y \in Int
      OBVIOUS
    <2> QED BY <1>2, <1>5, <1>8, <2>1
  <1> QED BY <1>1, <1>4, <1>9, <1>10, <1>11, Single DEF Accounts

(* A structure is merged into the row.                                     *)
LEMMA AccountsMerged ==
    ASSUME NEW t \in Trend, t.num # 0, NEW row \in TrendRow \cup {NoRow}, NEW n, NEW total,
           NEW X \in SUBSET Int, Accounts({t}, {row} \ {NoRow}, n, X, total, t.type)
    PROVE  Accounts({}, {Merged(t, row)}, n, X, total, t.type)
  <1>1. CASE row = NoRow
    <2>1. {row} \ {NoRow} = {}
      BY <1>1
    <2>2. /\ Merged(t, row).num = t.num /\ Merged(t, row).avg = t.avg
          /\ Merged(t, row).min = t.min /\ Merged(t, row).max = t.max
      BY <1>1 DEF Merged
    <2>3. t.num \in Nat /\ t.avg \in Int
      BY DEF Trend
    <2>4. t.num = n /\ (t.type = "float" => t.avg = total)
      <3>1. NumOf({t}) + NumOf({}) = n /\ (t.type = "float" => AvgOf({t}) + AvgOf({}) = total)
        BY <2>1 DEF Accounts
      <3>2. NumOf({t}) = t.num /\ AvgOf({t}) = t.avg
        BY Single
      <3> QED BY <2>3, <3>1, <3>2, Nothing
    <2>5. NumOf({}) + NumOf({Merged(t, row)}) = n
          /\ (t.type = "float" => AvgOf({}) + AvgOf({Merged(t, row)}) = total)
      BY <2>2, <2>3, <2>4, Single, Nothing
    <2>6. \A y \in X : t.min <= y /\ t.max >= y
      BY <2>1 DEF Accounts
    <2>7. {t.min, t.max} \subseteq X
      BY DEF Accounts
    <2> QED BY <2>2, <2>5, <2>6, <2>7, Single, Nothing DEF Accounts
  <1>2. CASE row # NoRow
    <2>1. {row} \ {NoRow} = {row} /\ row \in TrendRow
      BY <1>2
    <2>2. PICK m : m = Merged(t, row)
      OBVIOUS
    <2>3. /\ t.num \in Nat /\ t.avg \in Int /\ t.min \in Int /\ t.max \in Int
          /\ row.num \in Nat /\ row.avg \in Int /\ row.min \in Int /\ row.max \in Int
      BY <2>1 DEF Trend, TrendRow
    <2>4. /\ m.num = t.num + row.num
          /\ m.min = Lesser(row.min, t.min) /\ m.max = Greater(row.max, t.max)
          /\ t.type = "float" => m.avg = t.avg + row.avg
      BY <1>2, <2>2 DEF Merged, Average, Total
    <2>5. t.num + row.num = n /\ (t.type = "float" => t.avg + row.avg = total)
      BY <2>1, Single DEF Accounts
    <2>6. NumOf({}) + NumOf({m}) = n /\ (t.type = "float" => AvgOf({}) + AvgOf({m}) = total)
      BY <2>3, <2>4, <2>5, Single, Nothing
    <2>7. /\ m.min \in Int /\ m.min <= t.min /\ m.min <= row.min /\ m.min \in {row.min, t.min}
          /\ m.max \in Int /\ m.max >= t.max /\ m.max >= row.max /\ m.max \in {row.max, t.max}
      BY <2>3, <2>4 DEF Lesser, Greater
    <2>8. {t.min, t.max, row.min, row.max} \subseteq X
      BY <2>1 DEF Accounts
    <2>9. \A y \in X : t.min <= y \/ row.min <= y
      BY <2>1 DEF Accounts
    <2>10. \A y \in X : t.max >= y \/ row.max >= y
      BY <2>1 DEF Accounts
    <2>11. \A y \in X : m.min <= y
      BY <2>3, <2>7, <2>9
    <2>12. \A y \in X : m.max >= y
      BY <2>3, <2>7, <2>10
    <2>13. {m.min, m.max} \subseteq X
      BY <2>7, <2>8
    <2> QED BY <2>2, <2>6, <2>11, <2>12, <2>13, Single, Nothing DEF Accounts
  <1> QED BY <1>1, <1>2

-----------------------------------------------------------------------------
(* The values that were seen, one more at a time.                          *)
NumberFor(k, v) == IF KeyOf(v) = k THEN v.value ELSE 0

(* What total of TotalOfValues says of n, when g is total.                 *)
TotalAt(k, values, g, n) == IF n = 0 THEN 0 ELSE g[n - 1] + NumberFor(k, values[n])

LEMMA TotalIs ==
    ASSUME NEW k, NEW values
    PROVE  TotalOfValues(k, values)
             = (CHOOSE g : g = [n \in 0 .. Len(values) |-> TotalAt(k, values, g, n)])[Len(values)]
  BY DEF TotalOfValues, TotalAt, NumberFor

(* Such a function exists, has integer values, and is the only one.        *)
LEMMA TotalExists ==
    ASSUME NEW k, NEW values, NEW m \in Nat, \A n \in 1 .. m : NumberFor(k, values[n]) \in Int
    PROVE  \E g \in [0 .. m -> Int] : g = [n \in 0 .. m |-> TotalAt(k, values, g, n)]
  <1> DEFINE Defined(l) == \E g \in [0 .. l -> Int] : g = [n \in 0 .. l |-> TotalAt(k, values, g, n)]
             Undefined == {l \in 0 .. m : ~Defined(l)}
  <1>1. Defined(0)
    <2>1. PICK g : g = [n \in 0 .. 0 |-> 0]
      OBVIOUS
    <2>2. \A n \in 0 .. 0 : TotalAt(k, values, g, n) = 0
      BY DEF TotalAt
    <2>3. g = [n \in 0 .. 0 |-> TotalAt(k, values, g, n)]
      BY <2>1, <2>2
    <2>4. g \in [0 .. 0 -> Int]
      BY <2>1
    <2> QED BY <2>3, <2>4
  <1>2. ASSUME NEW l \in 0 .. m - 1, Defined(l) PROVE Defined(l + 1)
    <2>1. PICK g \in [0 .. l -> Int] : g = [n \in 0 .. l |-> TotalAt(k, values, g, n)]
      BY <1>2
    <2>2. PICK x \in Int : x = NumberFor(k, values[l + 1])
      BY <1>2
    <2>3. PICK h : h = [n \in 0 .. l + 1 |-> IF n = l + 1 THEN g[l] + x ELSE g[n]]
      OBVIOUS
    <2>4. h \in [0 .. l + 1 -> Int]
      BY <2>1, <2>2, <2>3
    <2>5. ASSUME NEW n \in 0 .. l + 1 PROVE h[n] = TotalAt(k, values, h, n)
      <3>1. CASE n = l + 1
        <4>1. h[n] = g[l] + x /\ h[n - 1] = g[l] /\ n # 0
          BY <2>3, <3>1
        <4> QED BY <2>2, <3>1, <4>1 DEF TotalAt
      <3>2. CASE n = 0
        <4>1. h[0] = g[0]
          BY <2>3
        <4> QED BY <2>1, <3>2, <4>1 DEF TotalAt
      <3>3. CASE n \in 1 .. l
        <4>1. h[n] = g[n] /\ h[n - 1] = g[n - 1]
          BY <2>3, <3>3
        <4>2. g[n] = TotalAt(k, values, g, n)
          BY <2>1, <3>3
        <4> QED BY <3>3, <4>1, <4>2 DEF TotalAt
      <3> QED BY <3>1, <3>2, <3>3
    <2>6. h = [n \in 0 .. l + 1 |-> TotalAt(k, values, h, n)]
      BY <2>4, <2>5
    <2> QED BY <2>4, <2>6
  <1>3. Undefined = {}
    <2> HIDE DEF Defined
    <2> SUFFICES ASSUME Undefined # {} PROVE FALSE
      OBVIOUS
    <2>1. Undefined \subseteq Nat
      OBVIOUS
    <2>2. PICK l \in Undefined : \A j \in Undefined : ~ (<<j, l>> \in OpToRel(<, Nat))
      BY <2>1, NatLessThanWellFounded, WFMin
    <2>3. l \in 0 .. m /\ ~Defined(l) /\ \A j \in Undefined : ~ (j < l)
      BY <2>1, <2>2 DEF OpToRel
    <2>4. l # 0
      BY <1>1, <2>3
    <2>5. l - 1 \in 0 .. m - 1 /\ Defined(l - 1)
      BY <2>3, <2>4
    <2>6. Defined(l - 1 + 1)
      BY <1>2, <2>5
    <2>7. l - 1 + 1 = l
      BY <2>3
    <2> QED BY <2>3, <2>6, <2>7
  <1> QED BY <1>3

LEMMA TotalUnique ==
    ASSUME NEW k, NEW values, NEW longer, NEW m \in Nat, NEW l \in Nat, m <= l,
           \A n \in 1 .. m : values[n] = longer[n],
           NEW g, g = [n \in 0 .. m |-> TotalAt(k, values, g, n)],
           NEW h, h = [n \in 0 .. l |-> TotalAt(k, longer, h, n)]
    PROVE  \A n \in 0 .. m : g[n] = h[n]
  <1> DEFINE Differ == {n \in 0 .. m : g[n] # h[n]}
  <1> SUFFICES ASSUME Differ # {} PROVE FALSE
    OBVIOUS
  <1>1. Differ \subseteq Nat
    OBVIOUS
  <1>2. PICK n \in Differ : \A j \in Differ : ~ (<<j, n>> \in OpToRel(<, Nat))
    <2> HIDE DEF Differ
    <2> QED BY <1>1, NatLessThanWellFounded, WFMin
  <1>3. g[n] = TotalAt(k, values, g, n) /\ h[n] = TotalAt(k, longer, h, n) /\ n \in 0 .. m /\ g[n] # h[n]
    <2>1. n \in 0 .. m /\ n \in 0 .. l
      OBVIOUS
    <2> QED BY <2>1
  <1>4. n # 0
    BY <1>3 DEF TotalAt
  <1>5. n - 1 \notin Differ
    <2> HIDE DEF Differ
    <2>1. \A j \in Differ : ~ (j < n)
      BY <1>1, <1>2 DEF OpToRel
    <2> QED BY <1>3, <1>4, <2>1
  <1>6. g[n - 1] = h[n - 1]
    BY <1>3, <1>4, <1>5
  <1> QED BY <1>3, <1>4, <1>6 DEF TotalAt

LEMMA TotalAppend ==
    ASSUME NEW k, NEW values \in Seq(Value), NEW v \in Value
    PROVE  /\ TotalOfValues(k, values) \in Int
           /\ TotalOfValues(k, Append(values, v)) = TotalOfValues(k, values) + NumberFor(k, v)
  <1>1. PICK m \in Nat : m = Len(values)
    OBVIOUS
  <1>2. PICK longer : longer = Append(values, v)
    OBVIOUS
  <1>3. Len(longer) = m + 1 /\ longer[m + 1] = v /\ \A n \in 1 .. m : longer[n] = values[n]
    BY <1>1, <1>2
  <1>4. \A u \in Value : NumberFor(k, u) \in Int
    <2>1. \A u \in Value : u.value \in Int
      BY TrendCacheAssumption DEF Value
    <2> QED BY <2>1 DEF NumberFor
  <1>5. \A n \in 1 .. m : values[n] \in Value
    BY <1>1
  <1>6. PICK g : g = CHOOSE f : f = [n \in 0 .. m |-> TotalAt(k, values, f, n)]
    OBVIOUS
  <1>7. PICK h : h = CHOOSE f : f = [n \in 0 .. m + 1 |-> TotalAt(k, longer, f, n)]
    OBVIOUS
  <1>8. \E f \in [0 .. m -> Int] : f = [n \in 0 .. m |-> TotalAt(k, values, f, n)]
    BY <1>4, <1>5, TotalExists
  <1>9. \E f \in [0 .. m + 1 -> Int] : f = [n \in 0 .. m + 1 |-> TotalAt(k, longer, f, n)]
    <2>1. ASSUME NEW n \in 1 .. m + 1 PROVE NumberFor(k, longer[n]) \in Int
      BY <1>3, <1>4, <1>5
    <2>2. m + 1 \in Nat
      OBVIOUS
    <2> QED BY <2>1, <2>2, TotalExists
  <1>10. g = [n \in 0 .. m |-> TotalAt(k, values, g, n)]
    BY <1>6, <1>8, Zenon
  <1>11. h = [n \in 0 .. m + 1 |-> TotalAt(k, longer, h, n)]
    BY <1>7, <1>9, Zenon
  <1>12. \A n \in 0 .. m : g[n] = h[n]
    <2>1. m + 1 \in Nat /\ m <= m + 1
      OBVIOUS
    <2>2. \A n \in 1 .. m : values[n] = longer[n]
      BY <1>3
    <2> QED BY <1>10, <1>11, <2>1, <2>2, TotalUnique
  <1>13. h[m + 1] = h[m] + NumberFor(k, v)
    <2>1. h[m + 1] = TotalAt(k, longer, h, m + 1)
      BY <1>11
    <2>2. m + 1 # 0 /\ (m + 1) - 1 = m
      OBVIOUS
    <2> QED BY <1>3, <2>1, <2>2 DEF TotalAt
  <1>14. g[m] \in Int
    <2>1. PICK f : f \in [0 .. m -> Int] /\ f = [n \in 0 .. m |-> TotalAt(k, values, f, n)]
      BY <1>8
    <2>2. m + 1 \in Nat /\ m <= m + 1 /\ \A n \in 1 .. m : values[n] = longer[n]
      BY <1>3
    <2>3. f = [n \in 0 .. m |-> TotalAt(k, values, f, n)]
      BY <2>1
    <2>4. \A n \in 0 .. m : f[n] = h[n]
      BY <1>11, <2>2, <2>3, TotalUnique
    <2> QED BY <1>12, <2>1, <2>4
  <1>15. TotalOfValues(k, values) = g[m]
    BY <1>1, <1>6, TotalIs
  <1>16. TotalOfValues(k, longer) = h[m + 1]
    BY <1>3, <1>7, TotalIs
  <1> QED BY <1>2, <1>12, <1>13, <1>14, <1>15, <1>16

LEMMA ValuesAppend ==
    ASSUME NEW k \in Key, NEW values \in Seq(Value), NEW v \in Value
    PROVE  /\ Cardinality(ValuesOf(k, values)) \in Nat
           /\ NumbersOf(k, values) \in SUBSET Int
           /\ KeyOf(v) # k =>
                /\ ValuesOf(k, Append(values, v)) = ValuesOf(k, values)
                /\ NumbersOf(k, Append(values, v)) = NumbersOf(k, values)
           /\ KeyOf(v) = k =>
                /\ Cardinality(ValuesOf(k, Append(values, v))) = Cardinality(ValuesOf(k, values)) + 1
                /\ NumbersOf(k, Append(values, v)) = NumbersOf(k, values) \cup {v.value}
  <1>1. PICK m \in Nat : m = Len(values)
    OBVIOUS
  <1>2. PICK longer : longer = Append(values, v)
    OBVIOUS
  <1>3. Len(longer) = m + 1 /\ longer[m + 1] = v /\ \A n \in 1 .. m : longer[n] = values[n]
    BY <1>1, <1>2
  <1>4. PICK old : old = ValuesOf(k, values)
    OBVIOUS
  <1>5. old = {j \in 1 .. m : KeyOf(values[j]) = k}
    BY <1>1, <1>4 DEF ValuesOf
  <1>6. IsFiniteSet(old) /\ Cardinality(old) \in Nat /\ m + 1 \notin old
    <2>1. IsFiniteSet(1 .. m)
      BY FS_Interval
    <2>2. old \subseteq 1 .. m
      BY <1>5
    <2>3. IsFiniteSet(old)
      BY <2>1, <2>2, FS_Subset
    <2>4. Cardinality(old) \in Nat
      BY <2>3, FS_CardinalityType
    <2> QED BY <2>2, <2>3, <2>4
  <1>7. ValuesOf(k, longer) = {j \in 1 .. m + 1 : KeyOf(longer[j]) = k}
    BY <1>3 DEF ValuesOf
  <1>8. ValuesOf(k, longer) = IF KeyOf(v) = k THEN old \cup {m + 1} ELSE old
    BY <1>3, <1>5, <1>7
  <1>9. \A j \in old : longer[j] = values[j] /\ values[j].value \in Int
    <2>1. \A u \in Value : u.value \in Int
      BY TrendCacheAssumption DEF Value
    <2> QED BY <1>1, <1>3, <1>5, <2>1
  <1>10. NumbersOf(k, values) = {values[j].value : j \in old}
    BY <1>4 DEF NumbersOf
  <1>11. NumbersOf(k, longer) = {longer[j].value : j \in ValuesOf(k, longer)}
    BY DEF NumbersOf
  <1>12. NumbersOf(k, values) \in SUBSET Int
    BY <1>9, <1>10
  <1>13. ASSUME KeyOf(v) = k
         PROVE  /\ Cardinality(ValuesOf(k, longer)) = Cardinality(old) + 1
                /\ NumbersOf(k, longer) = NumbersOf(k, values) \cup {v.value}
    <2>1. ValuesOf(k, longer) = old \cup {m + 1}
      BY <1>8, <1>13
    <2>2. Cardinality(old \cup {m + 1}) = Cardinality(old) + 1
      BY <1>6, FS_AddElement
    <2>3. NumbersOf(k, longer) = NumbersOf(k, values) \cup {v.value}
      BY <1>3, <1>9, <1>10, <1>11, <2>1
    <2> QED BY <2>1, <2>2, <2>3
  <1>14. ASSUME KeyOf(v) # k
         PROVE  ValuesOf(k, longer) = old /\ NumbersOf(k, longer) = NumbersOf(k, values)
    BY <1>8, <1>9, <1>10, <1>11, <1>14
  <1> QED BY <1>2, <1>4, <1>6, <1>12, <1>13, <1>14

-----------------------------------------------------------------------------
(* The batch of the one syncer: an item has one value in it, so its trend  *)
(* is flushed once at most before the updates are executed.                *)
IdleClean == \A s \in TrendSyncers : stage[s] = "idle" => todo[s] = <<>> /\ sql[s] = <<>>

ItemsApart ==
    /\ \A s \in TrendSyncers : DistinctItems(todo[s])
    /\ \A s \in TrendSyncers, p \in Unexecuted :
          \A i \in 1 .. Len(todo[s]) : todo[s][i].itemid # p.key.itemid

FlushedOnce ==
    /\ \A p, q \in Unexecuted : p.key = q.key => p = q
    /\ \A t \in Kept, p \in Unexecuted : p.key # KeyOf(t)

BatchInv == IdleClean /\ ItemsApart /\ FlushedOnce /\ OwnTrend

LEMMA BatchInit == TrendInit => BatchInv
  <1> SUFFICES ASSUME TrendInit PROVE BatchInv
    OBVIOUS
  <1>1. Kept = {} /\ Unexecuted = {}
    BY DEF TrendInit, Kept, Unexecuted
  <1> QED BY <1>1 DEF TrendInit, BatchInv, IdleClean, ItemsApart, FlushedOnce, OwnTrend, DistinctItems

LEMMA BatchOfBatch ==
    ASSUME OneSyncer, ArrayInv, BatchInv, NEW s \in TrendSyncers, DCmass_update_trends(s)
    PROVE  BatchInv'
  <1>1. PICK m \in 1 .. MaxBatch : \E b \in Batches(m) : todo' = [todo EXCEPT ![s] = b]
    BY DEF DCmass_update_trends
  <1> PICK b \in Batches(m) : todo' = [todo EXCEPT ![s] = b]
    BY <1>1
  <1>2. /\ stage[s] = "idle" /\ stage' = [stage EXCEPT ![s] = "get"]
        /\ trends' = trends /\ sql' = sql
    BY DEF DCmass_update_trends
  <1>3. \A q \in TrendSyncers : q = s
    BY DEF OneSyncer
  <1>4. todo'[s] = b /\ stage'[s] = "get"
    BY <1>1, <1>2 DEF ArrayInv, Typed
  <1>5. Unexecuted' = {}
    <2>1. sql[s] = <<>>
      BY <1>2 DEF BatchInv, IdleClean
    <2> QED BY <1>2, <1>3, <2>1 DEF Unexecuted
  <1>6. IdleClean' /\ OwnTrend'
    BY <1>3, <1>4 DEF IdleClean, OwnTrend
  <1>7. ItemsApart'
    BY <1>1, <1>3, <1>4, <1>5 DEF ItemsApart, Batches
  <1>8. FlushedOnce'
    BY <1>5 DEF FlushedOnce
  <1> QED BY <1>6, <1>7, <1>8 DEF BatchInv

LEMMA BatchOfGet ==
    ASSUME OneSyncer, ArrayInv, BatchInv, NEW s \in TrendSyncers, DCget_trend(s)
    PROVE  BatchInv'
  <1>1. stage[s] = "get" /\ stage' = [stage EXCEPT ![s] = "add"] /\ todo' = todo /\ sql' = sql
    BY DEF DCget_trend
  <1>2. \A q \in TrendSyncers : q = s
    BY DEF OneSyncer
  <1>3. stage'[s] = "add"
    BY <1>1 DEF ArrayInv, Typed
  <1>4. Kept' = Kept /\ Unexecuted' = Unexecuted
    BY MovesGet DEF KeepsRows
  <1>5. IdleClean'
    BY <1>2, <1>3 DEF IdleClean
  <1>6. ItemsApart' /\ FlushedOnce'
    BY <1>1, <1>4 DEF BatchInv, ItemsApart, FlushedOnce
  <1>7. OwnTrend'
    <2>1. PICK itemid : itemid = Head(todo[s]).itemid
      OBVIOUS
    <2>2. PICK index : index = DCget_trend_nearestindex(itemid)
      OBVIOUS
    <2>3. itemid \in TrendItems /\ PlaceOf(itemid, index)
      BY <2>1, <2>2, NextPlace DEF DCget_trend, Value
    <2>4. Len(trends) \in Nat /\ trends \in Seq(Trend) /\ index \in 1 .. Len(trends) + 1
      BY <2>3, Structures DEF ArrayInv, Typed, PlaceOf
    <2>5. \/ Found(index, itemid) /\ trend' = [trend EXCEPT ![s] = index] /\ trends' = trends
          \/ trend' = [trend EXCEPT ![s] = 0]
          \/ trend' = [trend EXCEPT ![s] = index] /\ trends' = InsertAt(trends, index, NewTrend(itemid))
      BY <2>1, <2>2 DEF DCget_trend
    <2>6. trend \in [TrendSyncers -> Nat]
      BY DEF ArrayInv, Typed
    <2>7. ASSUME trend'[s] # 0
          PROVE  trend'[s] <= Len(trends') /\ trends'[trend'[s]].itemid = itemid
      <3>1. CASE Found(index, itemid) /\ trend' = [trend EXCEPT ![s] = index] /\ trends' = trends
        BY <2>6, <3>1 DEF Found
      <3>2. CASE trend' = [trend EXCEPT ![s] = 0]
        BY <2>6, <2>7, <3>2
      <3>3. CASE /\ trend' = [trend EXCEPT ![s] = index]
                 /\ trends' = InsertAt(trends, index, NewTrend(itemid))
        <4>1. NewTrend(itemid) \in Trend /\ NewTrend(itemid).itemid = itemid
          BY <2>3 DEF NewTrend, Trend, Types
        <4>2. /\ Len(trends') = Len(trends) + 1
              /\ \A j \in 1 .. Len(trends) + 1 :
                    trends'[j] = IF j < index THEN trends[j]
                                 ELSE IF j = index THEN NewTrend(itemid) ELSE trends[j - 1]
          BY <2>4, <3>3, <4>1, Inserted
        <4>3. trend'[s] = index
          BY <2>6, <3>3
        <4> QED BY <2>4, <4>1, <4>2, <4>3
      <3> QED BY <2>5, <3>1, <3>2, <3>3
    <2> QED BY <1>1, <1>2, <2>1, <2>7 DEF OwnTrend
  <1> QED BY <1>5, <1>6, <1>7 DEF BatchInv

LEMMA BatchOfAdd ==
    ASSUME OneSyncer, ArrayInv, BatchInv, NEW s \in TrendSyncers, DCadd_trend(s)
    PROVE  BatchInv'
  <1>1. \A q \in TrendSyncers : q = s
    BY DEF OneSyncer
  <1>2. stage[s] = "add" /\ todo[s] # <<>>
    BY DEF DCadd_trend, ArrayInv, InPlace
  <1>3. CASE trend[s] = 0
    <2>1. /\ stage' = [stage EXCEPT ![s] = "crashed"]
          /\ todo' = todo
      BY <1>3 DEF DCadd_trend
    <2>2. stage'[s] = "crashed"
      BY <2>1 DEF ArrayInv, Typed
    <2>3. Kept' = Kept /\ Unexecuted' = Unexecuted
      BY <1>3, MovesAdd DEF KeepsRows
    <2>4. IdleClean' /\ OwnTrend'
      BY <1>1, <2>2 DEF IdleClean, OwnTrend
    <2>5. ItemsApart' /\ FlushedOnce'
      BY <2>1, <2>3 DEF BatchInv, ItemsApart, FlushedOnce
    <2> QED BY <2>4, <2>5 DEF BatchInv
  <1>4. CASE trend[s] # 0
    <2>1. PICK t \in Trend, v \in Value : t = trends[trend[s]] /\ v = Head(todo[s]) /\ Adds(t, v)
      BY <1>4, MovesAdd
    <2>2. t.itemid = v.itemid
      BY <1>2, <1>4, <2>1 DEF BatchInv, OwnTrend
    <2>3. stage' = [stage EXCEPT ![s] = "get"] /\ todo' = [todo EXCEPT ![s] = Tail(@)]
      BY <1>4 DEF DCadd_trend
    <2>4. PICK b : b = todo[s]
      OBVIOUS
    <2>5. b \in Seq(Value) /\ b # <<>>
      BY <1>2, <2>4 DEF ArrayInv, Typed
    <2>6. stage'[s] = "get" /\ todo'[s] = Tail(b)
      BY <2>3, <2>4 DEF ArrayInv, Typed
    <2>7. PICK c : c = Tail(b)
      OBVIOUS
    <2>8. /\ Len(b) \in Nat \ {0} /\ Len(c) = Len(b) - 1 /\ v = b[1]
          /\ \A i \in 1 .. Len(c) : c[i] = b[i + 1]
      BY <2>1, <2>4, <2>5, <2>7
    <2>9. \A i, j \in 1 .. Len(b) : i # j => b[i].itemid # b[j].itemid
      BY <2>4 DEF BatchInv, ItemsApart, DistinctItems
    <2>10. \A i \in 1 .. Len(c) : c[i].itemid # v.itemid
      BY <2>8, <2>9
    <2>11. DistinctItems(c)
      BY <2>8, <2>9 DEF DistinctItems
    <2>12. \A p \in Unexecuted : /\ p.key.itemid # v.itemid
                              /\ \A i \in 1 .. Len(c) : c[i].itemid # p.key.itemid
      <3>1. \A p \in Unexecuted : \A i \in 1 .. Len(b) : b[i].itemid # p.key.itemid
        BY <2>4 DEF BatchInv, ItemsApart
      <3> QED BY <2>8, <3>1
    <2>13. PICK f : f = Flush(t)
      OBVIOUS
    <2>14. f.key = KeyOf(t) /\ f.key.itemid = v.itemid
      BY <2>2, <2>13 DEF Flush, KeyOf
    <2>15. \A p \in Unexecuted' : p \in Unexecuted \/ (p = f /\ MustFlush(t, v))
      BY <2>1, <2>13 DEF Adds
    <2>16. PICK a : a = Accumulated(t, v)
      OBVIOUS
    <2>17. \A u \in Kept' : u = a \/ (u \in Kept /\ u.itemid # v.itemid)
      BY <2>1, <2>2, <2>16 DEF Adds
    <2>18. a.itemid = v.itemid /\ a.clock = v.clock /\ a.type = v.type
      BY <2>2, <2>16 DEF Accumulated
    <2>19. ItemsApart'
      <3>1. \A p \in Unexecuted' : \A i \in 1 .. Len(c) : c[i].itemid # p.key.itemid
        BY <2>10, <2>12, <2>14, <2>15
      <3> QED BY <1>1, <2>6, <2>7, <2>11, <3>1 DEF ItemsApart
    <2>20. FlushedOnce'
      <3>1. ASSUME NEW p \in Unexecuted', NEW q \in Unexecuted', p.key = q.key PROVE p = q
        BY <2>12, <2>14, <2>15, <3>1 DEF BatchInv, FlushedOnce
      <3>2. ASSUME NEW u \in Kept', NEW p \in Unexecuted' PROVE p.key # KeyOf(u)
        <4>1. KeyOf(u).itemid = u.itemid /\ KeyOf(u).type = u.type /\ KeyOf(u).clock = u.clock
              /\ KeyOf(t).type = t.type /\ KeyOf(t).clock = t.clock
          BY DEF KeyOf
        <4>2. CASE u = a /\ p \in Unexecuted
          BY <2>12, <2>18, <4>1, <4>2
        <4>3. CASE u = a /\ p = f /\ MustFlush(t, v)
          BY <2>14, <2>18, <4>1, <4>3 DEF MustFlush
        <4>4. CASE u \in Kept /\ u.itemid # v.itemid
          BY <2>14, <2>15, <4>1, <4>4 DEF BatchInv, FlushedOnce
        <4> QED BY <2>15, <2>17, <4>2, <4>3, <4>4
      <3> QED BY <3>1, <3>2 DEF FlushedOnce
    <2>21. IdleClean' /\ OwnTrend'
      BY <1>1, <2>6 DEF IdleClean, OwnTrend
    <2> QED BY <2>19, <2>20, <2>21 DEF BatchInv
  <1> QED BY <1>3, <1>4

LEMMA BatchOfExecute ==
    ASSUME OneSyncer, ArrayInv, BatchInv, NEW s \in TrendSyncers, Execute(s)
    PROVE  BatchInv' /\ Unexecuted' = {} /\ Unexecuted = {sql[s][j] : j \in 1 .. Len(sql[s])}
  <1>1. \A q \in TrendSyncers : q = s
    BY DEF OneSyncer
  <1>2. /\ todo[s] = <<>> /\ todo' = todo /\ trends' = trends
        /\ sql' = [sql EXCEPT ![s] = <<>>] /\ stage' = [stage EXCEPT ![s] = "idle"]
    BY DEF Execute
  <1>3. sql'[s] = <<>> /\ stage'[s] = "idle"
    BY <1>2 DEF ArrayInv, Typed
  <1>4. Unexecuted' = {}
    BY <1>1, <1>3 DEF Unexecuted
  <1>5. Unexecuted = {sql[s][j] : j \in 1 .. Len(sql[s])}
    BY <1>1 DEF Unexecuted
  <1>6. IdleClean' /\ OwnTrend'
    BY <1>1, <1>2, <1>3 DEF IdleClean, OwnTrend
  <1>7. ItemsApart' /\ FlushedOnce'
    BY <1>2, <1>4 DEF BatchInv, ItemsApart, FlushedOnce
  <1> QED BY <1>4, <1>5, <1>6, <1>7 DEF BatchInv

LEMMA BatchOfKill == ASSUME KillSyncers PROVE BatchInv'
  <1>1. /\ stage' = [s \in TrendSyncers |-> "idle"] /\ todo' = [s \in TrendSyncers |-> <<>>]
        /\ sql' = [s \in TrendSyncers |-> <<>>] /\ Unexecuted' = {}
    BY MovesKill DEF KillSyncers
  <1>2. IdleClean' /\ OwnTrend'
    BY <1>1 DEF IdleClean, OwnTrend
  <1>3. ItemsApart' /\ FlushedOnce'
    BY <1>1 DEF ItemsApart, FlushedOnce, DistinctItems
  <1> QED BY <1>2, <1>3 DEF BatchInv

LEMMA BatchOfSync ==
    ASSUME BatchInv, ArrayInv, DCsync_trends
    PROVE  BatchInv' /\ Unexecuted = {}
  <1>1. /\ \A s \in TrendSyncers : stage[s] = "idle"
        /\ trends' = <<>> /\ stage' = stage /\ todo' = todo /\ sql' = sql
    BY DEF DCsync_trends
  <1>2. \A s \in TrendSyncers : sql[s] = <<>>
    BY <1>1 DEF BatchInv, IdleClean
  <1>3. Unexecuted = {} /\ Unexecuted' = {} /\ Kept' = {}
    BY <1>1, <1>2 DEF Unexecuted, Kept
  <1>4. IdleClean' /\ OwnTrend'
    BY <1>1 DEF BatchInv, IdleClean, OwnTrend
  <1>5. ItemsApart' /\ FlushedOnce'
    BY <1>1, <1>3 DEF BatchInv, ItemsApart, FlushedOnce
  <1> QED BY <1>3, <1>4, <1>5 DEF BatchInv

-----------------------------------------------------------------------------
(* The account of one trend.                                               *)
AccountOf(k) == Accounts(InCache(k), Row(k), Cardinality(ValuesOf(k, seen)), NumbersOf(k, seen),
                         TotalOfValues(k, seen), k.type)

LEMMA CompleteIs == TrendsComplete <=> \A k \in Key \ lost : AccountOf(k)
  BY DEF TrendsComplete, AccountOf, Accounts, Parts

LEMMA CachedIs == ASSUME NEW k PROVE InCache(k) = {t \in Kept : KeyOf(t) = k}
  BY DEF InCache, Kept

LEMMA RowIs ==
    ASSUME NEW k
    PROVE  /\ \A p \in Unexecuted : p.key = k => Row(k) = {q.row : q \in {r \in Unexecuted : r.key = k}}
           /\ (\A p \in Unexecuted : p.key # k) => Row(k) = {rows[k]} \ {NoRow}
  BY DEF Row, Unexecuted

LEMMA RowTyped == ASSUME ArrayInv, NEW k \in Key PROVE Row(k) \in SUBSET TrendRow
  <1>1. CASE \A p \in Unexecuted : p.key # k
    BY <1>1, RowIs, RowNum
  <1>2. CASE \E p \in Unexecuted : p.key = k
    BY <1>2, RowIs, PendingNum
  <1> QED BY <1>1, <1>2

LEMMA Uncounted ==
    ASSUME NEW k \in Key, AccountOf(k), seen' = seen, InCache(k)' = InCache(k), Row(k)' = Row(k)
    PROVE  AccountOf(k)'
  BY DEF AccountOf

LEMMA CompleteAdds ==
    ASSUME ArrayInv, BatchInv, TrendsComplete, NEW t \in Trend, NEW v \in Value, Adds(t, v),
           t.itemid = v.itemid, NEW k \in Key \ lost
    PROVE  AccountOf(k)'
  <1>1. PICK a \in Trend : a = Accumulated(t, v)
    BY AccumulatedTrend
  <1>2. a.itemid = v.itemid /\ a.clock = v.clock /\ a.type = v.type /\ KeyOf(a) = KeyOf(v)
    BY <1>1 DEF Accumulated, KeyOf
  <1>3. /\ Kept' = {u \in Kept : u.itemid # t.itemid} \cup {a}
        /\ Unexecuted' = Unexecuted \cup (IF MustFlush(t, v) THEN {Flush(t)} ELSE {})
        /\ rows' = rows /\ seen' = Append(seen, v)
        /\ t.num > 0 => t \in Kept
        /\ \A u \in Kept : u.itemid = t.itemid => u = t
        /\ t.num = 0 => t.avg = 0
    BY <1>1 DEF Adds
  <1>4. \A u \in Kept : u.num # 0
    BY KeptTyped
  <1>5. Flush(t).key = KeyOf(t) /\ (KeyOf(t) = k => Flush(t).row = Merged(t, rows[KeyOf(t)]))
    BY DEF Flush, FoundRow
  <1>6. AccountOf(k)
    BY CompleteIs
  <1>7. \A u : KeyOf(u).itemid = u.itemid /\ KeyOf(u).type = u.type /\ KeyOf(u).clock = u.clock
    BY DEF KeyOf
  <1>8. MustFlush(t, v) => KeyOf(t) # KeyOf(v) /\ t \in Kept
    BY <1>3, <1>7 DEF MustFlush
  <1>9. ~MustFlush(t, v) /\ t.num > 0 => KeyOf(t) = KeyOf(v) /\ t \in Kept
    BY <1>3 DEF MustFlush, KeyOf
  <1>10. t.num \in Nat /\ t.avg \in Int /\ v.value \in Int
    <2>1. t.num \in Nat /\ t.avg \in Int
      BY DEF Trend
    <2>2. v.value \in Int
      BY TrendCacheAssumption DEF Value
    <2> QED BY <2>1, <2>2
  <1>11. PICK n \in Nat : n = Cardinality(ValuesOf(k, seen))
    BY ValuesAppend DEF ArrayInv, Typed
  <1>12. PICK X \in SUBSET Int : X = NumbersOf(k, seen)
    BY ValuesAppend DEF ArrayInv, Typed
  <1>13. PICK total \in Int : total = TotalOfValues(k, seen)
    BY TotalAppend DEF ArrayInv, Typed
  <1>14. PICK R \in SUBSET TrendRow : R = Row(k)
    BY RowTyped
  <1>15. Accounts(InCache(k), R, n, X, total, k.type)
    BY <1>6, <1>11, <1>12, <1>13, <1>14 DEF AccountOf
  <1>16. (k = KeyOf(t) => ~MustFlush(t, v)) => Row(k)' = Row(k)
    <2>1. SUFFICES ASSUME k = KeyOf(t) => ~MustFlush(t, v) PROVE Row(k)' = Row(k)
      OBVIOUS
    <2>2. \A p : p \in Unexecuted' /\ p.key = k <=> p \in Unexecuted /\ p.key = k
      BY <1>3, <1>5, <2>1
    <2>3. {q \in Unexecuted' : q.key = k} = {q \in Unexecuted : q.key = k}
      BY <2>2
    <2>4. Row(k) = IF {q \in Unexecuted : q.key = k} # {} THEN {q.row : q \in {r \in Unexecuted : r.key = k}}
                   ELSE {rows[k]} \ {NoRow}
      BY DEF Row, Unexecuted
    <2>5. Row(k)' = IF {q \in Unexecuted' : q.key = k} # {}
                    THEN {q.row : q \in {r \in Unexecuted' : r.key = k}}
                    ELSE {rows'[k]} \ {NoRow}
      BY DEF Row, Unexecuted
    <2> QED BY <1>3, <2>3, <2>4, <2>5
  <1>17. InCache(k) = {u \in Kept : KeyOf(u) = k} /\ InCache(k)' = {u \in Kept' : KeyOf(u) = k}
    <2>1. InCache(k) = {u \in Kept : KeyOf(u) = k}
      BY CachedIs
    <2>2. InCache(k)' = {u \in Kept' : KeyOf(u) = k}
      BY DEF InCache, Kept
    <2> QED BY <2>1, <2>2
  <1>18. CASE k = KeyOf(v)
    <2>1. Row(k)' = R
      BY <1>8, <1>14, <1>16, <1>18
    <2>2. InCache(k)' = {a}
      BY <1>2, <1>3, <1>7, <1>17, <1>18
    <2>3. /\ Cardinality(ValuesOf(k, seen')) = n + 1
          /\ NumbersOf(k, seen') = X \cup {v.value}
          /\ TotalOfValues(k, seen') = total + v.value
      <3>1. NumberFor(k, v) = v.value
        BY <1>18 DEF NumberFor
      <3> QED BY <1>3, <1>11, <1>12, <1>13, <1>18, <3>1, ValuesAppend, TotalAppend DEF ArrayInv, Typed
    <2>4. Accounts({a}, R, n + 1, X \cup {v.value}, total + v.value, k.type)
      <3>1. CASE MustFlush(t, v) \/ t.num = 0
        <4>1. InCache(k) = {}
          BY <1>3, <1>4, <1>7, <1>8, <1>17, <1>18, <3>1
        <4>2. a.num = 1 /\ a.min = v.value /\ a.max = v.value
          BY <1>1, <3>1 DEF Accumulated
        <4>3. k.type = "float" => a.avg = v.value
          <5>1. SUFFICES ASSUME k.type = "float" PROVE a.avg = v.value
            OBVIOUS
          <5>2. v.type = "float"
            BY <1>7, <1>18, <5>1
          <5>3. (IF MustFlush(t, v) THEN 0 ELSE t.avg) = 0
            BY <1>3, <3>1
          <5>4. a.avg = 0 + v.value
            BY <1>1, <5>2, <5>3 DEF Accumulated, Average, Total
          <5> QED BY <1>10, <5>4
        <4> QED BY <1>10, <1>15, <4>1, <4>2, <4>3, AccountsNew
      <3>2. CASE ~MustFlush(t, v) /\ t.num # 0
        <4>1. t.num > 0 /\ t \in Kept /\ KeyOf(t) = k
          BY <1>9, <1>10, <1>18, <3>2
        <4>2. InCache(k) = {t}
          BY <1>3, <1>7, <1>17, <4>1
        <4>3. /\ a.num = t.num + 1
              /\ a.min = Lesser(v.value, t.min) /\ a.max = Greater(v.value, t.max)
          BY <1>1, <3>2 DEF Accumulated
        <4>4. k.type = "float" => a.avg = t.avg + v.value
          BY <1>1, <1>7, <1>18, <3>2 DEF Accumulated, Average, Total
        <4> QED BY <1>10, <1>15, <4>2, <4>3, <4>4, AccountsMore
      <3> QED BY <3>1, <3>2
    <2> QED BY <2>1, <2>2, <2>3, <2>4 DEF AccountOf
  <1>19. CASE k # KeyOf(v)
    <2>1. /\ Cardinality(ValuesOf(k, seen')) = n /\ NumbersOf(k, seen') = X
          /\ TotalOfValues(k, seen') = total
      <3>1. NumberFor(k, v) = 0
        BY <1>19 DEF NumberFor
      <3>2. TotalOfValues(k, seen') = total + 0
        BY <1>3, <1>13, <3>1, TotalAppend DEF ArrayInv, Typed
      <3> QED BY <1>3, <1>11, <1>12, <1>19, <3>2, ValuesAppend DEF ArrayInv, Typed
    <2>2. CASE MustFlush(t, v) /\ k = KeyOf(t)
      <3>1. InCache(k) = {t} /\ InCache(k)' = {}
        BY <1>2, <1>3, <1>7, <1>8, <1>17, <1>19, <2>2
      <3>2. PICK row \in TrendRow \cup {NoRow} : row = rows[k]
        BY RowNum
      <3>3. \A p \in Unexecuted : p.key # k
        BY <1>8, <2>2 DEF BatchInv, FlushedOnce
      <3>4. R = {row} \ {NoRow}
        BY <1>14, <3>2, <3>3, RowIs
      <3>5. Row(k)' = {Merged(t, row)}
        <4>1. \A p : p \in Unexecuted' /\ p.key = k <=> p = Flush(t)
          BY <1>3, <1>5, <2>2, <3>3
        <4>2. {q \in Unexecuted' : q.key = k} = {Flush(t)}
          BY <4>1
        <4>3. Row(k)' = IF {q \in Unexecuted' : q.key = k} # {}
                        THEN {q.row : q \in {r \in Unexecuted' : r.key = k}}
                        ELSE {rows'[k]} \ {NoRow}
          BY DEF Row, Unexecuted
        <4>4. Row(k)' = {Flush(t).row}
          BY <4>2, <4>3
        <4> QED BY <1>5, <2>2, <3>2, <4>4
      <3>6. t.num # 0 /\ k.type = t.type
        BY <1>4, <1>7, <1>8, <2>2
      <3>7. Accounts({}, {Merged(t, row)}, n, X, total, k.type)
        BY <1>15, <3>1, <3>2, <3>4, <3>6, AccountsMerged
      <3> QED BY <2>1, <3>1, <3>5, <3>7 DEF AccountOf
    <2>3. CASE ~(MustFlush(t, v) /\ k = KeyOf(t))
      <3>1. Row(k)' = R
        BY <1>14, <1>16, <2>3
      <3>2. KeyOf(t) = k => t \notin Kept
        BY <1>4, <1>9, <1>10, <1>19, <2>3
      <3>3. InCache(k)' = InCache(k)
        BY <1>2, <1>3, <1>17, <1>19, <3>2
      <3> QED BY <1>15, <2>1, <3>1, <3>3 DEF AccountOf
    <2> QED BY <2>2, <2>3
  <1> QED BY <1>18, <1>19

LEMMA CompleteExecute ==
    ASSUME OneSyncer, ArrayInv, BatchInv, TrendsComplete, NEW s \in TrendSyncers, Execute(s), NEW k \in Key \ lost
    PROVE  AccountOf(k)'
  <1>1. rows' = Executed(sql[s]) /\ trends' = trends /\ seen' = seen
    BY DEF Execute
  <1>2. Unexecuted' = {} /\ Unexecuted = {sql[s][j] : j \in 1 .. Len(sql[s])}
    BY BatchOfExecute
  <1>3. PICK q : q = sql[s]
    OBVIOUS
  <1>4. Len(q) \in Nat
    BY <1>3 DEF ArrayInv, Typed
  <1>5. \/ rows'[k] = rows[k] /\ \A j \in 1 .. Len(q) : q[j].key # k
        \/ \E j \in 1 .. Len(q) : q[j].key = k /\ rows'[k] = q[j].row
    BY <1>1, <1>3, <1>4, ExecutedRow
  <1>6. Row(k)' = {rows'[k]} \ {NoRow}
    <2>1. Row(k)' = IF {r \in Unexecuted' : r.key = k} # {}
                    THEN {r.row : r \in {r \in Unexecuted' : r.key = k}}
                    ELSE {rows'[k]} \ {NoRow}
      BY DEF Row, Unexecuted
    <2> QED BY <1>2, <2>1
  <1>7. Row(k)' = Row(k)
    <2>1. CASE rows'[k] = rows[k] /\ \A j \in 1 .. Len(q) : q[j].key # k
      <3>1. \A p \in Unexecuted : p.key # k
        BY <1>2, <1>3, <2>1
      <3> QED BY <1>6, <2>1, <3>1, RowIs
    <2>2. CASE \E j \in 1 .. Len(q) : q[j].key = k /\ rows'[k] = q[j].row
      <3>1. PICK p \in Unexecuted : p.key = k /\ rows'[k] = p.row
        BY <1>2, <1>3, <2>2
      <3>2. p.row \in TrendRow /\ p.row # NoRow
        BY PendingNum DEF TrendRow, NoRow
      <3>3. {r \in Unexecuted : r.key = k} = {p}
        BY <3>1 DEF BatchInv, FlushedOnce
      <3>4. Row(k) = {r.row : r \in {r \in Unexecuted : r.key = k}}
        BY <3>1, RowIs
      <3>5. Row(k) = {p.row}
        BY <3>3, <3>4
      <3> QED BY <1>6, <3>1, <3>2, <3>5
    <2> QED BY <1>5, <2>1, <2>2
  <1>8. InCache(k)' = InCache(k)
    BY <1>1 DEF InCache
  <1> QED BY <1>1, <1>7, <1>8, CompleteIs, Uncounted

LEMMA CompleteSync ==
    ASSUME ArrayInv, BatchInv, TrendsComplete, DCsync_trends, NEW k \in Key \ lost
    PROVE  AccountOf(k)'
  <1>1. /\ Kept' = {} /\ Unexecuted' = {} /\ Unexecuted = {} /\ seen' = seen
        /\ \/ rows'[k] = rows[k] /\ \A t \in Kept : KeyOf(t) # k
           \/ \E t \in Kept : KeyOf(t) = k /\ rows'[k] = Merged(t, rows[k])
    BY MovesSync, BatchOfSync DEF WritesAll
  <1>2. Row(k)' = {rows'[k]} \ {NoRow}
    <2>1. Row(k)' = IF {r \in Unexecuted' : r.key = k} # {}
                    THEN {r.row : r \in {r \in Unexecuted' : r.key = k}}
                    ELSE {rows'[k]} \ {NoRow}
      BY DEF Row, Unexecuted
    <2> QED BY <1>1, <2>1
  <1>3. Row(k) = {rows[k]} \ {NoRow}
    BY <1>1, RowIs
  <1>4. InCache(k) = {u \in Kept : KeyOf(u) = k} /\ InCache(k)' = {}
    <2>1. InCache(k)' = {u \in Kept' : KeyOf(u) = k}
      BY DEF InCache, Kept
    <2> QED BY <1>1, <2>1, CachedIs
  <1>5. AccountOf(k)
    BY CompleteIs
  <1>6. CASE rows'[k] = rows[k] /\ \A t \in Kept : KeyOf(t) # k
    <2>1. InCache(k) = {} /\ Row(k)' = Row(k)
      BY <1>2, <1>3, <1>4, <1>6
    <2> QED BY <1>1, <1>4, <1>5, <2>1, Uncounted
  <1>7. CASE \E t \in Kept : KeyOf(t) = k /\ rows'[k] = Merged(t, rows[k])
    <2>1. PICK t \in Kept : KeyOf(t) = k /\ rows'[k] = Merged(t, rows[k])
      BY <1>7
    <2>2. t \in Trend /\ t.num # 0 /\ t.type = k.type
      BY <2>1, KeptTyped DEF KeyOf
    <2>3. InCache(k) = {t}
      <3>1. \A u \in Kept : KeyOf(u) = k => u.itemid = t.itemid
        BY <2>1 DEF KeyOf
      <3>2. \A u \in Kept : KeyOf(u) = k => u = t
        BY <3>1, KeptTyped
      <3> QED BY <1>4, <2>1, <3>2
    <2>4. PICK row \in TrendRow \cup {NoRow} : row = rows[k]
      BY RowNum
    <2>5. Merged(t, row) # NoRow
      BY <2>2, MergedRow DEF TrendRow, NoRow
    <2>6. Row(k)' = {Merged(t, row)}
      BY <1>2, <2>1, <2>4, <2>5
    <2>7. PICK n : n = Cardinality(ValuesOf(k, seen))
      OBVIOUS
    <2>8. PICK X \in SUBSET Int : X = NumbersOf(k, seen)
      <3>1. PICK values \in Seq(Value) : values = seen
        BY DEF ArrayInv, Typed
      <3>2. NumbersOf(k, values) \in SUBSET Int
        <4>1. \A u \in Value : u.value \in Int
          BY TrendCacheAssumption DEF Value
        <4> QED BY <4>1 DEF NumbersOf, ValuesOf
      <3> QED BY <3>1, <3>2
    <2>9. PICK total : total = TotalOfValues(k, seen)
      OBVIOUS
    <2>10. Accounts({t}, {row} \ {NoRow}, n, X, total, t.type)
      BY <1>3, <1>5, <2>2, <2>3, <2>4, <2>7, <2>8, <2>9 DEF AccountOf
    <2>11. Accounts({}, {Merged(t, row)}, n, X, total, t.type)
      BY <2>2, <2>10, AccountsMerged
    <2> QED BY <1>1, <1>4, <2>2, <2>6, <2>7, <2>8, <2>9, <2>11 DEF AccountOf
  <1> QED BY <1>1, <1>6, <1>7

(* A trend that is not lost had no update in a string.                     *)
LEMMA CompleteKill ==
    ASSUME ArrayInv, TrendsComplete, KillSyncers, NEW k \in Key \ lost'
    PROVE  AccountOf(k)'
  <1>1. /\ lost' = lost \cup {q.key : q \in Unexecuted}
        /\ trends' = trends /\ rows' = rows /\ seen' = seen
    BY DEF KillSyncers
  <1>2. k \in Key \ lost /\ \A p \in Unexecuted : p.key # k
    BY <1>1
  <1>3. Row(k) = {rows[k]} \ {NoRow}
    BY <1>2, RowIs
  <1>4. Row(k)' = {rows'[k]} \ {NoRow}
    BY MovesKill DEF Row
  <1>5. InCache(k)' = InCache(k)
    BY <1>1 DEF InCache
  <1> QED BY <1>1, <1>2, <1>3, <1>4, <1>5, CompleteIs, Uncounted

CompleteInv == ArrayInv /\ BatchInv /\ TrendsComplete

LEMMA CompleteInit == TrendInit => TrendsComplete
  <1> SUFFICES ASSUME TrendInit, NEW k \in Key PROVE AccountOf(k)
    BY CompleteIs
  <1>1. trends = <<>> /\ seen = <<>> /\ rows[k] = NoRow /\ Kept = {} /\ Unexecuted = {}
    BY DEF TrendInit, Kept, Unexecuted
  <1>2. InCache(k) = {} /\ Row(k) = {}
    BY <1>1, CachedIs, RowIs
  <1>3. ValuesOf(k, seen) = {} /\ NumbersOf(k, seen) = {}
    BY <1>1 DEF ValuesOf, NumbersOf
  <1>4. Cardinality({}) = 0
    BY FS_EmptySet
  <1>5. TotalOfValues(k, seen) = 0
    <2>1. PICK values : values = seen
      OBVIOUS
    <2>2. PICK m \in Nat : m = 0
      OBVIOUS
    <2>3. PICK g : g = CHOOSE f : f = [n \in 0 .. m |-> TotalAt(k, values, f, n)]
      OBVIOUS
    <2>4. \E f \in [0 .. m -> Int] : f = [n \in 0 .. m |-> TotalAt(k, values, f, n)]
      <3>1. \A n \in 1 .. m : NumberFor(k, values[n]) \in Int
        BY <2>2
      <3> QED BY <3>1, TotalExists
    <2>5. g = [n \in 0 .. m |-> TotalAt(k, values, g, n)]
      BY <2>3, <2>4, Zenon
    <2>6. g[m] = TotalAt(k, values, g, m)
      BY <2>5
    <2>7. g[m] = 0
      BY <2>2, <2>6 DEF TotalAt
    <2>8. Len(values) = m
      BY <1>1, <2>1, <2>2
    <2>9. TotalOfValues(k, values) = g[m]
      BY <2>3, <2>8, TotalIs
    <2> QED BY <2>1, <2>7, <2>9
  <1> QED BY <1>2, <1>3, <1>4, <1>5, Nothing DEF AccountOf, Accounts

LEMMA CompleteNext ==
    ASSUME OneSyncer, CompleteInv, [TrendNext]_trendVars
    PROVE  CompleteInv'
  <1>1. ArrayInv /\ BatchInv /\ TrendsComplete /\ ArrayInv'
    BY ArrayNext DEF CompleteInv
  <1>2. ASSUME KeepsRows, lost' = lost PROVE TrendsComplete'
    <2>1. ASSUME NEW k \in Key \ lost PROVE AccountOf(k)'
      <3>1. InCache(k)' = InCache(k)
        BY <1>2 DEF InCache, KeepsRows, Kept
      <3>2. Row(k)' = Row(k)
        BY <1>2 DEF Row, KeepsRows, Unexecuted
      <3> QED BY <1>1, <1>2, <3>1, <3>2, CompleteIs, Uncounted DEF KeepsRows
    <2>2. \A k \in Key \ lost' : AccountOf(k)'
      BY <1>2, <2>1
    <2> QED BY <2>2 DEF TrendsComplete, AccountOf, Accounts, Parts
  <1>3. ASSUME \A k \in Key \ lost' : AccountOf(k)' PROVE TrendsComplete'
    BY <1>3 DEF TrendsComplete, AccountOf, Accounts, Parts
  <1>4. CASE UNCHANGED trendVars
    <2>1. KeepsRows
      BY <1>4 DEF trendVars, KeepsRows, Kept, Unexecuted
    <2>2. Kept' = Kept /\ Unexecuted' = Unexecuted /\ stage' = stage /\ todo' = todo /\ sql' = sql
          /\ trend' = trend /\ trends' = trends /\ lost' = lost
      BY <1>4, <2>1 DEF trendVars, KeepsRows
    <2>3. BatchInv'
      BY <1>1, <2>2 DEF BatchInv, IdleClean, ItemsApart, FlushedOnce, OwnTrend
    <2> QED BY <1>1, <1>2, <2>1, <2>2, <2>3 DEF CompleteInv
  <1>5. ASSUME NEW s \in TrendSyncers, DCmass_update_trends(s) PROVE CompleteInv'
    <2>1. trends' = trends /\ sql' = sql /\ rows' = rows /\ seen' = seen /\ lost' = lost
      BY <1>5 DEF DCmass_update_trends
    <2>2. KeepsRows
      BY <2>1 DEF KeepsRows, Kept, Unexecuted
    <2> QED BY <1>1, <1>2, <1>5, <2>1, <2>2, BatchOfBatch DEF CompleteInv
  <1>6. ASSUME NEW s \in TrendSyncers, DCget_trend(s) PROVE CompleteInv'
    <2>1. lost' = lost
      BY <1>6 DEF DCget_trend
    <2> QED BY <1>1, <1>2, <1>6, <2>1, MovesGet, BatchOfGet DEF CompleteInv
  <1>7. ASSUME NEW s \in TrendSyncers, DCadd_trend(s) PROVE CompleteInv'
    <2>0. lost' = lost
      BY <1>7 DEF DCadd_trend
    <2>1. CASE trend[s] = 0 /\ KeepsRows
      BY <1>1, <1>2, <1>7, <2>0, <2>1, BatchOfAdd DEF CompleteInv
    <2>2. CASE trend[s] # 0 /\ \E t \in Trend, v \in Value :
                                   t = trends[trend[s]] /\ v = Head(todo[s]) /\ Adds(t, v)
      <3>1. PICK t \in Trend, v \in Value : t = trends[trend[s]] /\ v = Head(todo[s]) /\ Adds(t, v)
        BY <2>2
      <3>2. t.itemid = v.itemid
        BY <1>1, <1>7, <2>2, <3>1 DEF BatchInv, OwnTrend, DCadd_trend
      <3>3. \A k \in Key \ lost' : AccountOf(k)'
        BY <1>1, <2>0, <3>1, <3>2, CompleteAdds
      <3> QED BY <1>1, <1>3, <1>7, <3>3, BatchOfAdd DEF CompleteInv
    <2> QED BY <1>1, <1>7, <2>1, <2>2, MovesAdd
  <1>8. ASSUME NEW s \in TrendSyncers, Execute(s) PROVE CompleteInv'
    <2>1. lost' = lost
      BY <1>8 DEF Execute
    <2> QED BY <1>1, <1>3, <1>8, <2>1, CompleteExecute, BatchOfExecute DEF CompleteInv
  <1>9. CASE DCsync_trends
    <2>1. lost' = lost
      BY <1>9 DEF DCsync_trends
    <2> QED BY <1>1, <1>3, <1>9, <2>1, CompleteSync, BatchOfSync DEF CompleteInv
  <1>10. CASE KillSyncers
    BY <1>1, <1>3, <1>10, CompleteKill, BatchOfKill DEF CompleteInv
  <1> QED BY <1>4, <1>5, <1>6, <1>7, <1>8, <1>9, <1>10 DEF TrendNext

(* With one db syncer the cache and the database account for every value   *)
(* that was added to a trend exactly once: in number, extremes and total,  *)
(* whatever the order of the hours and the batches, and across restarts.   *)
(* Excepted are trends with an update that a killed syncer had not         *)
(* committed.                                                              *)
THEOREM AccountedFor == ASSUME OneSyncer PROVE TrendSpec => []TrendsComplete
  <1>1. TrendInit => CompleteInv
    BY ArrayInit, BatchInit, CompleteInit DEF CompleteInv
  <1>2. CompleteInv /\ [TrendNext]_trendVars => CompleteInv'
    BY CompleteNext
  <1>3. CompleteInv => TrendsComplete
    BY DEF CompleteInv
  <1> QED BY <1>1, <1>2, <1>3, PTL DEF TrendSpec

(* With one db syncer the pointer that DCget_trend has returned still      *)
(* points to the structure of its item when DCadd_trend changes it: what   *)
(* goes wrong with two is another one's memmove.                           *)
THEOREM PointerKept == ASSUME OneSyncer PROVE TrendSpec => []OwnTrend
  <1>1. TrendInit => CompleteInv
    BY ArrayInit, BatchInit, CompleteInit DEF CompleteInv
  <1>2. CompleteInv /\ [TrendNext]_trendVars => CompleteInv'
    BY CompleteNext
  <1>3. CompleteInv => OwnTrend
    BY DEF CompleteInv, BatchInv
  <1> QED BY <1>1, <1>2, <1>3, PTL DEF TrendSpec
=============================================================================
