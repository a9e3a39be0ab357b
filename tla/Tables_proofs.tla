--------------------------- MODULE Tables_proofs ---------------------------
(***************************************************************************)
(* Proofs about the tables of the database: MaxId, for any number of       *)
(* processes, any sizes of requests and any range of ids, Templates, for   *)
(* any templates, devices and item keys and any number of operations, and  *)
(* Services, for any services, links and algorithms without a circle.      *)
(***************************************************************************)
EXTENDS MaxId, Templates, Services, FiniteSetTheorems, WellFoundedInduction, TLAPS

-----------------------------------------------------------------------------
(* MaxId.                                                                  *)

(* Every id given out or in use is at most b.                              *)
Below(b) ==
    /\ \A i \in table : i <= b
    /\ \A q \in Processes : \A i \in ids[q] : i <= b

(* A process that finds, at its second select, the counter where its own   *)
(* update put it.                                                          *)
Wins(p) == stmt[p] = "reselect" /\ ret1[p] + num[p] = nextid

(* What a process read is not ahead of the counter.                        *)
ReadBehind ==
    \A p \in Processes :
        /\ stmt[p] = "update" => nextid # Missing /\ ret1[p] <= nextid
        /\ stmt[p] = "reselect" => nextid # Missing /\ ret1[p] + num[p] <= nextid

(* Only one process can win, and it wins ids beyond all the ones in use.   *)
OneWinner == \A p, q \in Processes : Wins(p) /\ Wins(q) => p = q
WinnerAhead == \A p \in Processes : Wins(p) => Below(ret1[p])

CounterAhead == nextid # Missing => Below(nextid)

(* Before the counter exists nothing was given out, and whoever is about   *)
(* to create it starts it from an id that is not below one in use.         *)
NotStarted ==
    nextid = Missing =>
        /\ table = Existing
        /\ \A p \in Processes : ids[p] = {}
        /\ \A p \in Processes : stmt[p] = "insert" => \A i \in Existing : i <= ret1[p]

Inv ==
    /\ IdsTypeOK
    /\ ~deleted => ReadBehind /\ OneWinner /\ WinnerAhead /\ CounterAhead /\ NotStarted
    /\ UniqueIds

-----------------------------------------------------------------------------
(* The initial states satisfy the invariant.                               *)
LEMMA InitInv == MaxIdInit => Inv
  <1> SUFFICES ASSUME MaxIdInit PROVE Inv
    OBVIOUS
  <1> USE MaxIdAssumption DEF MaxIdAssumption, MaxIdInit, Missing
  <1>1. IdsTypeOK
    <2>1. nextid \in Nat \cup {Missing}
      OBVIOUS
    <2>2. table \subseteq Nat
      OBVIOUS
    <2>3. ids \in [Processes -> SUBSET Nat] /\ ret1 \in [Processes -> Nat] /\ deleted \in BOOLEAN
      OBVIOUS
    <2> QED BY <2>1, <2>2, <2>3 DEF IdsTypeOK
  <1>2. ReadBehind /\ OneWinner /\ WinnerAhead
    BY DEF ReadBehind, OneWinner, WinnerAhead, Wins
  <1>3. CounterAhead
    BY DEF CounterAhead, Below
  <1>4. NotStarted
    BY DEF NotStarted
  <1>5. UniqueIds
    BY DEF UniqueIds
  <1> QED BY <1>1, <1>2, <1>3, <1>4, <1>5 DEF Inv

(* Every step preserves the types of the variables.                        *)
LEMMA StepTypeOK == ASSUME IdsTypeOK, NEW p \in Processes, Step(p) PROVE IdsTypeOK'
  <1> USE MaxIdAssumption DEF MaxIdAssumption, IdsTypeOK, Missing, Goto
  <1>1. CASE Request(p) BY <1>1 DEF Request
  <1>2. CASE Select(p) BY <1>2 DEF Select
  <1>3. CASE SelectMax(p) BY <1>3 DEF SelectMax, InUse
  <1>4. CASE Insert(p) BY <1>4 DEF Insert
  <1>5. CASE Bump(p) BY <1>5 DEF Bump
  <1>6. CASE Delete(p) BY <1>6 DEF Delete
  <1>7. CASE Update(p)
    <2>1. num[p] \in Nat
      OBVIOUS
    <2>2. nextid' \in Nat \cup {Missing}
      BY <1>7, <2>1 DEF Update
    <2> QED BY <1>7, <2>2 DEF Update
  <1>8. CASE Reselect(p)
    <2>1. num[p] \in Nat \ {0} /\ ret1[p] \in Nat
      OBVIOUS
    <2>2. nextid # Missing /\ ret1[p] + num[p] = nextid => (nextid - num[p] + 1) .. nextid \subseteq Nat
      BY <2>1
    <2>3. ids' \in [Processes -> SUBSET Nat]
      BY <1>8, <2>2 DEF Reselect
    <2> QED BY <1>8, <2>3 DEF Reselect
  <1>9. CASE InsertRows(p) BY <1>9 DEF InsertRows
  <1> QED BY <1>1, <1>2, <1>3, <1>4, <1>5, <1>6, <1>7, <1>8, <1>9 DEF Step

(* Every step preserves the part of the invariant about the counter.       *)
LEMMA StepInv == ASSUME Inv, NEW p \in Processes, Step(p) PROVE Inv'
  <1> DEFINE Safe == ReadBehind /\ OneWinner /\ WinnerAhead /\ CounterAhead /\ NotStarted
  <1>1. IdsTypeOK'
    BY StepTypeOK DEF Inv
  <1>2. SUFFICES ASSUME ~deleted' PROVE Safe' /\ UniqueIds'
    BY <1>1 DEF Inv, UniqueIds
  <1>3. ~deleted
    BY <1>2 DEF Step, Request, Select, SelectMax, Insert, Bump, Delete, Update, Reselect, InsertRows
  <1>4. IdsTypeOK /\ Safe /\ UniqueIds
    BY <1>3 DEF Inv
  <1>5. /\ \A q \in Processes : num[q] \in Nat \ {0} /\ ret1[q] \in Nat /\ ids[q] \subseteq Nat
        /\ nextid = Missing \/ nextid \in Nat
        /\ table \subseteq Nat
        /\ Existing \subseteq MIN .. MAX /\ MIN \in Nat /\ MAX \in Nat
    BY <1>4, MaxIdAssumption DEF IdsTypeOK, MaxIdAssumption
  <1> DEFINE Others == \A q \in Processes : q # p => stmt'[q] = stmt[q] /\ ret1'[q] = ret1[q] /\ num'[q] = num[q]
  <1>a. CASE Request(p)
    <2>1. Others /\ stmt'[p] = "select" /\ UNCHANGED <<nextid, table, ret1, ids>>
      BY <1>a, <1>4 DEF Request, Goto, IdsTypeOK
    <2> QED BY <2>1, <1>3, <1>4, <1>5 DEF ReadBehind, OneWinner, WinnerAhead, CounterAhead,
              NotStarted, UniqueIds, Wins, Below
  <1>b. CASE Select(p)
    <2>1. /\ Others /\ stmt'[p] \in {"select_max", "update", "delete"}
          /\ stmt'[p] = "update" => nextid # Missing /\ ret1'[p] = nextid
          /\ UNCHANGED <<nextid, table, num, ids>>
      BY <1>b, <1>4 DEF Select, Goto, IdsTypeOK
    <2> QED BY <2>1, <1>3, <1>4, <1>5 DEF ReadBehind, OneWinner, WinnerAhead, CounterAhead,
              NotStarted, UniqueIds, Wins, Below
  <1>c. CASE SelectMax(p)
    <2>1. /\ Others /\ stmt'[p] \in {"insert", "exit"}
          /\ UNCHANGED <<nextid, table, num, ids>>
      BY <1>c, <1>4 DEF SelectMax, Goto, IdsTypeOK
    <2>2. nextid = Missing => \A i \in Existing : i <= ret1'[p]
      <3>1. SUFFICES ASSUME nextid = Missing, NEW i \in Existing PROVE i <= ret1'[p]
        OBVIOUS
      <3>2. i \in InUse
        BY <3>1, <1>4, <1>5 DEF NotStarted, InUse
      <3> QED BY <3>2, <1>c, <1>4, <1>5 DEF SelectMax, IdsTypeOK
    <2> QED BY <2>1, <2>2, <1>3, <1>4, <1>5 DEF ReadBehind, OneWinner, WinnerAhead, CounterAhead,
              NotStarted, UniqueIds, Wins, Below
  <1>d. CASE Insert(p)
    <2>1. /\ Others /\ stmt[p] = "insert" /\ stmt'[p] \in {"select", "bump"}
          /\ nextid' = IF nextid = Missing THEN ret1[p] ELSE nextid
          /\ UNCHANGED <<table, num, ret1, ids>>
      BY <1>d, <1>4 DEF Insert, Goto, IdsTypeOK
    <2>2. ReadBehind' /\ OneWinner' /\ WinnerAhead'
      BY <2>1, <1>4, <1>5 DEF ReadBehind, OneWinner, WinnerAhead, Wins, Below
    <2>3. CounterAhead' /\ NotStarted' /\ UniqueIds'
      BY <2>1, <1>3, <1>4, <1>5 DEF CounterAhead, NotStarted, UniqueIds, Below, Missing
    <2> QED BY <2>2, <2>3
  <1>e. CASE Bump(p)
    <2>1. /\ Others /\ stmt'[p] = "select"
          /\ nextid' = IF nextid = Missing THEN Missing ELSE nextid + 1
          /\ UNCHANGED <<table, num, ret1, ids>>
      BY <1>e, <1>4 DEF Bump, Goto, IdsTypeOK
    <2>2. ReadBehind' /\ \A q \in Processes : ~Wins(q)'
      BY <2>1, <1>4, <1>5 DEF ReadBehind, Wins, Missing
    <2>3. CounterAhead' /\ NotStarted' /\ UniqueIds'
      BY <2>1, <1>3, <1>4, <1>5 DEF CounterAhead, NotStarted, UniqueIds, Below, Missing
    <2> QED BY <2>2, <2>3 DEF OneWinner, WinnerAhead
  <1>g. CASE Update(p)
    <2>1. /\ Others /\ stmt[p] = "update" /\ stmt'[p] = "reselect"
          /\ nextid # Missing /\ ret1[p] <= nextid
          /\ nextid' = nextid + num[p]
          /\ UNCHANGED <<table, num, ret1, ids>>
      BY <1>g, <1>4 DEF Update, Goto, IdsTypeOK, ReadBehind
    <2>2. nextid' # Missing /\ nextid' > nextid
      BY <2>1, <1>5 DEF Missing
    <2>3. ReadBehind'
      BY <2>1, <2>2, <1>4, <1>5 DEF ReadBehind
    (* Whoever waits for its second select has been overtaken.             *)
    <2>4. \A q \in Processes : q # p => ~Wins(q)'
      BY <2>1, <2>2, <1>4, <1>5 DEF ReadBehind, Wins
    (* The process itself wins if it read the counter's last value.        *)
    <2>5. Wins(p)' => ret1[p] = nextid
      BY <2>1, <1>5 DEF Wins
    <2>6. OneWinner' /\ WinnerAhead'
      BY <2>1, <2>4, <2>5, <1>4 DEF OneWinner, WinnerAhead, CounterAhead, Below
    <2>7. CounterAhead'
      <3>1. \A i \in Nat : i <= nextid => i <= nextid'
        BY <2>1, <2>2, <1>5
      <3>2. Below(nextid)
        BY <2>1, <1>4 DEF CounterAhead
      <3> QED BY <3>1, <3>2, <2>1, <1>5 DEF CounterAhead, Below
    <2>8. NotStarted' /\ UniqueIds'
      BY <2>1, <2>2, <1>3, <1>4 DEF NotStarted, UniqueIds
    <2> QED BY <2>3, <2>6, <2>7, <2>8
  <1>h. CASE Reselect(p)
    <2>1. /\ Others /\ stmt[p] = "reselect" /\ stmt'[p] \in {"select", "insert_rows"}
          /\ UNCHANGED <<nextid, table, num, ret1>>
          /\ nextid # Missing
      BY <1>h, <1>4 DEF Reselect, Goto, IdsTypeOK, ReadBehind
    <2>2. CASE ~Wins(p)
      <3>1. ids' = ids
        BY <2>1, <2>2, <1>h DEF Reselect, Wins
      <3> QED BY <2>1, <3>1, <1>3, <1>4, <1>5 DEF ReadBehind, OneWinner, WinnerAhead, CounterAhead,
                NotStarted, UniqueIds, Wins, Below
    <2>3. CASE Wins(p)
      <3>1. /\ ids'[p] = (nextid - num[p] + 1) .. nextid
            /\ \A q \in Processes : q # p => ids'[q] = ids[q]
        BY <2>1, <2>3, <1>h, <1>4 DEF Reselect, Wins, IdsTypeOK
      <3>2. Below(ret1[p]) /\ ret1[p] + num[p] = nextid
        BY <2>3, <1>4 DEF WinnerAhead, Wins
      <3>3. \A i \in ids'[p] : i > ret1[p] /\ i <= nextid
        BY <3>1, <3>2, <1>5
      <3>4. \A q \in Processes : ~Wins(q)'
        BY <2>1, <2>3, <1>4 DEF OneWinner, Wins
      <3>5. CounterAhead' /\ NotStarted'
        BY <2>1, <3>1, <3>3, <1>4 DEF CounterAhead, NotStarted, Below
      <3>6. UniqueIds'
        <4>1. \A i \in ids'[p] : ~(i <= ret1[p])
          BY <3>1, <3>2, <1>5
        <4> QED BY <4>1, <2>1, <3>1, <3>2, <1>3, <1>4 DEF UniqueIds, Below
      <3>7. ReadBehind'
        BY <2>1, <1>4 DEF ReadBehind
      <3> QED BY <3>4, <3>5, <3>6, <3>7 DEF OneWinner, WinnerAhead
    <2> QED BY <2>2, <2>3
  <1>i. CASE InsertRows(p)
    <2>1. /\ Others /\ stmt'[p] = "idle"
          /\ table' = table \cup ids[p]
          /\ ids'[p] = {} /\ \A q \in Processes : q # p => ids'[q] = ids[q]
          /\ UNCHANGED <<nextid, num, ret1>>
      BY <1>i, <1>4 DEF InsertRows, Goto, IdsTypeOK
    <2>2. ReadBehind' /\ OneWinner'
      BY <2>1, <1>4 DEF ReadBehind, OneWinner, Wins
    <2>3. WinnerAhead' /\ CounterAhead'
      BY <2>1, <1>4 DEF WinnerAhead, CounterAhead, Wins, Below
    <2>4. NotStarted' /\ UniqueIds'
      BY <2>1, <1>3, <1>4 DEF NotStarted, UniqueIds
    <2> QED BY <2>2, <2>3, <2>4
  <1>j. CASE Delete(p)
    BY <1>j, <1>2 DEF Delete
  <1> QED BY <1>a, <1>b, <1>c, <1>d, <1>e, <1>g, <1>h, <1>i, <1>j DEF Step

(* Every reachable state satisfies the invariant.                          *)
THEOREM Invariance == MaxIdSpec => []Inv
  <1>1. Inv /\ [MaxIdNext]_idVars => Inv'
    <2>1. SUFFICES ASSUME Inv, [MaxIdNext]_idVars PROVE Inv'
      OBVIOUS
    <2>2. CASE MaxIdNext
      BY <2>1, <2>2, StepInv DEF MaxIdNext
    <2>3. CASE UNCHANGED idVars
      BY <2>1, <2>3 DEF Inv, idVars, IdsTypeOK, ReadBehind, OneWinner, WinnerAhead, CounterAhead,
           NotStarted, UniqueIds, Wins, Below
    <2> QED BY <2>1, <2>2, <2>3
  <1> QED BY InitInv, <1>1, PTL DEF MaxIdSpec

(* The variables keep their types.                                         *)
THEOREM TypeCorrect == MaxIdSpec => []IdsTypeOK
  <1>1. Inv => IdsTypeOK
    BY DEF Inv
  <1> QED BY Invariance, <1>1, PTL

(* DBget_maxid_num never gives one id to two processes, nor an id that is  *)
(* in use, while the counter is in the node's range.                       *)
THEOREM Uniqueness == MaxIdSpec => []UniqueIds
  <1>1. Inv => UniqueIds
    BY DEF Inv
  <1> QED BY Invariance, <1>1, PTL

-----------------------------------------------------------------------------
(* Templates: what holds of the tables.                                    *)

(* A table of elements: finitely many rows, by id.                         *)
Tables(Row) == UNION {[keys -> Row] : keys \in {D \in SUBSET ElementIds : IsFiniteSet(D)}}

Elements == [apps : Tables(AppRow), items : Tables(ItemRow), triggers : Tables(TriggerRow)]

(* Operations on a host leave the items and triggers of templates alone.   *)
TemplatesKept(db) ==
    /\ \A i \in DOMAIN TemplateItems :
          /\ i \in DOMAIN db.items
          /\ db.items[i].hostid = TemplateItems[i].hostid /\ db.items[i].key = TemplateItems[i].key
    /\ \A i \in DOMAIN db.items : db.items[i].hostid \in Templates => i \in DOMAIN TemplateItems
    /\ \A t \in DOMAIN TemplateTriggers :
          t \in DOMAIN db.triggers /\ db.triggers[t].functions = TemplateTriggers[t].functions
    /\ \A t \in DOMAIN db.triggers : \A f \in db.triggers[t].functions :
          db.items[f.itemid].hostid \in Templates => t \in DOMAIN TemplateTriggers

UniqueKeys(db) ==
    \A i, j \in DOMAIN db.items :
        db.items[i].hostid = db.items[j].hostid /\ db.items[i].key = db.items[j].key => i = j

ItemsOfHosts(db, H) == \A i \in DOMAIN db.items : db.items[i].hostid \in Templates \cup H

(* All functions of a trigger, of which there are some, are of one host.   *)
OneHost(db) ==
    \A t \in DOMAIN db.triggers :
        /\ db.triggers[t].functions # {}
        /\ \A f \in db.triggers[t].functions : f.itemid \in DOMAIN db.items
        /\ \A f, g \in db.triggers[t].functions : db.items[f.itemid].hostid = db.items[g.itemid].hostid

Whole(db, H) ==
    db \in Elements /\ TemplatesKept(db) /\ UniqueKeys(db) /\ ItemsOfHosts(db, H) /\ OneHost(db)

HasKeys(db, h, t) == \A i \in Of(db.items, t) : SameKey(db, db.items[i].key, h) # {}

HasCopy(db, h, t) ==
    \E s \in TriggersOf(db, h) :
        db.triggers[s].templateid = t /\ Expression(db, s) = Expression(db, t)

Linked(db, h, t) == HasKeys(db, h, t) /\ \A u \in TriggersOf(db, t) : HasCopy(db, h, u)

TemplatesInv ==
    /\ DOMAIN hosts \subseteq HostIds
    /\ links \subseteq (DOMAIN hosts) \X Templates
    /\ Whole(elements, DOMAIN hosts)
    /\ \A l \in links : Linked(elements, l[1], l[2])

-----------------------------------------------------------------------------
(* Folds.                                                                  *)

(* A set of ids has a smallest one.                                        *)
LEMMA LeastId ==
  ASSUME NEW S \in SUBSET Nat, S # {}
  PROVE  \E m \in S : \A i \in S : m <= i
  <1>1. PICK m \in S : \A i \in S : <<i, m>> \notin OpToRel(<, Nat)
    BY NatLessThanWellFounded, WFMin
  <1>2. \A i \in S : ~(i < m)
    BY <1>1 DEF OpToRel
  <1>3. \A i \in S : m <= i
    BY <1>2
  <1> QED BY <1>3

(* What the empty set has and a set has that a smaller one has, S has.     *)
LEMMA FoldInduction ==
  ASSUME NEW S, IsFiniteSet(S), NEW g, NEW Rel,
         <<{}, g[{}]>> \in Rel,
         \A s \in SUBSET S : s # {} =>
            \E x \in s : <<s \ {x}, g[s \ {x}]>> \in Rel => <<s, g[s]>> \in Rel
  PROVE  <<S, g[S]>> \in Rel
  <1> DEFINE Bad == {s \in SUBSET S : <<s, g[s]>> \notin Rel}
             Sizes == {Cardinality(s) : s \in Bad}
  <1> SUFFICES ASSUME Bad # {} PROVE FALSE
    OBVIOUS
  <1>1. \A s \in SUBSET S : IsFiniteSet(s) /\ Cardinality(s) \in Nat
    BY FS_Subset, FS_CardinalityType
  <1>2. Sizes \in SUBSET Nat /\ Sizes # {}
    <2>1. \A s \in Bad : Cardinality(s) \in Nat
      BY <1>1
    <2> HIDE DEF Bad
    <2> QED BY <2>1
  <1>3. PICK n \in Sizes : \A m \in Sizes : n <= m
    <2> HIDE DEF Sizes
    <2> QED BY <1>2, LeastId
  <1>4. PICK s \in Bad : n = Cardinality(s)
    OBVIOUS
  <1>5. s # {}
    OBVIOUS
  <1>6. PICK x \in s : <<s \ {x}, g[s \ {x}]>> \in Rel => <<s, g[s]>> \in Rel
    BY <1>5
  <1>7. s \ {x} \in Bad
    BY <1>6
  <1>8. Cardinality(s \ {x}) = Cardinality(s) - 1
    BY <1>1, FS_RemoveElement
  <1>9. Cardinality(s \ {x}) \in Sizes
    BY <1>7
  <1>10. n \in Nat /\ n <= n - 1
    <2> HIDE DEF Sizes
    <2> QED BY <1>2, <1>3, <1>4, <1>8, <1>9
  <1> QED BY <1>10

IsFolded(g, S, D, base, step, first) ==
    /\ g \in [SUBSET S -> D] /\ g[{}] = base
    /\ \A s \in SUBSET S : s # {} => g[s] = step[<<first[s], g[s \ {first[s]}]>>]

(* A function that folds a step over the subsets of a finite set exists.   *)
LEMMA FoldExists ==
  ASSUME NEW S, IsFiniteSet(S), NEW D, NEW base \in D, NEW step \in [S \X D -> D],
         NEW first, \A s \in SUBSET S : s # {} => first[s] \in s
  PROVE  \E g : IsFolded(g, S, D, base, step, first)
  <1> DEFINE Upto(n) == {s \in SUBSET S : Cardinality(s) <= n}
             Body(g, s) == IF s = {} THEN base ELSE step[<<first[s], g[s \ {first[s]}]>>]
             Folds(g, n) == g \in [Upto(n) -> D] /\ \A s \in Upto(n) : g[s] = Body(g, s)
             Bad == {n \in Nat : ~ \E g : Folds(g, n)}
  <1>1. \A s \in SUBSET S : IsFiniteSet(s) /\ Cardinality(s) \in Nat
    BY FS_Subset, FS_CardinalityType
  <1>2. \A s \in SUBSET S : s # {} =>
           /\ first[s] \in S /\ s \ {first[s]} \in SUBSET S
           /\ Cardinality(s \ {first[s]}) = Cardinality(s) - 1
    BY <1>1, FS_RemoveElement
  <1>3. \E g : Folds(g, 0)
    <2>1. \A s \in Upto(0) : s = {}
      BY <1>1, FS_EmptySet
    <2>2. Folds([s \in Upto(0) |-> base], 0)
      BY <2>1
    <2> QED BY <2>2
  <1>4. ASSUME NEW n \in Nat, n > 0, NEW f, Folds(f, n - 1)
        PROVE  \E g : Folds(g, n)
    <2> DEFINE g == [s \in Upto(n) |-> Body(f, s)]
    <2>1. \A s \in Upto(n) : s # {} => s \ {first[s]} \in Upto(n - 1)
      BY <1>1, <1>2
    <2>2. Upto(n - 1) \subseteq Upto(n)
      BY <1>1
    <2>3. g \in [Upto(n) -> D]
      BY <1>2, <1>4, <2>1
    <2>4. \A s \in Upto(n - 1) : g[s] = f[s]
      BY <1>4, <2>2
    <2>5. \A s \in Upto(n) : g[s] = Body(g, s)
      <3> SUFFICES ASSUME NEW s \in Upto(n), s # {} PROVE Body(f, s) = Body(g, s)
        OBVIOUS
      <3>1. g[s \ {first[s]}] = f[s \ {first[s]}]
        <4> HIDE DEF g, Upto
        <4> QED BY <2>1, <2>4
      <3> HIDE DEF g
      <3> QED BY <3>1
    <2> HIDE DEF g, Folds
    <2>6. Folds(g, n)
      BY <2>3, <2>5 DEF Folds
    <2> QED BY <2>6
  <1>5. Bad = {}
    <2> SUFFICES ASSUME Bad # {} PROVE FALSE
      OBVIOUS
    <2>1. PICK n \in Bad : \A m \in Bad : n <= m
      <3>1. Bad \in SUBSET Nat
        OBVIOUS
      <3> HIDE DEF Bad
      <3> QED BY <3>1, LeastId
    <2> HIDE DEF Folds
    <2>2. n # 0
      BY <1>3
    <2>3. n - 1 \in Nat /\ n > 0 /\ n - 1 \notin Bad
      BY <2>1, <2>2
    <2>4. \E g : Folds(g, n - 1)
      BY <2>3
    <2> QED BY <1>4, <2>1, <2>3, <2>4
  <1>6. Cardinality(S) \in Nat /\ Upto(Cardinality(S)) = SUBSET S
    BY FS_Subset, FS_CardinalityType
  <1>7. PICK g : Folds(g, Cardinality(S))
    BY <1>5, <1>6
  <1> DEFINE n == Cardinality(S)
  <1> HIDE DEF n, Upto, Body
  <1>8. Upto(n) = SUBSET S
    BY <1>6 DEF n
  <1>9. g \in [SUBSET S -> D] /\ \A s \in SUBSET S : g[s] = Body(g, s)
    BY <1>7, <1>8 DEF n
  <1> QED BY <1>9 DEF Body, IsFolded

-----------------------------------------------------------------------------
(* Ids and tables.                                                         *)

(* A finite set of ids has a bound,                                        *)
LEMMA FiniteBounded ==
  ASSUME NEW S \in SUBSET Nat, IsFiniteSet(S)
  PROVE  \E b \in Nat : \A i \in S : i <= b
  <1> DEFINE Bounded(s) == \E b \in Nat : \A i \in s : i <= b
             g == [s \in SUBSET S |-> 0]
             Rel == {<<s, 0>> : s \in {s \in SUBSET S : Bounded(s)}}
  <1>1. \A s \in SUBSET S : <<s, g[s]>> \in Rel <=> Bounded(s)
    BY Zenon
  <1>2. Bounded({})
    BY Zenon, 0 \in Nat
  <1>3. ASSUME NEW s \in SUBSET S, s # {}
        PROVE  \E x \in s : Bounded(s \ {x}) => Bounded(s)
    <2>1. PICK x \in s : TRUE
      BY <1>3
    <2>2. SUFFICES ASSUME NEW b \in Nat, \A i \in s \ {x} : i <= b PROVE Bounded(s)
      BY <2>1
    <2>3. CASE x <= b
      BY <2>2, <2>3
    <2>4. CASE ~(x <= b)
      <3>1. x \in Nat /\ \A i \in s : i <= x
        BY <2>2, <2>4
      <3> QED BY <3>1
    <2> QED BY <2>3, <2>4
  <1> HIDE DEF Bounded, Rel, g
  <1>4. <<S, g[S]>> \in Rel
    <2>1. <<{}, g[{}]>> \in Rel
      BY <1>1, <1>2
    <2>2. \A s \in SUBSET S : s # {} =>
             \E x \in s : <<s \ {x}, g[s \ {x}]>> \in Rel => <<s, g[s]>> \in Rel
      BY <1>1, <1>3
    <2> QED BY <2>1, <2>2, FoldInduction
  <1>5. Bounded(S)
    <2>1. S \in SUBSET S
      OBVIOUS
    <2>2. <<S, g[S]>> \in Rel => Bounded(S)
      BY <1>1, <2>1
    <2> QED BY <1>4, <2>2
  <1> QED BY <1>5 DEF Bounded

(* and a largest one, which Max gives.                                     *)
LEMMA GreatestId ==
  ASSUME NEW S \in SUBSET Nat, S # {}, IsFiniteSet(S)
  PROVE  Max(S) \in S /\ \A i \in S : i <= Max(S)
  <1>1. PICK b \in Nat : \A i \in S : i <= b
    BY FiniteBounded
  <1> DEFINE Gaps == {b - i : i \in S}
  <1>2. Gaps \in SUBSET Nat /\ Gaps # {}
    <2>1. \A i \in S : b - i \in Nat
      BY <1>1
    <2> QED BY <2>1
  <1>3. PICK m \in Gaps : \A i \in Gaps : m <= i
    <2> HIDE DEF Gaps
    <2> QED BY <1>2, LeastId
  <1>4. PICK q \in S : m = b - q
    OBVIOUS
  <1>5. \A i \in S : i <= q
    BY <1>3, <1>4
  <1>6. \E x \in S : \A y \in S : x >= y
    BY <1>5
  <1>7. Max(S) \in S /\ \A y \in S : Max(S) >= y
    BY <1>6 DEF Max
  <1> QED BY <1>7

(* Ids of hosts and templates are below those of elements.                 *)
LEMMA HostsBelow ==
  /\ LastHostId \in Nat
  /\ Templates \cup HostIds \subseteq 1 .. LastHostId
  /\ Templates \cap HostIds = {}
  /\ \A id \in ElementIds : id \in Nat /\ id > LastHostId /\ id # 0
  /\ ElementIds \cap (Templates \cup HostIds) = {}
  <1>1. /\ Max(Templates) \in Nat \ {0} /\ MaxHosts \in Nat
        /\ \A t \in Templates : t \in Nat \ {0} /\ t <= Max(Templates)
    BY TemplatesAssumption, GreatestId DEF TemplatesAssumption
  <1> QED BY <1>1 DEF LastHostId, HostIds, ElementIds

(* A drawn id is that of no row.                                           *)
LEMMA FreshIsNew ==
  ASSUME NEW used \in SUBSET ElementIds, IsFiniteSet(used)
  PROVE  Fresh(used) \in ElementIds \ used
  <1> DEFINE all == used \cup {LastHostId}
  <1>1. all \in SUBSET Nat /\ all # {} /\ IsFiniteSet(all)
    BY HostsBelow, FS_AddElement
  <1>2. Max(all) \in Nat /\ \A i \in all : i <= Max(all)
    <2> HIDE DEF all
    <2> QED BY <1>1, GreatestId
  <1>3. Max(all) + 1 \in LastHostId + 1 .. Max(all) + 1 /\ Max(all) + 1 \notin used
    BY <1>2, HostsBelow
  <1>4. Fresh(used) \in LastHostId + 1 .. Max(all) + 1 /\ Fresh(used) \notin used
    BY <1>3 DEF Fresh
  <1> QED BY <1>2, <1>4, HostsBelow DEF ElementIds

(* The rows of a table, as facts that the provers use.                     *)
LEMMA TablesAre ==
  ASSUME NEW R, NEW rows
  PROVE  rows \in Tables(R) <=>
            /\ rows = [id \in DOMAIN rows |-> rows[id]]
            /\ \A id \in DOMAIN rows : rows[id] \in R
            /\ DOMAIN rows \subseteq ElementIds /\ IsFiniteSet(DOMAIN rows)
  <1>1. ASSUME rows \in Tables(R)
        PROVE  /\ rows = [id \in DOMAIN rows |-> rows[id]]
               /\ \A id \in DOMAIN rows : rows[id] \in R
               /\ DOMAIN rows \subseteq ElementIds /\ IsFiniteSet(DOMAIN rows)
    <2>1. PICK keys \in SUBSET ElementIds : IsFiniteSet(keys) /\ rows \in [keys -> R]
      BY <1>1 DEF Tables
    <2> QED BY <2>1
  <1>2. ASSUME /\ rows = [id \in DOMAIN rows |-> rows[id]]
               /\ \A id \in DOMAIN rows : rows[id] \in R
               /\ DOMAIN rows \subseteq ElementIds /\ IsFiniteSet(DOMAIN rows)
        PROVE  rows \in Tables(R)
    <2>1. rows \in [DOMAIN rows -> R]
      BY <1>2
    <2> QED BY <1>2, <2>1 DEF Tables
  <1> QED BY <1>1, <1>2

(* A table with one row more.                                              *)
OneMore(new, rows, R, row) ==
    \E id \in ElementIds \ DOMAIN rows :
        /\ new \in Tables(R)
        /\ DOMAIN new = DOMAIN rows \cup {id}
        /\ new[id] = row
        /\ \A i \in DOMAIN rows : new[i] = rows[i]

(* The new row has an id of its own.                                       *)
LEMMA RowInserted ==
  ASSUME NEW R, NEW rows \in Tables(R), NEW row \in R, NEW new, new = InsertRow(rows, row)
  PROVE  OneMore(new, rows, R, row)
  <1> DEFINE id == Fresh(DOMAIN rows)
  <1>1. /\ \A i \in DOMAIN rows : rows[i] \in R
        /\ DOMAIN rows \subseteq ElementIds /\ IsFiniteSet(DOMAIN rows)
    BY TablesAre
  <1>2. id \in ElementIds \ DOMAIN rows
    BY <1>1, FreshIsNew
  <1>3. IsFiniteSet(DOMAIN rows \cup {id})
    BY <1>1, FS_AddElement
  <1> HIDE DEF id
  <1>4. new = [i \in DOMAIN rows \cup {id} |-> IF i \in DOMAIN rows THEN rows[i] ELSE row]
    BY DEF InsertRow, id
  <1>5. /\ DOMAIN new = DOMAIN rows \cup {id} /\ new[id] = row
        /\ \A i \in DOMAIN rows : new[i] = rows[i]
    BY <1>2, <1>4
  <1>6. new = [i \in DOMAIN new |-> new[i]] /\ \A i \in DOMAIN new : new[i] \in R
    BY <1>1, <1>4, <1>5
  <1>7. new \in Tables(R)
    BY <1>1, <1>2, <1>3, <1>5, <1>6, TablesAre
  <1> QED BY <1>2, <1>5, <1>7 DEF OneMore

(* A table without some of its rows.                                       *)
LEMMA RowsLeft ==
  ASSUME NEW R, NEW rows \in Tables(R), NEW keys
  PROVE  Without(rows, keys) \in Tables(R) /\ DOMAIN Without(rows, keys) = DOMAIN rows \ keys
  <1> DEFINE new == Without(rows, keys)
  <1>1. /\ \A i \in DOMAIN rows : rows[i] \in R
        /\ DOMAIN rows \subseteq ElementIds /\ IsFiniteSet(DOMAIN rows)
    BY TablesAre
  <1>2. new = [i \in DOMAIN rows \ keys |-> rows[i]]
    BY DEF Without, Restrict
  <1>3. IsFiniteSet(DOMAIN rows \ keys)
    BY <1>1, FS_Subset
  <1> HIDE DEF new
  <1>4. DOMAIN new = DOMAIN rows \ keys /\ \A i \in DOMAIN rows \ keys : new[i] = rows[i]
    BY <1>2
  <1>5. new = [i \in DOMAIN new |-> new[i]] /\ \A i \in DOMAIN new : new[i] \in R
    BY <1>1, <1>2, <1>4
  <1>6. new \in Tables(R)
    BY <1>1, <1>3, <1>4, <1>5, TablesAre
  <1> QED BY <1>4, <1>6 DEF new

-----------------------------------------------------------------------------
(* Which steps keep what.                                                  *)

(* An item stays the item of its host with its key.                        *)
SameItem(db, e, i) ==
    /\ i \in DOMAIN e.items
    /\ e.items[i].hostid = db.items[i].hostid /\ e.items[i].key = db.items[i].key

(* A trigger stays with its functions, and as the copy that it is.         *)
SameTrigger(db, e, s) ==
    /\ s \in DOMAIN e.triggers
    /\ e.triggers[s].functions = db.triggers[s].functions
    /\ db.triggers[s].templateid # 0 => e.triggers[s].templateid = db.triggers[s].templateid
    /\ \A f \in db.triggers[s].functions : f.itemid \in DOMAIN db.items /\ SameItem(db, e, f.itemid)

(* Nothing is deleted.                                                     *)
Grows(db, e) ==
    /\ \A i \in DOMAIN db.items : SameItem(db, e, i)
    /\ \A s \in DOMAIN db.triggers : SameTrigger(db, e, s)

(* Nothing is added, and the templates stay.                               *)
Shrinks(db, e) ==
    /\ \A i \in DOMAIN e.items : i \in DOMAIN db.items /\ SameItem(db, e, i)
    /\ \A s \in DOMAIN e.triggers : s \in DOMAIN db.triggers /\ SameTrigger(db, e, s)
    /\ DOMAIN TemplateItems \subseteq DOMAIN e.items
    /\ DOMAIN TemplateTriggers \subseteq DOMAIN e.triggers

(* The three tables.                                                       *)
LEMMA ElementsAre ==
  ASSUME NEW db \in Elements
  PROVE  /\ db = [apps |-> db.apps, items |-> db.items, triggers |-> db.triggers]
         /\ db.apps \in Tables(AppRow) /\ db.items \in Tables(ItemRow)
         /\ db.triggers \in Tables(TriggerRow)
         /\ \A a \in DOMAIN db.apps : db.apps[a] \in AppRow
         /\ \A i \in DOMAIN db.items : db.items[i] \in ItemRow
         /\ \A t \in DOMAIN db.triggers : db.triggers[t] \in TriggerRow
         /\ DOMAIN db.apps \subseteq ElementIds /\ DOMAIN db.items \subseteq ElementIds
         /\ DOMAIN db.triggers \subseteq ElementIds
  <1>1. /\ db = [apps |-> db.apps, items |-> db.items, triggers |-> db.triggers]
        /\ db.apps \in Tables(AppRow) /\ db.items \in Tables(ItemRow)
        /\ db.triggers \in Tables(TriggerRow)
    BY DEF Elements
  <1> QED BY <1>1, TablesAre

(* Of a template there are the same items and triggers at any time.        *)
LEMMA OfTemplate ==
  ASSUME NEW db, NEW H, Whole(db, H), NEW t \in Templates
  PROVE  /\ Of(db.items, t) = Of(TemplateItems, t)
         /\ TriggersOf(db, t) = TriggersOf([items |-> TemplateItems, triggers |-> TemplateTriggers], t)
  <1> USE DEF Whole
  <1>1. Of(db.items, t) = Of(TemplateItems, t)
    BY TemplatesAssumption DEF Of, TemplatesKept, TemplatesAssumption
  <1>2. ASSUME NEW s, s \in TriggersOf(db, t) PROVE s \in DOMAIN TemplateTriggers
    BY <1>2 DEF TriggersOf, TriggersWith, Of, TemplatesKept
  <1>3. \A s \in DOMAIN TemplateTriggers :
           s \in DOMAIN db.triggers /\ db.triggers[s].functions = TemplateTriggers[s].functions
    BY DEF TemplatesKept
  <1> QED BY <1>1, <1>2, <1>3 DEF TriggersOf, TriggersWith

(* Deleting keeps the tables whole.                                        *)
LEMMA WholeShrinks ==
  ASSUME NEW db, NEW e \in Elements, NEW H, Whole(db, H), Shrinks(db, e)
  PROVE  Whole(e, H)
  <1> USE DEF Whole
  <1>1. TemplatesKept(e)
    <2>1. \A i \in DOMAIN TemplateItems :
             /\ i \in DOMAIN e.items
             /\ e.items[i].hostid = TemplateItems[i].hostid /\ e.items[i].key = TemplateItems[i].key
      BY DEF Shrinks, SameItem, TemplatesKept
    <2>2. \A i \in DOMAIN e.items : e.items[i].hostid \in Templates => i \in DOMAIN TemplateItems
      BY DEF Shrinks, SameItem, TemplatesKept
    <2>3. \A t \in DOMAIN TemplateTriggers :
             t \in DOMAIN e.triggers /\ e.triggers[t].functions = TemplateTriggers[t].functions
      BY DEF Shrinks, SameTrigger, TemplatesKept
    <2>4. \A t \in DOMAIN e.triggers : \A f \in e.triggers[t].functions :
             e.items[f.itemid].hostid \in Templates => t \in DOMAIN TemplateTriggers
      BY DEF Shrinks, SameTrigger, SameItem, TemplatesKept
    <2> QED BY <2>1, <2>2, <2>3, <2>4 DEF TemplatesKept
  <1>2. UniqueKeys(e) /\ ItemsOfHosts(e, H)
    BY DEF Shrinks, SameItem, UniqueKeys, ItemsOfHosts
  <1>3. OneHost(e)
    BY DEF Shrinks, SameTrigger, SameItem, OneHost
  <1> QED BY <1>1, <1>2, <1>3

(* A kept trigger compares what it compared, on the same host.             *)
LEMMA TriggerKept ==
  ASSUME NEW db, NEW e, NEW s \in DOMAIN db.triggers, SameTrigger(db, e, s)
  PROVE  /\ Expression(e, s) = Expression(db, s)
         /\ \A h : s \in TriggersOf(db, h) => s \in TriggersOf(e, h)
  <1>1. /\ s \in DOMAIN e.triggers /\ e.triggers[s].functions = db.triggers[s].functions
        /\ \A f \in db.triggers[s].functions :
              /\ f.itemid \in DOMAIN e.items
              /\ e.items[f.itemid].hostid = db.items[f.itemid].hostid
              /\ e.items[f.itemid].key = db.items[f.itemid].key
    BY DEF SameTrigger, SameItem
  <1>2. Expression(e, s) = Expression(db, s)
    BY <1>1 DEF Expression
  <1>3. \A h : s \in TriggersOf(db, h) => s \in TriggersOf(e, h)
    BY <1>1 DEF TriggersOf, TriggersWith, Of
  <1> QED BY <1>2, <1>3

(* A host stays complete as long as its items and copies stay.             *)
LEMMA LinkKept ==
  ASSUME NEW db, NEW e, NEW H, NEW G, Whole(db, H), Whole(e, G), NEW h, NEW t \in Templates,
         Linked(db, h, t),
         \A i \in Of(db.items, h) : SameItem(db, e, i),
         \A s \in TriggersOf(db, h) :
            db.triggers[s].templateid \in TriggersOf(db, t) => SameTrigger(db, e, s)
  PROVE  Linked(e, h, t)
  <1>1. Of(e.items, t) = Of(db.items, t) /\ TriggersOf(e, t) = TriggersOf(db, t)
    BY OfTemplate
  <1>2. ASSUME NEW i \in Of(e.items, t) PROVE SameKey(e, e.items[i].key, h) # {}
    <2>1. i \in Of(db.items, t) /\ i \in DOMAIN TemplateItems
      BY <1>1, <1>2 DEF Of, Whole, TemplatesKept
    <2>2. e.items[i].key = db.items[i].key
      BY <2>1 DEF Whole, TemplatesKept
    <2>3. PICK j \in Of(db.items, h) : db.items[j].key = db.items[i].key
      BY <2>1 DEF Linked, HasKeys, SameKey
    <2> QED BY <2>2, <2>3 DEF SameKey, SameItem, Of
  <1>3. ASSUME NEW u \in TriggersOf(e, t) PROVE HasCopy(e, h, u)
    <2>1. u \in TriggersOf(db, t) /\ u \in DOMAIN db.triggers
      BY <1>1, <1>3 DEF TriggersOf, TriggersWith
    <2>2. PICK s \in TriggersOf(db, h) :
             db.triggers[s].templateid = u /\ Expression(db, s) = Expression(db, u)
      BY <2>1 DEF Linked, HasCopy
    <2>3. SameTrigger(db, e, s) /\ s \in DOMAIN db.triggers
      BY <2>1, <2>2 DEF TriggersOf, TriggersWith
    <2>4. u # 0
      BY <2>1, ElementsAre, HostsBelow DEF Whole
    <2>5. e.triggers[s].templateid = u /\ s \in TriggersOf(e, h) /\ Expression(e, s) = Expression(db, s)
      BY <2>2, <2>3, <2>4, TriggerKept DEF SameTrigger
    <2>6. Expression(e, u) = Expression(db, u)
      <3>1. u \in DOMAIN TemplateTriggers
        BY <2>1 DEF Whole, TemplatesKept, TriggersOf, TriggersWith, Of
      <3>2. \A f \in TemplateTriggers[u].functions : f.itemid \in DOMAIN TemplateItems
        BY <3>1, TemplatesAssumption DEF TemplatesAssumption
      <3>3. /\ db.triggers[u].functions = TemplateTriggers[u].functions
            /\ e.triggers[u].functions = TemplateTriggers[u].functions
            /\ \A f \in TemplateTriggers[u].functions :
                  e.items[f.itemid].key = db.items[f.itemid].key
        BY <3>1, <3>2 DEF Whole, TemplatesKept
      <3> QED BY <3>3 DEF Expression
    <2> QED BY <2>2, <2>5, <2>6 DEF HasCopy
  <1> QED BY <1>2, <1>3 DEF Linked, HasKeys

-----------------------------------------------------------------------------
(* Deleting.                                                               *)

(* DBdelete_trigger: the other triggers and all items stay.                *)
LEMMA TriggersDeleted ==
  ASSUME NEW db, NEW H, Whole(db, H), NEW T, T \cap DOMAIN TemplateTriggers = {}
  PROVE  LET e == DBdelete_trigger(db, T) IN
         /\ e.apps = db.apps /\ e.items = db.items
         /\ Whole(e, H)
         /\ \A s \in DOMAIN db.triggers \ T : SameTrigger(db, e, s)
         /\ \A s \in DOMAIN e.triggers : s \in DOMAIN db.triggers \ T
         /\ \A i \in DOMAIN db.items : SameItem(db, e, i)
  <1> DEFINE e == DBdelete_trigger(db, T)
             left == [t \in DOMAIN db.triggers \ T |->
                        [db.triggers[t] EXCEPT !.deps = db.triggers[t].deps \ T]]
  <1>1. /\ db = [apps |-> db.apps, items |-> db.items, triggers |-> db.triggers]
        /\ db.triggers \in Tables(TriggerRow) /\ db.apps \in Tables(AppRow)
        /\ db.items \in Tables(ItemRow)
        /\ \A t \in DOMAIN db.triggers : db.triggers[t] \in TriggerRow
        /\ DOMAIN db.triggers \subseteq ElementIds
    BY ElementsAre DEF Whole
  <1>2. e = [apps |-> db.apps, items |-> db.items, triggers |-> left]
    <2>1. e = [db EXCEPT !.triggers = left]
      BY DEF DBdelete_trigger
    <2> HIDE DEF e, left
    <2> QED BY <1>1, <2>1
  <1>3. left \in Tables(TriggerRow)
    <2>1. IsFiniteSet(DOMAIN db.triggers)
      BY <1>1, TablesAre
    <2>2. IsFiniteSet(DOMAIN db.triggers \ T)
      BY <2>1, FS_Subset
    <2>3. \A t \in DOMAIN left : left[t] \in TriggerRow
      BY <1>1 DEF TriggerRow
    <2>4. left = [t \in DOMAIN left |-> left[t]] /\ DOMAIN left = DOMAIN db.triggers \ T
      OBVIOUS
    <2> HIDE DEF left
    <2> QED BY <1>1, <2>2, <2>3, <2>4, TablesAre
  <1>4. e \in Elements
    BY <1>1, <1>2, <1>3 DEF Elements
  <1>5. \A s \in DOMAIN db.triggers \ T :
           /\ left[s].functions = db.triggers[s].functions
           /\ left[s].templateid = db.triggers[s].templateid
    BY <1>1 DEF TriggerRow
  <1>6. DOMAIN left = DOMAIN db.triggers \ T
    OBVIOUS
  <1> HIDE DEF left, e
  <1>7. e.items = db.items /\ e.triggers = left /\ e.apps = db.apps
    BY <1>2
  <1>8. \A i \in DOMAIN db.items : SameItem(db, e, i)
    BY <1>7 DEF SameItem
  <1>9. \A s \in DOMAIN db.triggers \ T : SameTrigger(db, e, s)
    BY <1>5, <1>6, <1>7, <1>8 DEF SameTrigger, Whole, OneHost
  <1>10. Shrinks(db, e)
    BY <1>6, <1>7, <1>8, <1>9 DEF Shrinks, Whole, TemplatesKept
  <1>11. Whole(e, H)
    BY <1>4, <1>10, WholeShrinks
  <1> QED BY <1>6, <1>7, <1>8, <1>9, <1>11 DEF e

(* No host is a template, and a trigger is of one of them.                 *)
LEMMA HostTriggers ==
  ASSUME NEW db, NEW H, Whole(db, H), NEW h, h \notin Templates
  PROVE  /\ Of(db.items, h) \cap DOMAIN TemplateItems = {}
         /\ TriggersOf(db, h) \cap DOMAIN TemplateTriggers = {}
         /\ \A g : TriggersOf(db, h) \cap TriggersOf(db, g) # {} => g = h
  <1>1. Of(db.items, h) \cap DOMAIN TemplateItems = {}
    BY TemplatesAssumption DEF Of, Whole, TemplatesKept, TemplatesAssumption
  <1>2. \A s \in DOMAIN TemplateTriggers : \A f \in db.triggers[s].functions :
           f.itemid \in DOMAIN TemplateItems
    BY TemplatesAssumption DEF Whole, TemplatesKept, TemplatesAssumption
  <1>3. TriggersOf(db, h) \cap DOMAIN TemplateTriggers = {}
    BY <1>1, <1>2 DEF TriggersOf, TriggersWith
  <1>4. ASSUME NEW g, NEW s \in TriggersOf(db, h) \cap TriggersOf(db, g) PROVE g = h
    BY DEF TriggersOf, TriggersWith, Of, Whole, OneHost
  <1> QED BY <1>1, <1>3, <1>4

(* An order of a finite set has each of its elements.                      *)
LEMMA InOrder ==
  ASSUME NEW S, IsFiniteSet(S), NEW order \in SetToSeqs(S)
  PROVE  /\ order \in [DOMAIN order -> S] /\ DOMAIN order \in SUBSET Nat /\ IsFiniteSet(DOMAIN order)
         /\ \A x \in S : \E i \in DOMAIN order : order[i] = x
  <1> DEFINE n == Cardinality(S)
  <1>1. n \in Nat
    BY FS_CardinalityType
  <1>2. order \in [1 .. n -> S] /\ \A i, j \in 1 .. n : i # j => order[i] # order[j]
    BY DEF SetToSeqs
  <1>3. IsFiniteSet(1 .. n) /\ Cardinality(1 .. n) = n
    BY <1>1, FS_Interval
  <1>4. order \in Injection(1 .. n, S)
    BY <1>2 DEF Injection, IsInjective
  <1>5. order \in Surjection(1 .. n, S)
    BY <1>3, <1>4, FS_Injection
  <1>6. \A x \in S : \E i \in 1 .. n : order[i] = x
    BY <1>5 DEF Surjection
  <1> QED BY <1>1, <1>2, <1>3, <1>6

(* Steps that follow each other.                                           *)
LEMMA KeptTwice ==
  ASSUME NEW db, NEW d, NEW e
  PROVE  /\ \A i : SameItem(db, d, i) /\ SameItem(d, e, i) => SameItem(db, e, i)
         /\ \A s : SameTrigger(db, d, s) /\ SameTrigger(d, e, s) => SameTrigger(db, e, s)
         /\ Grows(db, d) /\ Grows(d, e) => Grows(db, e)
  <1>1. \A i : SameItem(db, d, i) /\ SameItem(d, e, i) => SameItem(db, e, i)
    BY DEF SameItem
  <1>2. \A s : SameTrigger(db, d, s) /\ SameTrigger(d, e, s) => SameTrigger(db, e, s)
    BY <1>1 DEF SameTrigger
  <1>3. Grows(db, d) /\ Grows(d, e) => Grows(db, e)
    BY <1>1, <1>2 DEF Grows, SameItem, SameTrigger
  <1> QED BY <1>1, <1>2, <1>3

(* DBdelete_item: the item may go, and triggers that use it, only.         *)
LEMMA ItemDeleted ==
  ASSUME NEW db, NEW H, Whole(db, H), NEW i, i \notin DOMAIN TemplateItems, NEW e \in DBdelete_item(db, i)
  PROVE  /\ Whole(e, H)
         /\ \A j \in DOMAIN db.items \ {i} : SameItem(db, e, j)
         /\ \A s \in DOMAIN db.triggers \ TriggersWith(db, {i}) : SameTrigger(db, e, s)
  <1> DEFINE T == TriggersWith(db, {i})
  <1>1. PICK g \in SUBSET T :
           \/ e = DBdelete_trigger(db, g)
           \/ e = [DBdelete_trigger(db, g) EXCEPT !.items = Without(@, {i})] /\ g = T
    BY DEF DBdelete_item, DBdelete_triggers_by_itemid
  <1> DEFINE d == DBdelete_trigger(db, g)
  <1>2. T \cap DOMAIN TemplateTriggers = {}
    BY TemplatesAssumption DEF TriggersWith, Whole, TemplatesKept, TemplatesAssumption
  <1>3. /\ d.items = db.items /\ Whole(d, H)
        /\ \A s \in DOMAIN db.triggers \ g : SameTrigger(db, d, s)
        /\ \A s \in DOMAIN d.triggers : s \in DOMAIN db.triggers \ g
        /\ \A j \in DOMAIN db.items : SameItem(db, d, j)
    <2>1. g \cap DOMAIN TemplateTriggers = {}
      BY <1>2
    <2> HIDE DEF T
    <2> QED BY <2>1, TriggersDeleted
  <1>4. CASE e = d
    BY <1>3, <1>4
  <1>5. CASE e = [d EXCEPT !.items = Without(@, {i})] /\ g = T
    <2>1. /\ d = [apps |-> d.apps, items |-> d.items, triggers |-> d.triggers]
          /\ d.apps \in Tables(AppRow) /\ d.items \in Tables(ItemRow)
          /\ d.triggers \in Tables(TriggerRow)
      BY <1>3, ElementsAre DEF Whole
    <2> HIDE DEF d, T
    <2>2. e.apps = d.apps /\ e.triggers = d.triggers /\ e.items = Without(db.items, {i})
      BY <1>3, <1>5, <2>1
    <2>3. /\ e.items \in Tables(ItemRow) /\ DOMAIN e.items = DOMAIN db.items \ {i}
          /\ \A j \in DOMAIN db.items \ {i} : e.items[j] = db.items[j]
      <3>1. db.items \in Tables(ItemRow)
        BY <1>3, <2>1
      <3> DEFINE items == Without(db.items, {i})
      <3>2. items \in Tables(ItemRow) /\ DOMAIN items = DOMAIN db.items \ {i}
        BY <3>1, RowsLeft
      <3>3. \A j \in DOMAIN db.items \ {i} : items[j] = db.items[j]
        BY DEF Without, Restrict
      <3> HIDE DEF items
      <3>4. e.items = items
        BY <2>2 DEF items
      <3> QED BY <3>2, <3>3, <3>4
    <2>4. e \in Elements
      <3>1. e = [apps |-> d.apps, items |-> e.items, triggers |-> d.triggers]
        BY <1>5, <2>1, <2>2
      <3> QED BY <2>1, <2>3, <3>1 DEF Elements
    <2>5. \A j \in DOMAIN db.items \ {i} : SameItem(db, e, j)
      BY <2>3 DEF SameItem
    <2>6. \A s \in DOMAIN db.triggers \ T : \A f \in db.triggers[s].functions : f.itemid # i
      BY DEF T, TriggersWith
    <2>7. \A s \in DOMAIN db.triggers \ T : SameTrigger(db, e, s)
      BY <1>3, <1>5, <2>2, <2>5, <2>6 DEF SameTrigger
    <2>8. Shrinks(db, e)
      <3>1. \A j \in DOMAIN e.items : j \in DOMAIN db.items /\ SameItem(db, e, j)
        BY <2>3, <2>5
      <3>2. \A s \in DOMAIN e.triggers : s \in DOMAIN db.triggers /\ SameTrigger(db, e, s)
        BY <1>3, <1>5, <2>2, <2>7
      <3>3. DOMAIN TemplateItems \subseteq DOMAIN e.items
        BY <2>3 DEF Whole, TemplatesKept
      <3>4. DOMAIN TemplateTriggers \subseteq DOMAIN e.triggers
        BY <1>3, <2>2 DEF Whole, TemplatesKept
      <3> QED BY <3>1, <3>2, <3>3, <3>4 DEF Shrinks
    <2>9. Whole(e, H)
      BY <2>4, <2>8, WholeShrinks
    <2> QED BY <2>5, <2>7, <2>9 DEF T
  <1> QED BY <1>1, <1>4, <1>5

(* What may be left of db without items of I and triggers that use them.   *)
Left(db, H, I) ==
    {d \in Elements :
        /\ Whole(d, H)
        /\ \A i \in DOMAIN db.items \ I : SameItem(db, d, i)
        /\ \A s \in DOMAIN db.triggers \ TriggersWith(db, I) : SameTrigger(db, d, s)}

LEMMA OneMoreDeleted ==
  ASSUME NEW db, NEW H, Whole(db, H), NEW I, I \cap DOMAIN TemplateItems = {},
         NEW d \in Left(db, H, I), NEW i \in I, NEW e \in DBdelete_item(d, i)
  PROVE  e \in Left(db, H, I)
  <1>1. /\ Whole(d, H)
        /\ \A j \in DOMAIN db.items \ I : SameItem(db, d, j)
        /\ \A s \in DOMAIN db.triggers \ TriggersWith(db, I) : SameTrigger(db, d, s)
    BY DEF Left
  <1>2. /\ Whole(e, H)
        /\ \A j \in DOMAIN d.items \ {i} : SameItem(d, e, j)
        /\ \A s \in DOMAIN d.triggers \ TriggersWith(d, {i}) : SameTrigger(d, e, s)
    BY <1>1, ItemDeleted
  <1>3. \A j \in DOMAIN db.items \ I : SameItem(db, e, j)
    BY <1>1, <1>2, KeptTwice DEF SameItem
  <1>4. ASSUME NEW s \in DOMAIN db.triggers \ TriggersWith(db, I) PROVE SameTrigger(db, e, s)
    <2>1. \A f \in db.triggers[s].functions : f.itemid # i
      BY DEF TriggersWith
    <2>2. SameTrigger(db, d, s) /\ s \in DOMAIN d.triggers /\ d.triggers[s].functions = db.triggers[s].functions
      BY <1>1 DEF SameTrigger
    <2>3. s \notin TriggersWith(d, {i})
      BY <2>1, <2>2 DEF TriggersWith
    <2> QED BY <1>2, <2>2, <2>3, KeptTwice
  <1> QED BY <1>2, <1>3, <1>4 DEF Left, Whole

(* DBdelete_item of one item after the other, whichever of them fail.      *)
LEMMA ItemsDeleted ==
  ASSUME NEW db, NEW H, Whole(db, H), NEW I, IsFiniteSet(I), I \cap DOMAIN TemplateItems = {},
         NEW e \in DBdelete_items(db, I)
  PROVE  /\ Whole(e, H)
         /\ \A i \in DOMAIN db.items \ I : SameItem(db, e, i)
         /\ \A s \in DOMAIN db.triggers \ TriggersWith(db, I) : SameTrigger(db, e, s)
  <1>1. PICK order \in SetToSeqs(I) : e \in FoldLeft(DBdelete_item_any, {db}, order)
    BY DEF DBdelete_items
  <1> DEFINE S == DOMAIN order
             D == SUBSET Left(db, H, I)
             After(dbs, i) == DBdelete_item_any(dbs, order[i])
             step == [p \in S \X D |-> After(p[2], p[1])]
             IsFold(f) == f = [s \in SUBSET S |-> IF s = {} THEN {db}
                                 ELSE After(f[s \ {Max(s)}], Max(s))]
             fold == CHOOSE f : IsFold(f)
             first == [s \in SUBSET S |-> Max(s)]
  <1>2. order \in [S -> I] /\ S \in SUBSET Nat /\ IsFiniteSet(S)
    BY InOrder
  <1>3. ASSUME NEW dbs \in D, NEW i \in S PROVE After(dbs, i) \in D
    <2>1. ASSUME NEW x \in After(dbs, i) PROVE x \in Left(db, H, I)
      <3>1. PICK d \in dbs : x \in DBdelete_item(d, order[i])
        BY DEF DBdelete_item_any
      <3>2. d \in Left(db, H, I) /\ order[i] \in I
        BY <1>2
      <3> HIDE DEF S, D, After
      <3> QED BY <3>1, <3>2, OneMoreDeleted
    <2> QED BY <2>1
  <1>4. {db} \in D
    <2>1. Grows(db, db)
      BY DEF Grows, SameItem, SameTrigger, Whole, OneHost
    <2> QED BY <2>1 DEF Left, Whole, Grows
  <1>5. FoldLeft(DBdelete_item_any, {db}, order) = fold[S]
    BY DEF FoldLeft, MapThenFoldSet
  <1>6. \A s \in SUBSET S : s # {} => Max(s) \in s
    BY <1>2, FS_Subset, GreatestId
  <1> HIDE DEF S, D, After
  <1>7. step \in [S \X D -> D]
    BY <1>3
  <1>8. PICK f : IsFolded(f, S, D, {db}, step, first)
    <2>1. \A s \in SUBSET S : s # {} => first[s] \in s
      BY <1>6
    <2> HIDE DEF step, first, IsFold, fold
    <2> QED BY <1>2, <1>4, <1>7, <2>1, FoldExists
  <1>9. IsFold(f)
    <2>1. ASSUME NEW s \in SUBSET S, s # {}
          PROVE  step[<<first[s], f[s \ {first[s]}]>>] = After(f[s \ {Max(s)}], Max(s))
      <3>1. first[s] = Max(s) /\ Max(s) \in S
        BY <1>6, <2>1
      <3>2. f[s \ {first[s]}] \in D
        BY <1>8, <3>1 DEF IsFolded
      <3> QED BY <3>1, <3>2
    <2> HIDE DEF step, first
    <2> QED BY <1>8, <2>1 DEF IsFolded
  <1>10. IsFold(fold)
    <2> HIDE DEF IsFold
    <2> QED BY <1>9
  <1>11. fold[S] \in D
    <2> DEFINE Rel == (SUBSET S) \X D
    <2> HIDE DEF fold
    <2>1. <<{}, fold[{}]>> \in Rel
      BY <1>4, <1>10
    <2>2. ASSUME NEW s \in SUBSET S, s # {}
          PROVE  \E x \in s : <<s \ {x}, fold[s \ {x}]>> \in Rel => <<s, fold[s]>> \in Rel
      <3>1. Max(s) \in s /\ Max(s) \in S
        BY <1>6, <2>2
      <3>2. fold[s] = After(fold[s \ {Max(s)}], Max(s))
        BY <1>10, <2>2
      <3> QED BY <1>3, <3>1, <3>2
    <2> HIDE DEF Rel
    <2>3. <<S, fold[S]>> \in Rel
      BY <1>2, <2>1, <2>2, FoldInduction
    <2> QED BY <2>3 DEF Rel
  <1> HIDE DEF fold
  <1>12. e \in Left(db, H, I)
    BY <1>1, <1>5, <1>11 DEF D
  <1> QED BY <1>12 DEF Left

(* Only the applications of items change.                                  *)
LEMMA AppsDeleted ==
  ASSUME NEW db, NEW H, Whole(db, H), NEW A
  PROVE  LET e == DBdelete_application(db, A) IN Whole(e, H) /\ Grows(db, e)
  <1> DEFINE e == DBdelete_application(db, A)
             items == [i \in DOMAIN db.items |-> [db.items[i] EXCEPT !.apps = db.items[i].apps \ A]]
  <1>1. /\ db = [apps |-> db.apps, items |-> db.items, triggers |-> db.triggers]
        /\ db.apps \in Tables(AppRow) /\ db.items \in Tables(ItemRow)
        /\ db.triggers \in Tables(TriggerRow)
        /\ \A i \in DOMAIN db.items : db.items[i] \in ItemRow
        /\ DOMAIN db.items \subseteq ElementIds
    BY ElementsAre DEF Whole
  <1>2. e = [apps |-> Without(db.apps, A), items |-> items, triggers |-> db.triggers]
    <2>1. e = [db EXCEPT !.apps = Without(db.apps, A), !.items = items]
      BY DEF DBdelete_application
    <2> HIDE DEF e, items
    <2> QED BY <1>1, <2>1
  <1>3. items \in Tables(ItemRow)
    <2>1. IsFiniteSet(DOMAIN db.items)
      BY <1>1, TablesAre
    <2>2. \A i \in DOMAIN items : items[i] \in ItemRow
      BY <1>1 DEF ItemRow
    <2>3. items = [i \in DOMAIN items |-> items[i]] /\ DOMAIN items = DOMAIN db.items
      OBVIOUS
    <2> HIDE DEF items
    <2> QED BY <1>1, <2>1, <2>2, <2>3, TablesAre
  <1>4. e \in Elements
    <2>1. Without(db.apps, A) \in Tables(AppRow)
      BY <1>1, RowsLeft
    <2> HIDE DEF items, e
    <2> QED BY <1>1, <1>2, <1>3, <2>1 DEF Elements
  <1>5. /\ DOMAIN items = DOMAIN db.items
        /\ \A i \in DOMAIN db.items :
              items[i].hostid = db.items[i].hostid /\ items[i].key = db.items[i].key
    BY <1>1 DEF ItemRow
  <1> HIDE DEF items, e
  <1>6. e.items = items /\ e.triggers = db.triggers
    BY <1>2
  <1>7. \A i \in DOMAIN db.items : SameItem(db, e, i)
    BY <1>5, <1>6 DEF SameItem
  <1>8. \A s \in DOMAIN db.triggers : SameTrigger(db, e, s)
    BY <1>6, <1>7 DEF SameTrigger, Whole, OneHost
  <1>9. Shrinks(db, e)
    BY <1>5, <1>6, <1>7, <1>8 DEF Shrinks, Whole, TemplatesKept
  <1>10. Whole(e, H)
    BY <1>4, <1>9, WholeShrinks
  <1> QED BY <1>7, <1>8, <1>10 DEF e, Grows

Copies(db, h, t) == {s \in TriggersOf(db, h) : db.triggers[s].templateid \in TriggersOf(db, t)}

(* The copies of one template on one host are no copies of another         *)
(* template or on another host.                                            *)
LEMMA OtherCopies ==
  ASSUME NEW db, NEW H \in SUBSET HostIds, Whole(db, H), NEW h \in H, NEW t \in Templates,
         NEW k \in H, NEW g \in Templates, <<k, g>> # <<h, t>>,
         NEW s \in TriggersOf(db, k), db.triggers[s].templateid \in TriggersOf(db, g)
  PROVE  s \notin Copies(db, h, t)
  <1> SUFFICES ASSUME s \in TriggersOf(db, h), db.triggers[s].templateid \in TriggersOf(db, t)
               PROVE  FALSE
    BY DEF Copies
  <1>1. \A x, y : TriggersOf(db, x) \cap TriggersOf(db, y) # {} => x = y
    BY DEF TriggersOf, TriggersWith, Of, Whole, OneHost
  <1> QED BY <1>1

(* Of the elements of a template only the triggers go from a host: a       *)
(* template, whose hostid is that of no item, is sought among the items.   *)
LEMMA TemplateElementsDeleted ==
  ASSUME NEW db, NEW H, Whole(db, H), NEW h \in HostIds, NEW t \in Templates,
         NEW e \in DBdelete_template_elements(db, h, t)
  PROVE  /\ Whole(e, H)
         /\ \A i \in DOMAIN db.items : SameItem(db, e, i)
         /\ \A s \in DOMAIN db.triggers \ Copies(db, h, t) : SameTrigger(db, e, s)
  <1> DEFINE T == Copies(db, h, t)
             db1 == DBdelete_trigger(db, T)
  <1>1. h \notin Templates /\ t \notin ElementIds
    BY HostsBelow
  <1>2. T \cap DOMAIN TemplateTriggers = {}
    BY <1>1, HostTriggers DEF Copies
  <1> HIDE DEF T
  <1>3. /\ Whole(db1, H)
        /\ \A s \in DOMAIN db.triggers \ T : SameTrigger(db, db1, s)
        /\ \A i \in DOMAIN db.items : SameItem(db, db1, i)
    BY <1>2, TriggersDeleted
  <1>4. PICK db2 \in DBdelete_items(db1, {}) : e = DBdelete_template_applications(db2, h, t)
    <2>1. DBdelete_template_triggers(db, h, t) = db1
      BY DEF DBdelete_template_triggers, db1, T, Copies
    <2>2. {i \in Of(db1.items, h) : t \in Of(db1.items, db1.items[i].templateid)} = {}
      <3>1. DOMAIN db1.items \subseteq ElementIds
        BY <1>3, ElementsAre DEF Whole
      <3> HIDE DEF db1
      <3> QED BY <1>1, <3>1 DEF Of
    <2>3. DBdelete_template_items(db1, h, t) = DBdelete_items(db1, {})
      BY <2>2 DEF DBdelete_template_items
    <2> HIDE DEF db1
    <2> QED BY <2>1, <2>3 DEF DBdelete_template_elements
  <1> HIDE DEF db1
  <1>5. /\ Whole(db2, H)
        /\ \A i \in DOMAIN db1.items : SameItem(db1, db2, i)
        /\ \A s \in DOMAIN db1.triggers : SameTrigger(db1, db2, s)
    <2>1. {} \cap DOMAIN TemplateItems = {} /\ IsFiniteSet({})
      BY FS_EmptySet
    <2>2. TriggersWith(db1, {}) = {}
      BY DEF TriggersWith
    <2> QED BY <1>3, <2>1, <2>2, ItemsDeleted
  <1>6. Whole(e, H) /\ Grows(db2, e)
    <2> DEFINE A == {a \in Of(db2.apps, h) : db2.apps[a].templateid \in Of(db2.apps, t)}
    <2>1. e = DBdelete_application(db2, A)
      BY <1>4 DEF DBdelete_template_applications
    <2> HIDE DEF A
    <2> QED BY <1>5, <2>1, AppsDeleted
  <1>7. ASSUME NEW i \in DOMAIN db.items PROVE SameItem(db, e, i)
    <2>1. SameItem(db, db1, i) /\ SameItem(db1, db2, i) /\ SameItem(db2, e, i)
      BY <1>3, <1>5, <1>6 DEF SameItem, Grows
    <2> QED BY <2>1, KeptTwice
  <1>8. ASSUME NEW s \in DOMAIN db.triggers \ T PROVE SameTrigger(db, e, s)
    <2>1. SameTrigger(db, db1, s) /\ SameTrigger(db1, db2, s) /\ SameTrigger(db2, e, s)
      BY <1>3, <1>5, <1>6 DEF SameTrigger, Grows
    <2> QED BY <2>1, KeptTwice
  <1> QED BY <1>6, <1>7, <1>8 DEF T

-----------------------------------------------------------------------------
(* Adding.                                                                 *)

(* A new trigger of a host.                                                *)
LEMMA TriggerInserted ==
  ASSUME NEW db, NEW H, Whole(db, H), NEW row \in TriggerRow, NEW h, h \notin Templates,
         row.functions # {}, \A f \in row.functions : f.itemid \in Of(db.items, h)
  PROVE  LET e == [db EXCEPT !.triggers = InsertRow(@, row)] IN
         /\ Whole(e, H) /\ Grows(db, e) /\ e.items = db.items
         /\ \E s \in TriggersOf(e, h) : e.triggers[s] = row
  <1> DEFINE e == [db EXCEPT !.triggers = InsertRow(@, row)]
  <1>1. /\ db = [apps |-> db.apps, items |-> db.items, triggers |-> db.triggers]
        /\ db.apps \in Tables(AppRow) /\ db.items \in Tables(ItemRow)
        /\ db.triggers \in Tables(TriggerRow)
    BY ElementsAre DEF Whole
  <1>2. /\ e = [apps |-> db.apps, items |-> db.items, triggers |-> InsertRow(db.triggers, row)]
        /\ e.items = db.items /\ e.triggers = InsertRow(db.triggers, row)
    BY <1>1
  <1> HIDE DEF e
  <1>3. PICK id \in ElementIds \ DOMAIN db.triggers :
           /\ e.triggers \in Tables(TriggerRow)
           /\ DOMAIN e.triggers = DOMAIN db.triggers \cup {id} /\ e.triggers[id] = row
           /\ \A s \in DOMAIN db.triggers : e.triggers[s] = db.triggers[s]
    <2> DEFINE rows == db.triggers
               new == e.triggers
    <2>1. rows \in Tables(TriggerRow) /\ new = InsertRow(rows, row)
      BY <1>1, <1>2
    <2> HIDE DEF rows, new
    <2>2. OneMore(new, rows, TriggerRow, row)
      BY <2>1, RowInserted
    <2> QED BY <2>2 DEF OneMore, rows, new
  <1>4. e \in Elements
    BY <1>1, <1>2, <1>3 DEF Elements
  <1>5. Grows(db, e)
    BY <1>2, <1>3 DEF Grows, SameItem, SameTrigger, Whole, OneHost
  <1>6. TemplatesKept(e)
    <2>1. ASSUME NEW s \in DOMAIN e.triggers, NEW f \in e.triggers[s].functions,
                 e.items[f.itemid].hostid \in Templates
          PROVE  s \in DOMAIN TemplateTriggers
      BY <1>2, <1>3, <2>1 DEF Whole, TemplatesKept, Of
    <2> QED BY <1>2, <1>3, <2>1 DEF Whole, TemplatesKept
  <1>7. UniqueKeys(e) /\ ItemsOfHosts(e, H)
    BY <1>2 DEF Whole, UniqueKeys, ItemsOfHosts
  <1>8. OneHost(e)
    BY <1>2, <1>3 DEF Whole, OneHost, Of
  <1>9. id \in TriggersOf(e, h)
    BY <1>2, <1>3 DEF TriggersOf, TriggersWith
  <1> QED BY <1>2, <1>3, <1>4, <1>5, <1>6, <1>7, <1>8, <1>9 DEF Whole, e

(* A new item of a host that has none with its key.                        *)
LEMMA ItemInserted ==
  ASSUME NEW db, NEW H, Whole(db, H), NEW row \in ItemRow, row.hostid \in H, H \cap Templates = {},
         SameKey(db, row.key, row.hostid) = {}
  PROVE  LET e == [db EXCEPT !.items = InsertRow(@, row)] IN
         /\ Whole(e, H) /\ Grows(db, e) /\ e.triggers = db.triggers
         /\ SameKey(e, row.key, row.hostid) # {}
  <1> DEFINE e == [db EXCEPT !.items = InsertRow(@, row)]
  <1>1. /\ db = [apps |-> db.apps, items |-> db.items, triggers |-> db.triggers]
        /\ db.apps \in Tables(AppRow) /\ db.items \in Tables(ItemRow)
        /\ db.triggers \in Tables(TriggerRow)
    BY ElementsAre DEF Whole
  <1>2. /\ e = [apps |-> db.apps, items |-> InsertRow(db.items, row), triggers |-> db.triggers]
        /\ e.items = InsertRow(db.items, row) /\ e.triggers = db.triggers
    BY <1>1
  <1> HIDE DEF e
  <1>3. PICK id \in ElementIds \ DOMAIN db.items :
           /\ e.items \in Tables(ItemRow)
           /\ DOMAIN e.items = DOMAIN db.items \cup {id} /\ e.items[id] = row
           /\ \A i \in DOMAIN db.items : e.items[i] = db.items[i]
    <2> DEFINE rows == db.items
               new == e.items
    <2>1. rows \in Tables(ItemRow) /\ new = InsertRow(rows, row)
      BY <1>1, <1>2
    <2> HIDE DEF rows, new
    <2>2. OneMore(new, rows, ItemRow, row)
      BY <2>1, RowInserted
    <2> QED BY <2>2 DEF OneMore, rows, new
  <1>4. e \in Elements
    BY <1>1, <1>2, <1>3 DEF Elements
  <1>5. Grows(db, e)
    BY <1>2, <1>3 DEF Grows, SameItem, SameTrigger, Whole, OneHost
  <1>6. TemplatesKept(e)
    <2>1. \A i \in DOMAIN e.items : e.items[i].hostid \in Templates => i \in DOMAIN TemplateItems
      BY <1>3 DEF Whole, TemplatesKept
    <2>2. \A s \in DOMAIN e.triggers : \A f \in e.triggers[s].functions :
             e.items[f.itemid].hostid = db.items[f.itemid].hostid
      BY <1>2, <1>3 DEF Whole, OneHost
    <2> QED BY <1>2, <1>3, <2>1, <2>2 DEF Whole, TemplatesKept
  <1>7. UniqueKeys(e)
    BY <1>3 DEF Whole, UniqueKeys, SameKey, Of
  <1>8. ItemsOfHosts(e, H)
    BY <1>3 DEF Whole, ItemsOfHosts
  <1>9. OneHost(e)
    BY <1>2, <1>3 DEF Whole, OneHost
  <1>10. id \in SameKey(e, row.key, row.hostid)
    BY <1>3 DEF SameKey, Of
  <1> QED BY <1>2, <1>4, <1>5, <1>6, <1>7, <1>8, <1>9, <1>10 DEF Whole, e

(* The element that FoldSet takes next.                                    *)
OneOf(S) == [s \in SUBSET S |-> CHOOSE x \in s : TRUE]

LEMMA OneOfIn == ASSUME NEW S, NEW s \in SUBSET S, s # {} PROVE OneOf(S)[s] \in s
  BY DEF OneOf

-----------------------------------------------------------------------------
(* Copying applications.                                                   *)

WithApps(db) == {[db EXCEPT !.apps = rows] : rows \in Tables(AppRow)}

(* DBadd_application: nothing but the applications changes.                *)
LEMMA ApplicationAdded ==
  ASSUME NEW db \in Elements, NEW d \in WithApps(db), NEW name \in AppNames, NEW h \in Nat, NEW a \in Nat
  PROVE  DBadd_application(d, name, h, a) \in WithApps(db)
  <1> DEFINE same == {b \in Of(d.apps, h) : d.apps[b].name = name}
             row == [hostid |-> h, name |-> name, templateid |-> a]
             new == InsertRow(d.apps, row)
             old == [b \in DOMAIN d.apps |->
                       IF b \in same THEN [d.apps[b] EXCEPT !.templateid = a] ELSE d.apps[b]]
  <1>1. /\ d.apps \in Tables(AppRow)
        /\ \A rows : [d EXCEPT !.apps = rows] = [db EXCEPT !.apps = rows]
    BY ElementsAre DEF WithApps
  <1>2. row \in AppRow
    BY DEF AppRow
  <1>3. CASE same = {}
    <2>1. DBadd_application(d, name, h, a) = [d EXCEPT !.apps = new]
      BY <1>3 DEF DBadd_application
    <2>2. new \in Tables(AppRow)
      <3> HIDE DEF row
      <3>1. OneMore(new, d.apps, AppRow, row)
        BY <1>1, <1>2, RowInserted
      <3> QED BY <3>1 DEF OneMore
    <2> QED BY <1>1, <2>1, <2>2 DEF WithApps
  <1>4. CASE same # {}
    <2>1. DBadd_application(d, name, h, a) = [d EXCEPT !.apps = old]
      BY <1>4 DEF DBadd_application
    <2>2. /\ \A b \in DOMAIN d.apps : d.apps[b] \in AppRow
          /\ DOMAIN d.apps \subseteq ElementIds /\ IsFiniteSet(DOMAIN d.apps)
      BY <1>1, TablesAre
    <2>3. /\ old = [b \in DOMAIN old |-> old[b]] /\ DOMAIN old = DOMAIN d.apps
          /\ \A b \in DOMAIN old : old[b] \in AppRow
      BY <2>2 DEF AppRow
    <2> HIDE DEF old
    <2>4. old \in Tables(AppRow)
      BY <2>2, <2>3, TablesAre
    <2> QED BY <1>1, <2>1, <2>4 DEF WithApps
  <1> QED BY <1>3, <1>4

(* DBcopy_template_applications keeps the items and triggers.              *)
LEMMA ApplicationsCopied ==
  ASSUME NEW db, NEW H, Whole(db, H), NEW h \in Nat, NEW t \in Templates
  PROVE  LET e == DBcopy_template_applications(db, h, t) IN Whole(e, H) /\ Grows(db, e)
  <1> DEFINE S == Of(db.apps, t)
             D == WithApps(db)
             Add(d, a) == DBadd_application(d, db.apps[a].name, h, a)
             step == [p \in S \X D |-> Add(p[2], p[1])]
             IsFold(g) == g = [s \in SUBSET S |-> IF s = {} THEN db
                                 ELSE Add(g[s \ {CHOOSE x \in s : TRUE}], CHOOSE x \in s : TRUE)]
             fold == CHOOSE g : IsFold(g)
  <1>1. db \in Elements
    BY DEF Whole
  <1>2. IsFiniteSet(S)
    <2>1. IsFiniteSet(DOMAIN db.apps)
      BY <1>1, TablesAre DEF Elements
    <2> QED BY <2>1, FS_Subset DEF Of
  <1>3. \A d \in D, a \in S : Add(d, a) \in D
    <2>1. \A a \in S : a \in Nat /\ db.apps[a].name \in AppNames
      BY <1>1, ElementsAre, HostsBelow DEF Of, AppRow
    <2> QED BY <1>1, <2>1, ApplicationAdded
  <1>4. db \in D
    BY <1>1, ElementsAre DEF WithApps
  <1>5. DBcopy_template_applications(db, h, t) = fold[S]
    BY DEF DBcopy_template_applications, FoldSet, MapThenFoldSet
  <1> HIDE DEF S, D, Add
  <1>6. step \in [S \X D -> D]
    BY <1>3
  <1>7. PICK g \in [SUBSET S -> D] :
           /\ g[{}] = db
           /\ \A s \in SUBSET S : s # {} => g[s] = step[<<OneOf(S)[s], g[s \ {OneOf(S)[s]}]>>]
    <2> DEFINE first == OneOf(S)
    <2>1. \A s \in SUBSET S : s # {} => first[s] \in s
      BY OneOfIn
    <2> HIDE DEF step, first, IsFold, fold
    <2>2. \E g : IsFolded(g, S, D, db, step, first)
      BY <1>2, <1>4, <1>6, <2>1, FoldExists
    <2> QED BY <2>2 DEF first, IsFolded
  <1>8. IsFold(g)
    <2>1. ASSUME NEW s \in SUBSET S, s # {}
          PROVE  step[<<OneOf(S)[s], g[s \ {OneOf(S)[s]}]>>] = Add(g[s \ {CHOOSE x \in s : TRUE}], CHOOSE x \in s : TRUE)
      <3>1. OneOf(S)[s] \in S /\ g[s \ {OneOf(S)[s]}] \in D
        BY <1>7, <2>1, OneOfIn
      <3>2. OneOf(S)[s] = CHOOSE x \in s : TRUE
        BY DEF OneOf
      <3> QED BY <3>1, <3>2
    <2> HIDE DEF step
    <2> QED BY <1>7, <2>1
  <1>9. IsFold(fold)
    <2> HIDE DEF IsFold
    <2> QED BY <1>8
  <1>10. fold[S] \in D
    <2> DEFINE Rel == (SUBSET S) \X D
    <2> HIDE DEF fold
    <2>1. <<{}, fold[{}]>> \in Rel
      BY <1>4, <1>9
    <2>2. ASSUME NEW s \in SUBSET S, s # {}
          PROVE  \E x \in s : <<s \ {x}, fold[s \ {x}]>> \in Rel => <<s, fold[s]>> \in Rel
      <3> DEFINE x == CHOOSE x \in s : TRUE
      <3>1. x \in s /\ x \in S
        BY <2>2
      <3>2. fold[s] = Add(fold[s \ {x}], x)
        BY <1>9, <2>2
      <3> HIDE DEF x
      <3>3. <<s \ {x}, fold[s \ {x}]>> \in Rel => <<s, fold[s]>> \in Rel
        BY <1>3, <3>1, <3>2
      <3> QED BY <3>1, <3>3
    <2> HIDE DEF Rel
    <2>3. <<S, fold[S]>> \in Rel
      BY <1>2, <2>1, <2>2, FoldInduction
    <2> QED BY <2>3 DEF Rel
  <1> DEFINE e == fold[S]
  <1> HIDE DEF fold
  <1>11. e \in Elements /\ e.items = db.items /\ e.triggers = db.triggers
    BY <1>1, <1>10, ElementsAre DEF D, WithApps, Elements
  <1> HIDE DEF e
  <1>12. Grows(db, e)
    BY <1>11 DEF Grows, SameItem, SameTrigger, Whole, OneHost
  <1>13. Shrinks(db, e)
    BY <1>11, <1>12 DEF Shrinks, Grows, Whole, TemplatesKept
  <1> QED BY <1>5, <1>11, <1>12, <1>13, WholeShrinks DEF e

-----------------------------------------------------------------------------
(* Copying items.                                                          *)

(* DBadd_item: then the host has an item with this key, one.               *)
LEMMA ItemAdded ==
  ASSUME NEW d, NEW H \in SUBSET HostIds, Whole(d, H), NEW h \in H,
         NEW key \in ItemKeys, NEW apps \in SUBSET Nat, NEW i \in Nat
  PROVE  LET e == DBadd_item(d, key, h, apps, i) IN
         Whole(e, H) /\ Grows(d, e) /\ SameKey(e, key, h) # {}
  <1> DEFINE same == SameKey(d, key, h)
             row == [hostid |-> h, key |-> key, apps |-> apps, templateid |-> i]
             old == [j \in DOMAIN d.items |->
                       IF j \in same THEN [d.items[j] EXCEPT !.apps = apps, !.templateid = i] ELSE d.items[j]]
             e == DBadd_item(d, key, h, apps, i)
  <1>1. /\ d = [apps |-> d.apps, items |-> d.items, triggers |-> d.triggers]
        /\ d.apps \in Tables(AppRow) /\ d.items \in Tables(ItemRow)
        /\ d.triggers \in Tables(TriggerRow)
    BY ElementsAre DEF Whole
  <1>2. H \cap Templates = {} /\ h \in Nat
    BY HostsBelow
  <1>3. CASE same = {}
    <2>1. e = [d EXCEPT !.items = InsertRow(@, row)]
      BY <1>3 DEF DBadd_item
    <2>2. row \in ItemRow /\ row.hostid = h /\ row.key = key
      BY <1>2 DEF ItemRow
    <2> HIDE DEF row
    <2>3. SameKey(d, row.key, row.hostid) = {}
      BY <1>3, <2>2
    <2> HIDE DEF e, same
    <2> QED BY <1>2, <2>1, <2>2, <2>3, ItemInserted DEF e
  <1>4. CASE same # {}
    <2>1. e = [d EXCEPT !.items = old]
      BY <1>4 DEF DBadd_item
    <2>2. /\ \A j \in DOMAIN d.items : d.items[j] \in ItemRow
          /\ DOMAIN d.items \subseteq ElementIds /\ IsFiniteSet(DOMAIN d.items)
      BY <1>1, TablesAre
    <2>3. /\ old = [j \in DOMAIN old |-> old[j]] /\ DOMAIN old = DOMAIN d.items
          /\ \A j \in DOMAIN old : old[j] \in ItemRow
          /\ \A j \in DOMAIN d.items :
                old[j].hostid = d.items[j].hostid /\ old[j].key = d.items[j].key
      BY <2>2 DEF ItemRow
    <2> HIDE DEF old, e
    <2>4. old \in Tables(ItemRow)
      BY <2>2, <2>3, TablesAre
    <2>5. e = [apps |-> d.apps, items |-> old, triggers |-> d.triggers]
      BY <1>1, <2>1
    <2>6. e \in Elements /\ e.items = old /\ e.triggers = d.triggers
      BY <1>1, <2>4, <2>5 DEF Elements
    <2>7. Grows(d, e)
      BY <2>3, <2>6 DEF Grows, SameItem, SameTrigger, Whole, OneHost
    <2>8. Shrinks(d, e)
      BY <2>3, <2>6, <2>7 DEF Shrinks, Grows, Whole, TemplatesKept
    <2>9. Whole(e, H)
      BY <2>6, <2>8, WholeShrinks
    <2>10. SameKey(e, key, h) = same
      BY <2>3, <2>6 DEF SameKey, Of
    <2> QED BY <1>4, <2>7, <2>9, <2>10 DEF e
  <1> QED BY <1>3, <1>4

(* A key that a host has it keeps while nothing is deleted.                *)
LEMMA KeyKept ==
  ASSUME NEW d, NEW e, Grows(d, e), NEW key, NEW h, SameKey(d, key, h) # {}
  PROVE  SameKey(e, key, h) # {}
  BY DEF Grows, SameItem, SameKey, Of

(* After the items of a template are copied, a host has each of its keys.  *)
LEMMA ItemsCopied ==
  ASSUME NEW db, NEW H \in SUBSET HostIds, Whole(db, H), NEW h \in H, NEW t \in Templates
  PROVE  LET e == DBcopy_template_items(db, h, t) IN
         /\ Whole(e, H) /\ Grows(db, e)
         /\ \A i \in Of(db.items, t) : SameKey(e, db.items[i].key, h) # {}
  <1> DEFINE S == Of(db.items, t)
             D == {d \in Elements : Whole(d, H) /\ Grows(db, d)}
             Add(d, i) == DBadd_item(d, db.items[i].key, h,
                                      DBget_same_applications_for_host(d, db.items[i].apps, h), i)
             step == [p \in S \X D |-> Add(p[2], p[1])]
             IsFold(g) == g = [s \in SUBSET S |-> IF s = {} THEN db
                                 ELSE Add(g[s \ {CHOOSE x \in s : TRUE}], CHOOSE x \in s : TRUE)]
             fold == CHOOSE g : IsFold(g)
             Has(d, i) == SameKey(d, db.items[i].key, h) # {}
  <1>1. db \in Elements
    BY DEF Whole
  <1>2. IsFiniteSet(S)
    <2>1. IsFiniteSet(DOMAIN db.items)
      BY <1>1, TablesAre DEF Elements
    <2> QED BY <2>1, FS_Subset DEF Of
  <1>3. ASSUME NEW d \in D, NEW i \in S
        PROVE  Add(d, i) \in D /\ Grows(d, Add(d, i)) /\ Has(Add(d, i), i)
    <2> DEFINE apps == DBget_same_applications_for_host(d, db.items[i].apps, h)
    <2>1. i \in Nat /\ db.items[i].key \in ItemKeys
      BY <1>1, ElementsAre, HostsBelow DEF Of, ItemRow
    <2>2. apps \in SUBSET Nat
      BY ElementsAre, HostsBelow DEF DBget_same_applications_for_host, Of
    <2>3. Whole(d, H) /\ Grows(db, d)
      OBVIOUS
    <2> HIDE DEF apps
    <2>4. Whole(Add(d, i), H) /\ Grows(d, Add(d, i)) /\ Has(Add(d, i), i)
      <3> HIDE DEF S, D
      <3> QED BY <2>1, <2>2, <2>3, ItemAdded DEF apps
    <2> HIDE DEF Add
    <2> QED BY <2>3, <2>4, KeptTwice DEF Whole
  <1>4. db \in D
    BY <1>1 DEF Grows, SameItem, SameTrigger, Whole, OneHost
  <1>5. DBcopy_template_items(db, h, t) = fold[S]
    BY DEF DBcopy_template_items, FoldSet, MapThenFoldSet
  <1> HIDE DEF S, D, Add, Has
  <1>6. step \in [S \X D -> D]
    BY <1>3
  <1>7. PICK g \in [SUBSET S -> D] :
           /\ g[{}] = db
           /\ \A s \in SUBSET S : s # {} => g[s] = step[<<OneOf(S)[s], g[s \ {OneOf(S)[s]}]>>]
    <2> DEFINE first == OneOf(S)
    <2>1. \A s \in SUBSET S : s # {} => first[s] \in s
      BY OneOfIn
    <2> HIDE DEF step, first, IsFold, fold
    <2>2. \E g : IsFolded(g, S, D, db, step, first)
      BY <1>2, <1>4, <1>6, <2>1, FoldExists
    <2> QED BY <2>2 DEF first, IsFolded
  <1>8. IsFold(g)
    <2>1. ASSUME NEW s \in SUBSET S, s # {}
          PROVE  step[<<OneOf(S)[s], g[s \ {OneOf(S)[s]}]>>] = Add(g[s \ {CHOOSE x \in s : TRUE}], CHOOSE x \in s : TRUE)
      <3>1. OneOf(S)[s] \in S /\ g[s \ {OneOf(S)[s]}] \in D
        BY <1>7, <2>1, OneOfIn
      <3>2. OneOf(S)[s] = CHOOSE x \in s : TRUE
        BY DEF OneOf
      <3> QED BY <3>1, <3>2
    <2> HIDE DEF step
    <2> QED BY <1>7, <2>1
  <1>9. IsFold(fold)
    <2> HIDE DEF IsFold
    <2> QED BY <1>8
  <1>10. fold[S] \in D /\ \A i \in S : Has(fold[S], i)
    <2> DEFINE Rel == {p \in (SUBSET S) \X D : \A i \in p[1] : Has(p[2], i)}
    <2> HIDE DEF fold
    <2>1. <<{}, fold[{}]>> \in Rel
      BY <1>4, <1>9
    <2>2. ASSUME NEW s \in SUBSET S, s # {}
          PROVE  \E x \in s : <<s \ {x}, fold[s \ {x}]>> \in Rel => <<s, fold[s]>> \in Rel
      <3> DEFINE x == CHOOSE x \in s : TRUE
                 d == fold[s \ {x}]
      <3>1. x \in s /\ x \in S
        BY <2>2
      <3>2. fold[s] = Add(d, x)
        BY <1>9, <2>2
      <3> HIDE DEF x
      <3>3. ASSUME <<s \ {x}, d>> \in Rel
            PROVE  <<s, Add(d, x)>> \in Rel
        <4>1. d \in D /\ \A i \in s \ {x} : Has(d, i)
          BY <3>3
        <4> HIDE DEF d
        <4>2. Add(d, x) \in D /\ Grows(d, Add(d, x)) /\ Has(Add(d, x), x)
          BY <1>3, <3>1, <4>1
        <4>3. \A i \in s \ {x} : Has(Add(d, x), i)
          BY <4>1, <4>2, KeyKept DEF Has
        <4> QED BY <4>2, <4>3
      <3>4. <<s \ {x}, fold[s \ {x}]>> \in Rel => <<s, fold[s]>> \in Rel
        BY <3>2, <3>3
      <3> QED BY <3>1, <3>4
    <2> HIDE DEF Rel
    <2>3. <<S, fold[S]>> \in Rel
      BY <1>2, <2>1, <2>2, FoldInduction
    <2> QED BY <2>3 DEF Rel
  <1> HIDE DEF fold
  <1> QED BY <1>5, <1>10 DEF S, D, Has

-----------------------------------------------------------------------------
(* Copying triggers.                                                       *)

(* So with the copy of a trigger.                                          *)
LEMMA CopyKept ==
  ASSUME NEW d, NEW e, NEW H, Whole(d, H), Grows(d, e), NEW h, NEW u \in DOMAIN d.triggers, HasCopy(d, h, u)
  PROVE  HasCopy(e, h, u)
  <1>1. PICK s \in TriggersOf(d, h) : d.triggers[s].templateid = u /\ Expression(d, s) = Expression(d, u)
    BY DEF HasCopy
  <1>2. s \in DOMAIN d.triggers
    BY DEF TriggersOf, TriggersWith
  <1>3. SameTrigger(d, e, s) /\ SameTrigger(d, e, u)
    BY <1>2 DEF Grows
  <1>4. u # 0
    BY ElementsAre, HostsBelow DEF Whole
  <1>5. /\ Expression(e, s) = Expression(d, s) /\ Expression(e, u) = Expression(d, u)
        /\ s \in TriggersOf(e, h)
    BY <1>2, <1>3, TriggerKept
  <1> QED BY <1>1, <1>3, <1>4, <1>5 DEF HasCopy, SameTrigger

Updated(d, s, t, deps, priority) ==
    [d EXCEPT !.triggers[s] = [@ EXCEPT !.templateid = t, !.deps = deps, !.priority = priority]]

(* DBupdate_trigger: a trigger of the host's own becomes the copy.         *)
LEMMA TriggerUpdated ==
  ASSUME NEW d, NEW H, Whole(d, H), NEW h, NEW t \in DOMAIN d.triggers, NEW s \in Candidates(d, h),
         Expression(d, s) = Expression(d, t), NEW deps \in SUBSET Nat, NEW priority \in Nat,
         NEW e, e = Updated(d, s, t, deps, priority)
  PROVE  Whole(e, H) /\ Grows(d, e) /\ HasCopy(e, h, t)
  <1> DEFINE new == [d.triggers EXCEPT ![s] =
                       [@ EXCEPT !.templateid = t, !.deps = deps, !.priority = priority]]
  <1>1. /\ d = [apps |-> d.apps, items |-> d.items, triggers |-> d.triggers]
        /\ d.apps \in Tables(AppRow) /\ d.items \in Tables(ItemRow)
        /\ d.triggers \in Tables(TriggerRow)
    BY ElementsAre DEF Whole
  <1>2. /\ \A u \in DOMAIN d.triggers : d.triggers[u] \in TriggerRow
        /\ DOMAIN d.triggers \subseteq ElementIds /\ IsFiniteSet(DOMAIN d.triggers)
    BY <1>1, TablesAre
  <1>3. s \in DOMAIN d.triggers /\ s \in TriggersOf(d, h) /\ d.triggers[s].templateid = 0
    BY DEF Candidates, TriggersOf, TriggersWith
  <1>4. t \in Nat
    BY <1>2, HostsBelow
  <1>5. /\ DOMAIN new = DOMAIN d.triggers /\ new = [u \in DOMAIN new |-> new[u]]
        /\ \A u \in DOMAIN d.triggers \ {s} : new[u] = d.triggers[u]
        /\ new[s].functions = d.triggers[s].functions /\ new[s].templateid = t
        /\ new[s] \in TriggerRow
    BY <1>2, <1>3, <1>4 DEF TriggerRow
  <1>6. e = [d EXCEPT !.triggers = new]
    BY DEF Updated
  <1> HIDE DEF new
  <1>7. new \in Tables(TriggerRow)
    <2>1. \A u \in DOMAIN new : new[u] \in TriggerRow
      BY <1>2, <1>5
    <2> QED BY <1>2, <1>5, <2>1, TablesAre
  <1>8. e = [apps |-> d.apps, items |-> d.items, triggers |-> new]
    BY <1>1, <1>6
  <1>9. e \in Elements /\ e.items = d.items /\ e.triggers = new
    BY <1>1, <1>7, <1>8 DEF Elements
  <1>10. Grows(d, e)
    <2>1. \A u \in DOMAIN d.triggers :
             /\ new[u].functions = d.triggers[u].functions
             /\ d.triggers[u].templateid # 0 => new[u].templateid = d.triggers[u].templateid
      BY <1>3, <1>5
    <2> QED BY <1>5, <1>9, <2>1 DEF Grows, SameItem, SameTrigger, Whole, OneHost
  <1>11. Shrinks(d, e)
    BY <1>5, <1>9, <1>10 DEF Shrinks, Grows, Whole, TemplatesKept
  <1>12. Whole(e, H)
    BY <1>9, <1>11, WholeShrinks
  <1>13. SameTrigger(d, e, s) /\ SameTrigger(d, e, t)
    BY <1>3, <1>10 DEF Grows
  <1>14. /\ Expression(e, s) = Expression(d, s) /\ Expression(e, t) = Expression(d, t)
         /\ s \in TriggersOf(e, h)
    BY <1>3, <1>13, TriggerKept
  <1>15. HasCopy(e, h, t)
    BY <1>5, <1>9, <1>14 DEF HasCopy
  <1> QED BY <1>10, <1>12, <1>15

(* DBcopy_trigger_to_host: then the host has a copy of the trigger.        *)
LEMMA TriggerCopied ==
  ASSUME NEW d, NEW H \in SUBSET HostIds, Whole(d, H), NEW h \in H, NEW g \in Templates,
         HasKeys(d, h, g), NEW t \in TriggersOf(d, g)
  PROVE  LET e == DBcopy_trigger_to_host(d, t, h) IN
         Whole(e, H) /\ Grows(d, e) /\ HasCopy(e, h, t)
  <1> DEFINE trigger == d.triggers[t]
             deps == DBreplace_template_dependences(d, trigger.deps, h)
             same == {s \in Candidates(d, h) : Expression(d, s) = Expression(d, t)}
             MyItem(i) == CHOOSE j \in Of(d.items, h) : d.items[j].key = d.items[i].key
             row == [templateid |-> t, deps |-> deps, priority |-> trigger.priority,
                     status |-> trigger.status,
                     functions |-> {[f EXCEPT !.itemid = MyItem(f.itemid)] : f \in trigger.functions}]
             e == DBcopy_trigger_to_host(d, t, h)
  <1>1. /\ d \in Elements /\ t \in DOMAIN d.triggers
        /\ DOMAIN d.triggers \subseteq ElementIds /\ DOMAIN d.items \subseteq ElementIds
        /\ \A s \in DOMAIN d.triggers : d.triggers[s] \in TriggerRow
    BY ElementsAre DEF Whole, TriggersOf, TriggersWith
  <1>2. deps \in SUBSET Nat
    BY <1>1, HostsBelow DEF DBreplace_template_dependences, TriggersOf, TriggersWith
  <1>3. CASE same # {}
    <2> DEFINE s == Min(same)
    <2>1. same \in SUBSET Nat
      BY <1>1, HostsBelow DEF Candidates, TriggersOf, TriggersWith
    <2>2. s \in same
      <3> HIDE DEF same
      <3>1. \E x \in same : \A y \in same : x <= y
        BY <1>3, <2>1, LeastId
      <3> QED BY <3>1 DEF Min
    <2>3. s \in Candidates(d, h) /\ Expression(d, s) = Expression(d, t)
      BY <2>2
    <2>4. d.triggers[s].status \in Nat
      BY <1>1, <2>3 DEF Candidates, TriggersOf, TriggersWith, TriggerRow
    <2>5. e = Updated(d, s, t, deps, d.triggers[s].status)
      BY <1>3 DEF DBcopy_trigger_to_host, Updated
    <2> HIDE DEF deps, s, e
    <2>6. Whole(e, H) /\ Grows(d, e) /\ HasCopy(e, h, t)
      BY <1>1, <1>2, <2>3, <2>4, <2>5, TriggerUpdated
    <2> QED BY <2>6 DEF e
  <1>4. CASE same = {}
    <2>1. e = [d EXCEPT !.triggers = InsertRow(@, row)]
      BY <1>4 DEF DBcopy_trigger_to_host
    <2>2. /\ trigger.functions # {} /\ trigger \in TriggerRow
          /\ \A f \in trigger.functions : f.itemid \in Of(d.items, g)
      BY <1>1 DEF Whole, OneHost, TriggersOf, TriggersWith, Of
    <2>3. \A i \in Of(d.items, g) :
             MyItem(i) \in Of(d.items, h) /\ d.items[MyItem(i)].key = d.items[i].key
      BY DEF HasKeys, SameKey
    <2> HIDE DEF MyItem, deps, e
    <2>4. \A f \in row.functions : f.itemid \in Of(d.items, h)
      BY <2>2, <2>3 DEF TriggerRow
    <2>5. row.functions # {}
      BY <2>2
    <2>6. row \in TriggerRow
      <3>1. \A f \in trigger.functions :
               [f EXCEPT !.itemid = MyItem(f.itemid)] \in [itemid : Nat, function : FunctionNames]
        BY <1>1, <2>2, <2>3, HostsBelow DEF Of, TriggerRow
      <3> QED BY <1>1, <1>2, <2>2, <3>1, HostsBelow DEF TriggerRow
    <2>7. h \notin Templates
      BY HostsBelow
    <2>8. row.templateid = t
      OBVIOUS
    <2>9. {[key |-> d.items[f.itemid].key, function |-> f.function] : f \in row.functions} = Expression(d, t)
      <3> DEFINE Own(f) == [f EXCEPT !.itemid = MyItem(f.itemid)]
                 Term(f) == [key |-> d.items[f.itemid].key, function |-> f.function]
      <3>1. \A f \in trigger.functions :
               Own(f).function = f.function /\ d.items[Own(f).itemid].key = d.items[f.itemid].key
        BY <2>2, <2>3 DEF TriggerRow
      <3>2. \A f \in trigger.functions : Term(Own(f)) = Term(f)
        <4> HIDE DEF Own
        <4> QED BY <3>1
      <3>3. row.functions = {Own(f) : f \in trigger.functions}
        OBVIOUS
      <3>4. Expression(d, t) = {Term(f) : f \in trigger.functions}
        BY DEF Expression
      <3> HIDE DEF Own, Term, row, trigger
      <3>5. {Term(f) : f \in row.functions} = Expression(d, t)
        BY <3>2, <3>3, <3>4
      <3> QED BY <3>5 DEF Term
    <2> HIDE DEF row
    <2>10. Whole(e, H) /\ Grows(d, e) /\ e.items = d.items /\ \E s \in TriggersOf(e, h) : e.triggers[s] = row
      BY <2>1, <2>4, <2>5, <2>6, <2>7, TriggerInserted
    <2>11. PICK s \in TriggersOf(e, h) : e.triggers[s] = row
      BY <2>10
    <2>12. Expression(e, s) = Expression(d, t)
      BY <2>9, <2>10, <2>11 DEF Expression
    <2>13. Expression(e, t) = Expression(d, t)
      BY <1>1, <2>10, TriggerKept DEF Grows
    <2>14. HasCopy(e, h, t)
      BY <2>8, <2>11, <2>12, <2>13 DEF HasCopy
    <2> QED BY <2>10, <2>14 DEF e
  <1> QED BY <1>3, <1>4

(* So with the keys of a template.                                         *)
LEMMA KeysKept ==
  ASSUME NEW d, NEW e, NEW H, Whole(d, H), Whole(e, H), Grows(d, e), NEW h, NEW g \in Templates,
         HasKeys(d, h, g)
  PROVE  HasKeys(e, h, g)
  <1> SUFFICES ASSUME NEW i \in Of(e.items, g) PROVE SameKey(e, e.items[i].key, h) # {}
    BY DEF HasKeys
  <1>1. i \in Of(d.items, g)
    BY OfTemplate
  <1>2. e.items[i].key = d.items[i].key
    BY <1>1 DEF Grows, SameItem, Of
  <1>3. SameKey(d, d.items[i].key, h) # {}
    BY <1>1 DEF HasKeys
  <1> QED BY <1>2, <1>3, KeyKept

(* After the triggers of a template are copied, a host has one copy of     *)
(* each at least, in whatever order they were selected.                    *)
LEMMA TriggersCopied ==
  ASSUME NEW db, NEW H \in SUBSET HostIds, Whole(db, H), NEW h \in H, NEW g \in Templates,
         HasKeys(db, h, g), NEW order \in SetToSeqs(TriggersOf(db, g))
  PROVE  LET e == DBcopy_template_triggers(db, h, order) IN
         Whole(e, H) /\ Grows(db, e) /\ \A u \in TriggersOf(db, g) : HasCopy(e, h, u)
  <1> DEFINE S == DOMAIN order
             D == {d \in Elements : Whole(d, H) /\ Grows(db, d)}
             Add(d, i) == DBcopy_trigger_to_host(d, order[i], h)
             step == [p \in S \X D |-> Add(p[2], p[1])]
             IsFold(f) == f = [s \in SUBSET S |-> IF s = {} THEN db
                                 ELSE Add(f[s \ {Max(s)}], Max(s))]
             fold == CHOOSE f : IsFold(f)
             Has(d, i) == HasCopy(d, h, order[i])
             first == [s \in SUBSET S |-> Max(s)]
  <1>1. db \in Elements
    BY DEF Whole
  <1>2. /\ order \in [S -> TriggersOf(db, g)] /\ S \in SUBSET Nat /\ IsFiniteSet(S)
        /\ \A u \in TriggersOf(db, g) : \E i \in S : order[i] = u
    <2>1. IsFiniteSet(DOMAIN db.triggers)
      BY <1>1, TablesAre DEF Elements
    <2>2. IsFiniteSet(TriggersOf(db, g))
      BY <2>1, FS_Subset DEF TriggersOf, TriggersWith
    <2> QED BY <2>2, InOrder
  <1>3. ASSUME NEW d \in D, NEW i \in S
        PROVE  Add(d, i) \in D /\ Grows(d, Add(d, i)) /\ Has(Add(d, i), i)
    <2>1. Whole(d, H) /\ Grows(db, d)
      OBVIOUS
    <2>2. HasKeys(d, h, g)
      BY <2>1, KeysKept
    <2>3. order[i] \in TriggersOf(d, g)
      BY <1>2, <2>1, OfTemplate
    <2>4. Whole(Add(d, i), H) /\ Grows(d, Add(d, i)) /\ Has(Add(d, i), i)
      <3> DEFINE t == order[i]
      <3> HIDE DEF S, D, t
      <3>1. LET e == DBcopy_trigger_to_host(d, t, h) IN Whole(e, H) /\ Grows(d, e) /\ HasCopy(e, h, t)
        BY <2>1, <2>2, <2>3, TriggerCopied DEF t
      <3> QED BY <3>1 DEF t
    <2> HIDE DEF Add
    <2> QED BY <2>1, <2>4, KeptTwice DEF Whole
  <1>4. db \in D
    BY <1>1 DEF Grows, SameItem, SameTrigger, Whole, OneHost
  <1>5. DBcopy_template_triggers(db, h, order) = fold[S]
    BY DEF DBcopy_template_triggers, FoldLeft, MapThenFoldSet
  <1>6. \A d \in D, i \in S : i \in S /\ order[i] \in DOMAIN d.triggers
    BY <1>2 DEF Grows, SameTrigger, TriggersOf, TriggersWith
  <1>7. \A s \in SUBSET S : s # {} => Max(s) \in s
    BY <1>2, FS_Subset, GreatestId
  <1> HIDE DEF S, D, Add, Has
  <1>8. step \in [S \X D -> D]
    BY <1>3
  <1>9. PICK f : IsFolded(f, S, D, db, step, first)
    <2>1. \A s \in SUBSET S : s # {} => first[s] \in s
      BY <1>7
    <2> HIDE DEF step, first, IsFold, fold
    <2> QED BY <1>2, <1>4, <1>8, <2>1, FoldExists
  <1>10. IsFold(f)
    <2>1. ASSUME NEW s \in SUBSET S, s # {}
          PROVE  step[<<first[s], f[s \ {first[s]}]>>] = Add(f[s \ {Max(s)}], Max(s))
      <3>1. first[s] = Max(s) /\ Max(s) \in S
        BY <1>7, <2>1
      <3>2. f[s \ {first[s]}] \in D
        BY <1>9, <3>1 DEF IsFolded
      <3> QED BY <3>1, <3>2
    <2> HIDE DEF step, first
    <2> QED BY <1>9, <2>1 DEF IsFolded
  <1>11. IsFold(fold)
    <2> HIDE DEF IsFold
    <2> QED BY <1>10
  <1>12. fold[S] \in D /\ \A i \in S : Has(fold[S], i)
    <2> DEFINE Rel == {p \in (SUBSET S) \X D : \A i \in p[1] : Has(p[2], i)}
    <2> HIDE DEF fold
    <2>1. <<{}, fold[{}]>> \in Rel
      BY <1>4, <1>11
    <2>2. ASSUME NEW s \in SUBSET S, s # {}
          PROVE  \E x \in s : <<s \ {x}, fold[s \ {x}]>> \in Rel => <<s, fold[s]>> \in Rel
      <3> DEFINE x == Max(s)
                 d == fold[s \ {x}]
      <3>1. x \in s /\ x \in S
        BY <1>7, <2>2
      <3>2. fold[s] = Add(d, x)
        BY <1>11, <2>2
      <3> HIDE DEF x
      <3>3. ASSUME <<s \ {x}, d>> \in Rel
            PROVE  <<s, Add(d, x)>> \in Rel
        <4>1. d \in D /\ \A i \in s \ {x} : Has(d, i)
          BY <3>3
        <4> HIDE DEF d
        <4>2. Add(d, x) \in D /\ Grows(d, Add(d, x)) /\ Has(Add(d, x), x)
          BY <1>3, <3>1, <4>1
        <4>3. ASSUME NEW i \in s \ {x} PROVE Has(Add(d, x), i)
          <5>1. order[i] \in DOMAIN d.triggers /\ HasCopy(d, h, order[i])
            BY <1>6, <4>1 DEF Has
          <5>2. Whole(d, H)
            BY <4>1 DEF D
          <5> DEFINE u == order[i]
                     e == Add(d, x)
          <5> HIDE DEF u, e
          <5>3. HasCopy(e, h, u)
            BY <4>2, <5>1, <5>2, CopyKept DEF u, e
          <5> QED BY <5>3 DEF Has, u, e
        <4> QED BY <4>2, <4>3
      <3>4. <<s \ {x}, fold[s \ {x}]>> \in Rel => <<s, fold[s]>> \in Rel
        BY <3>2, <3>3
      <3> QED BY <3>1, <3>4
    <2> HIDE DEF Rel
    <2>3. <<S, fold[S]>> \in Rel
      BY <1>2, <2>1, <2>2, FoldInduction
    <2> QED BY <2>3 DEF Rel
  <1> HIDE DEF fold
  <1> QED BY <1>2, <1>5, <1>12 DEF S, D, Has

-----------------------------------------------------------------------------
(* Linking with a template.                                                *)

(* Linking a host keeps what other links have brought, and brings all that *)
(* the template has.                                                       *)
LEMMA HostSynced ==
  ASSUME NEW db, NEW H \in SUBSET HostIds, Whole(db, H), NEW h \in H, NEW t \in Templates,
         NEW order \in SetToSeqs(TriggersOf(db, t)),
         NEW e \in DBsync_host_with_template(db, h, t, order)
  PROVE  /\ Whole(e, H)
         /\ Linked(e, h, t)
         /\ \A k \in H, g \in Templates :
               Linked(db, k, g) /\ <<k, g>> # <<h, t>> => Linked(e, k, g)
  <1>1. PICK db0 \in DBdelete_template_elements(db, h, t) :
           e = DBcopy_template_elements(db0, h, t, order)
    BY DEF DBsync_host_with_template
  <1> DEFINE db1 == DBcopy_template_applications(db0, h, t)
             db2 == DBcopy_template_items(db1, h, t)
  <1>2. e = DBcopy_template_triggers(db2, h, order)
    BY <1>1 DEF DBcopy_template_elements
  <1>3. h \in HostIds /\ h \in Nat /\ \A k \in H : k \notin Templates
    BY HostsBelow
  <1>4. /\ Whole(db0, H)
        /\ \A i \in DOMAIN db.items : SameItem(db, db0, i)
        /\ \A s \in DOMAIN db.triggers \ Copies(db, h, t) : SameTrigger(db, db0, s)
    BY <1>3, TemplateElementsDeleted
  <1>5. Whole(db1, H) /\ Grows(db0, db1)
    BY <1>3, <1>4, ApplicationsCopied
  <1> HIDE DEF db1
  <1>6. /\ Whole(db2, H) /\ Grows(db1, db2)
        /\ \A i \in Of(db1.items, t) : SameKey(db2, db1.items[i].key, h) # {}
    BY <1>5, ItemsCopied
  <1> HIDE DEF db2
  <1>7. HasKeys(db2, h, t)
    <2> SUFFICES ASSUME NEW i \in Of(db2.items, t) PROVE SameKey(db2, db2.items[i].key, h) # {}
      BY DEF HasKeys
    <2>1. i \in Of(db1.items, t)
      BY <1>5, <1>6, OfTemplate
    <2>2. db2.items[i].key = db1.items[i].key
      BY <1>6, <2>1 DEF Grows, SameItem, Of
    <2> QED BY <1>6, <2>1, <2>2
  <1>8. TriggersOf(db2, t) = TriggersOf(db, t)
    BY <1>6, OfTemplate
  <1>9. /\ Whole(e, H) /\ Grows(db2, e)
        /\ \A u \in TriggersOf(db2, t) : HasCopy(e, h, u)
    <2>1. order \in SetToSeqs(TriggersOf(db2, t))
      BY <1>8
    <2> QED BY <1>2, <1>6, <1>7, <2>1, TriggersCopied
  <1>10. Linked(e, h, t)
    <2>1. HasKeys(e, h, t)
      BY <1>6, <1>7, <1>9, KeysKept
    <2>2. TriggersOf(e, t) = TriggersOf(db2, t)
      BY <1>6, <1>9, OfTemplate
    <2> QED BY <1>9, <2>1, <2>2 DEF Linked
  <1>11. Grows(db0, e)
    BY <1>5, <1>6, <1>9, KeptTwice
  <1>12. ASSUME NEW k \in H, NEW g \in Templates, Linked(db, k, g), <<k, g>> # <<h, t>>
         PROVE  Linked(e, k, g)
    <2>1. \A i \in Of(db.items, k) : SameItem(db, e, i)
      BY <1>4, <1>11, KeptTwice DEF Grows, SameItem, Of
    <2>2. ASSUME NEW s \in TriggersOf(db, k), db.triggers[s].templateid \in TriggersOf(db, g)
          PROVE  SameTrigger(db, e, s)
      <3>1. s \in DOMAIN db.triggers
        BY DEF TriggersOf, TriggersWith
      <3>2. s \notin Copies(db, h, t)
        BY <1>12, <2>2, OtherCopies
      <3>3. SameTrigger(db, db0, s) /\ SameTrigger(db0, e, s)
        BY <1>4, <1>11, <3>1, <3>2 DEF Grows, SameTrigger
      <3> QED BY <3>3, KeptTwice
    <2> QED BY <1>9, <1>12, <2>1, <2>2, LinkKept
  <1> QED BY <1>9, <1>10, <1>12

-----------------------------------------------------------------------------
(* The invariant.                                                          *)

(* More hosts: the tables are as whole as before.                          *)
LEMMA WholeGrows ==
  ASSUME NEW db, NEW H, NEW G, Whole(db, H), H \subseteq G
  PROVE  Whole(db, G)
  BY DEF Whole, ItemsOfHosts

(* The initial state satisfies the invariant.                              *)
LEMMA InitTemplatesInv == TemplatesInit => TemplatesInv
  <1> SUFFICES ASSUME TemplatesInit PROVE TemplatesInv
    OBVIOUS
  <1>1. DOMAIN hosts = {} /\ links = {}
    BY DEF TemplatesInit
  <1>2. /\ elements = [apps |-> TemplateApps, items |-> TemplateItems, triggers |-> TemplateTriggers]
        /\ elements.items = TemplateItems /\ elements.triggers = TemplateTriggers
    BY DEF TemplatesInit
  <1>3. elements \in Elements
    <2>1. /\ TemplateApps \in Tables(AppRow) /\ TemplateItems \in Tables(ItemRow)
          /\ TemplateTriggers \in Tables(TriggerRow)
      BY TemplatesAssumption DEF TemplatesAssumption, Tables
    <2> QED BY <1>2, <2>1 DEF Elements
  <1>4. TemplatesKept(elements)
    BY <1>2, TemplatesAssumption DEF TemplatesKept, TemplatesAssumption
  <1>5. UniqueKeys(elements) /\ ItemsOfHosts(elements, DOMAIN hosts) /\ OneHost(elements)
    BY <1>2, TemplatesAssumption DEF UniqueKeys, ItemsOfHosts, OneHost, TemplatesAssumption
  <1> QED BY <1>1, <1>3, <1>4, <1>5 DEF TemplatesInv, Whole

(* What deletes nothing of any host that is linked leaves it complete.     *)
LEMMA LinksKept ==
  ASSUME NEW db, NEW e, NEW H, NEW G, Whole(db, H), Whole(e, G), Grows(db, e),
         NEW h, NEW t \in Templates, Linked(db, h, t)
  PROVE  Linked(e, h, t)
  <1>1. \A i \in Of(db.items, h) : SameItem(db, e, i)
    BY DEF Grows, Of
  <1>2. \A s \in TriggersOf(db, h) :
           db.triggers[s].templateid \in TriggersOf(db, t) => SameTrigger(db, e, s)
    BY DEF Grows, TriggersOf, TriggersWith
  <1> QED BY <1>1, <1>2, LinkKept

(* add_discovered_host keeps the invariant.                                *)
LEMMA HostAddKeepsInv ==
  ASSUME TemplatesInv, NEW ip, op_host_add(ip) PROVE TemplatesInv'
  <1> DEFINE h == add_discovered_host(ip)
  <1> USE DEF TemplatesInv
  <1>1. h \in HostIds /\ hosts' = HostsWith(h, ip) /\ links' = links /\ elements' = elements
    BY DEF op_host_add
  <1> HIDE DEF h
  <1>2. DOMAIN hosts' = DOMAIN hosts \cup {h}
    BY <1>1 DEF HostsWith
  <1>3. Whole(elements, DOMAIN hosts')
    <2> DEFINE H == DOMAIN hosts
               G == DOMAIN hosts'
    <2>1. H \subseteq G /\ Whole(elements, H)
      BY <1>2
    <2> HIDE DEF H, G
    <2>2. Whole(elements, G)
      BY <2>1, WholeGrows
    <2> QED BY <2>2 DEF G
  <1>4. DOMAIN hosts' \subseteq HostIds /\ links' \subseteq (DOMAIN hosts') \X Templates
    BY <1>1, <1>2
  <1> QED BY <1>1, <1>3, <1>4

(* Linking: the host is complete, and the other links are as they were.    *)
LEMMA TemplateAddKeepsInv ==
  ASSUME TemplatesInv, NEW ip, NEW t \in Templates, op_template_add(ip, t) PROVE TemplatesInv'
  <1> DEFINE h == add_discovered_host(ip)
             H == DOMAIN hosts
             G == DOMAIN hosts'
             e == elements'
  <1>1. /\ h \in HostIds /\ hosts' = HostsWith(h, ip) /\ <<h, t>> \notin links
        /\ links' = links \cup {<<h, t>>}
    BY DEF op_template_add
  <1>2. PICK order \in SetToSeqs(TriggersOf(elements, t)) :
           e \in DBsync_host_with_template(elements, h, t, order)
    BY DEF op_template_add
  <1> HIDE DEF h
  <1>3. G = H \cup {h}
    BY <1>1 DEF HostsWith
  <1>4. H \subseteq HostIds /\ links \subseteq H \X Templates /\ Whole(elements, H)
    BY DEF TemplatesInv
  <1> HIDE DEF H, G, e
  <1>5. G \in SUBSET HostIds /\ h \in G /\ Whole(elements, G)
    BY <1>1, <1>3, <1>4, WholeGrows
  <1>6. /\ Whole(e, G) /\ Linked(e, h, t)
        /\ \A k \in G, g \in Templates :
              Linked(elements, k, g) /\ <<k, g>> # <<h, t>> => Linked(e, k, g)
    BY <1>2, <1>5, HostSynced
  <1>7. ASSUME NEW l \in links' PROVE Linked(e, l[1], l[2])
    <2>1. CASE l \in links
      <3>1. /\ l[1] \in G /\ l[2] \in Templates /\ l = <<l[1], l[2]>>
            /\ Linked(elements, l[1], l[2])
        BY <1>3, <1>4, <2>1 DEF TemplatesInv
      <3>2. <<l[1], l[2]>> # <<h, t>>
        BY <1>1, <2>1, <3>1
      <3> QED BY <1>6, <3>1, <3>2
    <2>2. CASE l = <<h, t>>
      BY <1>6, <2>2
    <2> QED BY <1>1, <1>7, <2>1, <2>2
  <1>8. links' \subseteq G \X Templates
    BY <1>1, <1>3, <1>4
  <1>9. /\ DOMAIN hosts' \subseteq HostIds /\ links' \subseteq (DOMAIN hosts') \X Templates
        /\ Whole(elements', DOMAIN hosts')
    BY <1>5, <1>6, <1>8 DEF G, e
  <1>10. \A l \in links' : Linked(elements', l[1], l[2])
    BY <1>7 DEF e
  <1> QED BY <1>9, <1>10 DEF TemplatesInv

(* Unlinking: only copies of this template's triggers go.                  *)
LEMMA TemplateDelKeepsInv ==
  ASSUME TemplatesInv, NEW ip, NEW t \in Templates, op_template_del(ip, t) PROVE TemplatesInv'
  <1> DEFINE H == DOMAIN hosts
             e == elements'
  <1>1. PICK h \in HostWith(ip) :
           /\ links' = links \ {<<h, t>>} /\ hosts' = hosts
           /\ e \in DBdelete_template_elements(elements, h, t)
    BY DEF op_template_del
  <1>2. H \subseteq HostIds /\ links \subseteq H \X Templates /\ Whole(elements, H) /\ h \in H
    BY DEF TemplatesInv, HostWith
  <1> HIDE DEF H, e
  <1>3. /\ Whole(e, H)
        /\ \A i \in DOMAIN elements.items : SameItem(elements, e, i)
        /\ \A s \in DOMAIN elements.triggers \ Copies(elements, h, t) : SameTrigger(elements, e, s)
    <2>1. h \in HostIds
      BY <1>2
    <2> QED BY <1>1, <1>2, <2>1, TemplateElementsDeleted
  <1>4. ASSUME NEW l \in links' PROVE Linked(e, l[1], l[2])
    <2> DEFINE k == l[1]
               g == l[2]
    <2>1. k \in H /\ g \in Templates /\ Linked(elements, k, g) /\ <<k, g>> # <<h, t>>
      BY <1>1, <1>2, <1>4 DEF TemplatesInv
    <2> HIDE DEF k, g
    <2>2. \A i \in Of(elements.items, k) : SameItem(elements, e, i)
      BY <1>3 DEF Of
    <2>3. ASSUME NEW s \in TriggersOf(elements, k),
                 elements.triggers[s].templateid \in TriggersOf(elements, g)
          PROVE  SameTrigger(elements, e, s)
      <3>1. s \in DOMAIN elements.triggers
        BY DEF TriggersOf, TriggersWith
      <3>2. s \notin Copies(elements, h, t)
        BY <1>2, <2>1, <2>3, OtherCopies
      <3> QED BY <1>3, <3>1, <3>2
    <2>4. Linked(e, k, g)
      BY <1>2, <1>3, <2>1, <2>2, <2>3, LinkKept
    <2> QED BY <2>4 DEF k, g
  <1>5. /\ DOMAIN hosts' \subseteq HostIds /\ links' \subseteq (DOMAIN hosts') \X Templates
        /\ Whole(elements', DOMAIN hosts')
    BY <1>1, <1>2, <1>3 DEF H, e
  <1>6. \A l \in links' : Linked(elements', l[1], l[2])
    BY <1>4 DEF e
  <1> QED BY <1>5, <1>6 DEF TemplatesInv

(* DBdelete_host: what goes is of this host.                               *)
LEMMA HostDelKeepsInv ==
  ASSUME TemplatesInv, NEW ip, op_host_del(ip) PROVE TemplatesInv'
  <1> DEFINE H == DOMAIN hosts
             e == elements'
  <1>1. PICK h \in HostWith(ip) :
           /\ links' = {l \in links : l[1] # h} /\ hosts' = [hosts EXCEPT ![h] = Deleted]
           /\ e \in DBdelete_items(elements, Of(elements.items, h))
    BY DEF op_host_del
  <1>2. /\ H \subseteq HostIds /\ links \subseteq H \X Templates /\ Whole(elements, H) /\ h \in H
        /\ DOMAIN hosts' = H
    BY <1>1 DEF TemplatesInv, HostWith
  <1>3. h \notin Templates
    BY <1>2, HostsBelow
  <1> HIDE DEF H, e
  <1> DEFINE I == Of(elements.items, h)
  <1>4. I \cap DOMAIN TemplateItems = {}
    BY <1>2, <1>3, HostTriggers
  <1>5. \A g : TriggersOf(elements, h) \cap TriggersOf(elements, g) # {} => g = h
    BY <1>2, <1>3, HostTriggers
  <1>6. TriggersWith(elements, I) = TriggersOf(elements, h)
    BY DEF TriggersOf
  <1>7. /\ Whole(e, H)
        /\ \A i \in DOMAIN elements.items \ I : SameItem(elements, e, i)
        /\ \A s \in DOMAIN elements.triggers \ TriggersWith(elements, I) : SameTrigger(elements, e, s)
    <2>1. e \in DBdelete_items(elements, I)
      BY <1>1
    <2>2. IsFiniteSet(I)
      <3>1. IsFiniteSet(DOMAIN elements.items)
        BY <1>2, ElementsAre, TablesAre DEF Whole
      <3> QED BY <3>1, FS_Subset DEF Of
    <2> HIDE DEF I
    <2> QED BY <1>2, <1>4, <2>1, <2>2, ItemsDeleted
  <1>8. ASSUME NEW l \in links' PROVE Linked(e, l[1], l[2])
    <2> DEFINE k == l[1]
               g == l[2]
    <2>1. k \in H /\ g \in Templates /\ Linked(elements, k, g) /\ k # h
      BY <1>1, <1>2, <1>8 DEF TemplatesInv
    <2> HIDE DEF k, g
    <2>2. \A i \in Of(elements.items, k) : SameItem(elements, e, i)
      BY <1>7, <2>1 DEF Of
    <2>3. \A s \in TriggersOf(elements, k) : SameTrigger(elements, e, s)
      <3>1. \A s \in TriggersOf(elements, k) : s \in DOMAIN elements.triggers
        BY DEF TriggersOf, TriggersWith
      <3> QED BY <1>5, <1>6, <1>7, <2>1, <3>1
    <2>4. Linked(e, k, g)
      BY <1>2, <1>7, <2>1, <2>2, <2>3, LinkKept
    <2> QED BY <2>4 DEF k, g
  <1>9. /\ DOMAIN hosts' \subseteq HostIds /\ links' \subseteq (DOMAIN hosts') \X Templates
        /\ Whole(elements', DOMAIN hosts')
    BY <1>1, <1>2, <1>7 DEF H, e
  <1>10. \A l \in links' : Linked(elements', l[1], l[2])
    BY <1>8 DEF e
  <1> QED BY <1>9, <1>10 DEF TemplatesInv

(* A user's item has a key that the host did not have.                     *)
LEMMA AddItemKeepsInv ==
  ASSUME TemplatesInv, NEW h \in DOMAIN hosts, NEW key \in Keys, AddItem(h, key) PROVE TemplatesInv'
  <1> DEFINE row == [hostid |-> h, key |-> key, apps |-> {}, templateid |-> 0]
             H == DOMAIN hosts
             e == elements'
  <1>1. /\ SameKey(elements, key, h) = {} /\ hosts' = hosts /\ links' = links
        /\ e = [elements EXCEPT !.items = InsertRow(@, row)]
    BY DEF AddItem
  <1>2. H \subseteq HostIds /\ links \subseteq H \X Templates /\ Whole(elements, H) /\ h \in H
    BY DEF TemplatesInv
  <1> HIDE DEF H, e
  <1>3. H \cap Templates = {} /\ h \in Nat
    BY <1>2, HostsBelow
  <1>4. row \in ItemRow /\ row.hostid = h /\ row.key = key
    BY <1>3 DEF ItemRow, ItemKeys
  <1> HIDE DEF row
  <1>5. Whole(e, H) /\ Grows(elements, e)
    BY <1>1, <1>2, <1>3, <1>4, ItemInserted
  <1>6. ASSUME NEW l \in links PROVE Linked(e, l[1], l[2])
    <2>1. l[2] \in Templates /\ Linked(elements, l[1], l[2])
      BY <1>2 DEF TemplatesInv
    <2> QED BY <1>2, <1>5, <2>1, LinksKept
  <1>7. /\ DOMAIN hosts' \subseteq HostIds /\ links' \subseteq (DOMAIN hosts') \X Templates
        /\ Whole(elements', DOMAIN hosts')
    BY <1>1, <1>2, <1>5 DEF H, e
  <1> QED BY <1>1, <1>6, <1>7 DEF TemplatesInv, e

(* A user's trigger has a function of one item.                            *)
LEMMA AddTriggerKeepsInv ==
  ASSUME TemplatesInv, NEW i \in DOMAIN elements.items, elements.items[i].hostid \notin Templates,
         AddTrigger(i)
  PROVE  TemplatesInv'
  <1> DEFINE row == [templateid |-> 0, deps |-> {}, priority |-> 1, status |-> 0,
                     functions |-> {[itemid |-> i, function |-> "last"]}]
             h == elements.items[i].hostid
             H == DOMAIN hosts
             e == elements'
  <1>1. /\ hosts' = hosts /\ links' = links
        /\ e = [elements EXCEPT !.triggers = InsertRow(@, row)]
    BY DEF AddTrigger
  <1>2. H \subseteq HostIds /\ links \subseteq H \X Templates /\ Whole(elements, H)
    BY DEF TemplatesInv
  <1>3. i \in Nat
    BY <1>2, ElementsAre, HostsBelow DEF Whole
  <1>4. row \in TriggerRow /\ row.functions # {} /\ \A f \in row.functions : f.itemid = i
    <2> DEFINE on == [itemid |-> i, function |-> "last"]
    <2>1. "last" \in FunctionNames
      BY DEF FunctionNames
    <2>2. on \in [itemid : Nat, function : FunctionNames] /\ on.itemid = i
      BY <1>3, <2>1
    <2>3. /\ row.templateid = 0 /\ row.deps = {} /\ row.priority = 1 /\ row.status = 0
          /\ row.functions = {on}
          /\ row = [templateid |-> 0, deps |-> {}, priority |-> 1, status |-> 0, functions |-> {on}]
      OBVIOUS
    <2> HIDE DEF on, row
    <2>4. row \in TriggerRow
      BY <2>2, <2>3 DEF TriggerRow
    <2> QED BY <2>2, <2>3, <2>4
  <1>5. i \in Of(elements.items, h) /\ h \notin Templates
    BY DEF Of
  <1> HIDE DEF H, e, row, h
  <1>6. Whole(e, H) /\ Grows(elements, e)
    BY <1>1, <1>2, <1>4, <1>5, TriggerInserted
  <1>7. ASSUME NEW l \in links PROVE Linked(e, l[1], l[2])
    <2>1. l[2] \in Templates /\ Linked(elements, l[1], l[2])
      BY <1>2 DEF TemplatesInv
    <2> QED BY <1>2, <1>6, <2>1, LinksKept
  <1>8. /\ DOMAIN hosts' \subseteq HostIds /\ links' \subseteq (DOMAIN hosts') \X Templates
        /\ Whole(elements', DOMAIN hosts')
    BY <1>1, <1>2, <1>6 DEF H, e
  <1> QED BY <1>1, <1>7, <1>8 DEF TemplatesInv, e

(* Every step keeps the invariant.                                         *)
LEMMA NextTemplatesInv == TemplatesInv /\ [TemplatesNext]_templateVars => TemplatesInv'
  <1> SUFFICES ASSUME TemplatesInv, [TemplatesNext]_templateVars PROVE TemplatesInv'
    OBVIOUS
  <1>1. CASE \E ip \in Ips : op_host_add(ip)
    BY <1>1, HostAddKeepsInv
  <1>2. CASE \E ip \in Ips : op_host_del(ip)
    BY <1>2, HostDelKeepsInv
  <1>3. CASE \E ip \in Ips, t \in Templates : op_template_add(ip, t)
    BY <1>3, TemplateAddKeepsInv
  <1>4. CASE \E ip \in Ips, t \in Templates : op_template_del(ip, t)
    BY <1>4, TemplateDelKeepsInv
  <1>5. CASE \E hostid \in DOMAIN hosts, key \in Keys : hosts[hostid] # Deleted /\ AddItem(hostid, key)
    BY <1>5, AddItemKeepsInv
  <1>6. CASE \E hostid \in DOMAIN hosts : \E itemid \in Of(elements.items, hostid) : AddTrigger(itemid)
    <2>1. PICK hostid \in DOMAIN hosts : \E itemid \in Of(elements.items, hostid) : AddTrigger(itemid)
      BY <1>6
    <2>2. hostid \notin Templates
      BY HostsBelow DEF TemplatesInv
    <2>3. PICK i \in DOMAIN elements.items : elements.items[i].hostid \notin Templates /\ AddTrigger(i)
      BY <2>1, <2>2 DEF Of
    <2> QED BY <2>3, AddTriggerKeepsInv
  <1>7. CASE UNCHANGED templateVars
    BY <1>7 DEF templateVars, TemplatesInv
  <1> QED BY <1>1, <1>2, <1>3, <1>4, <1>5, <1>6, <1>7 DEF TemplatesNext

(* The operations keep the templates as they are, every key once on each   *)
(* host, every trigger on one host, and each linked host complete          *)
(* (operations.c and host.c).                                              *)
THEOREM TemplatesInvariance == TemplatesSpec => []TemplatesInv
  BY InitTemplatesInv, NextTemplatesInv, PTL DEF TemplatesSpec

(* DBadd_item and DBupdate_item: an item that the host has is made the     *)
(* copy, so no host has two items with one key, whatever templates it is   *)
(* linked with and whatever users added.                                   *)
THEOREM KeyOnce == TemplatesSpec => []KeysUnique
  <1>1. TemplatesInv => KeysUnique
    BY DEF TemplatesInv, Whole, UniqueKeys, KeysUnique
  <1> QED BY <1>1, TemplatesInvariance, PTL

(* DBdelete_triggers_by_itemid and DBcopy_trigger_to_host: a trigger has   *)
(* items of one host or of one template, and none that is gone.            *)
THEOREM OneHostEach == TemplatesSpec => []TriggersInOneHost
  <1>1. ASSUME TemplatesInv PROVE TriggersInOneHost
    <2> SUFFICES ASSUME NEW t \in DOMAIN elements.triggers
                 PROVE  \E hostid \in Templates \cup DOMAIN hosts :
                           \A f \in elements.triggers[t].functions : f.itemid \in Of(elements.items, hostid)
      BY DEF TriggersInOneHost
    <2>1. PICK f \in elements.triggers[t].functions : TRUE
      BY <1>1 DEF TemplatesInv, Whole, OneHost
    <2>2. elements.items[f.itemid].hostid \in Templates \cup DOMAIN hosts
      BY <1>1, <2>1 DEF TemplatesInv, Whole, OneHost, ItemsOfHosts
    <2>3. \A g \in elements.triggers[t].functions :
             g.itemid \in Of(elements.items, elements.items[f.itemid].hostid)
      BY <1>1, <2>1 DEF TemplatesInv, Whole, OneHost, Of
    <2> QED BY <2>2, <2>3
  <1> QED BY <1>1, TemplatesInvariance, PTL

(* DBsync_host_with_template and what comes after it: a host has an item   *)
(* with each key and a copy of each trigger of every template it is        *)
(* linked with, whatever it was linked with or unlinked from in between.   *)
THEOREM StaysComplete == TemplatesSpec => []LinkedComplete
  <1>1. TemplatesInv => LinkedComplete
    BY DEF TemplatesInv, Linked, HasKeys, HasCopy, LinkedComplete
  <1> QED BY <1>1, TemplatesInvariance, PTL

-----------------------------------------------------------------------------
(* Services.                                                               *)

(* Folds and recursion, with functions as arguments.                       *)
First(s) == CHOOSE x \in s : TRUE

IsFoldOf(g, r, T, base) ==
    g = [s \in SUBSET T |-> IF s = {} THEN base ELSE r[<<First(s), g[s \ {First(s)}]>>]]

FoldOf(r, T, base) == (CHOOSE g : IsFoldOf(g, r, T, base))[T]

(* The function that a fold computes exists, when the step stays in D.     *)
LEMMA FoldOfExists ==
  ASSUME NEW T, IsFiniteSet(T), NEW D, NEW base \in D, NEW r, \A u \in T, y \in D : r[<<u, y>>] \in D
  PROVE  \E g \in [SUBSET T -> D] : IsFoldOf(g, r, T, base)
  <1> DEFINE step == [p \in T \X D |-> r[p]]
             first == [s \in SUBSET T |-> First(s)]
  <1>1. \A s \in SUBSET T : s # {} => first[s] = First(s) /\ First(s) \in s /\ First(s) \in T
    BY DEF First
  <1>2. step \in [T \X D -> D]
    OBVIOUS
  <1>3. \A u \in T, y \in D : step[<<u, y>>] = r[<<u, y>>]
    OBVIOUS
  <1>4. \A s \in SUBSET T : s # {} => first[s] \in s
    BY <1>1
  <1> HIDE DEF step, first
  <1>5. PICK g : IsFolded(g, T, D, base, step, first)
    BY <1>2, <1>4, FoldExists
  <1>6. g \in [SUBSET T -> D] /\ g[{}] = base
    BY <1>5 DEF IsFolded
  <1>7. ASSUME NEW s \in SUBSET T, s # {} PROVE g[s] = r[<<First(s), g[s \ {First(s)}]>>]
    <2>1. g[s] = step[<<first[s], g[s \ {first[s]}]>>]
      BY <1>5, <1>7 DEF IsFolded
    <2>2. g[s \ {First(s)}] \in D
      BY <1>6, <1>7
    <2> QED BY <1>1, <1>3, <1>7, <2>1, <2>2
  <1>8. g = [s \in SUBSET T |-> IF s = {} THEN base ELSE r[<<First(s), g[s \ {First(s)}]>>]]
    BY <1>6, <1>7
  <1> QED BY <1>6, <1>8 DEF IsFoldOf

(* The step keeps what is related.                                         *)
KeptBy(r, Rel, T, D) ==
    \A s \in SUBSET T, u \in T, y \in D :
        u \notin s /\ <<s, y>> \in Rel => <<s \cup {u}, r[<<u, y>>]>> \in Rel

(* What holds of the base and is kept by the step holds of the fold.       *)
LEMMA FoldOfInduction ==
  ASSUME NEW T, IsFiniteSet(T), NEW D, NEW base \in D, NEW r, \A u \in T, y \in D : r[<<u, y>>] \in D,
         NEW Rel, <<{}, base>> \in Rel, KeptBy(r, Rel, T, D)
  PROVE  FoldOf(r, T, base) \in D /\ <<T, FoldOf(r, T, base)>> \in Rel
  <1> DEFINE fold == CHOOSE g : IsFoldOf(g, r, T, base)
             Both == {p \in (SUBSET T) \X D : p \in Rel}
  <1>1. IsFoldOf(fold, r, T, base)
    BY FoldOfExists
  <1> HIDE DEF fold
  <1>2. fold[{}] = base /\ \A s \in SUBSET T : s # {} => fold[s] = r[<<First(s), fold[s \ {First(s)}]>>]
    <2>1. fold = [s \in SUBSET T |-> IF s = {} THEN base ELSE r[<<First(s), fold[s \ {First(s)}]>>]]
      BY <1>1 DEF IsFoldOf
    <2> QED BY <2>1
  <1>3. <<{}, fold[{}]>> \in Both
    BY <1>2
  <1>4. ASSUME NEW s \in SUBSET T, s # {}
        PROVE  \E x \in s : <<s \ {x}, fold[s \ {x}]>> \in Both => <<s, fold[s]>> \in Both
    <2> DEFINE x == First(s)
    <2>1. x \in s /\ x \in T
      BY <1>4 DEF First
    <2>2. fold[s] = r[<<x, fold[s \ {x}]>>]
      BY <1>2, <1>4
    <2> HIDE DEF x
    <2>3. s = (s \ {x}) \cup {x} /\ s \ {x} \in SUBSET T /\ x \notin s \ {x}
      BY <2>1
    <2>4. <<s \ {x}, fold[s \ {x}]>> \in Both => <<s, fold[s]>> \in Both
      <3> SUFFICES ASSUME fold[s \ {x}] \in D, <<s \ {x}, fold[s \ {x}]>> \in Rel
                   PROVE  r[<<x, fold[s \ {x}]>>] \in D /\ <<s, r[<<x, fold[s \ {x}]>>]>> \in Rel
        BY <2>2
      <3>1. <<(s \ {x}) \cup {x}, r[<<x, fold[s \ {x}]>>]>> \in Rel
        BY <2>1, <2>3 DEF KeptBy
      <3> QED BY <2>1, <2>3, <3>1
    <2> QED BY <2>1, <2>4
  <1> HIDE DEF Both
  <1>5. <<T, fold[T]>> \in Both
    BY <1>3, <1>4, FoldInduction
  <1>6. fold[T] = FoldOf(r, T, base)
    BY DEF fold, FoldOf
  <1> QED BY <1>5, <1>6 DEF Both

(* The values of f are those of a fold as long as they stay in D.          *)
FollowsFold(f, r, T, D) ==
    \A s \in SUBSET T : s # {} /\ f[s \ {First(s)}] \in D => f[s] = r[<<First(s), f[s \ {First(s)}]>>]

(* A function with the values of a fold is that fold.                      *)
LEMMA FoldOfIs ==
  ASSUME NEW T, IsFiniteSet(T), NEW D, NEW base \in D, NEW r, \A u \in T, y \in D : r[<<u, y>>] \in D,
         NEW f, f[{}] = base, FollowsFold(f, r, T, D)
  PROVE  f[T] = FoldOf(r, T, base)
  <1> DEFINE fold == CHOOSE g : IsFoldOf(g, r, T, base)
  <1>1. IsFoldOf(fold, r, T, base)
    BY FoldOfExists
  <1> HIDE DEF fold
  <1>2. fold[{}] = base /\ \A s \in SUBSET T : s # {} => fold[s] = r[<<First(s), fold[s \ {First(s)}]>>]
    <2>1. fold = [s \in SUBSET T |-> IF s = {} THEN base ELSE r[<<First(s), fold[s \ {First(s)}]>>]]
      BY <1>1 DEF IsFoldOf
    <2> QED BY <2>1
  <1> DEFINE Rel == {p \in (SUBSET T) \X D : p[2] = f[p[1]]}
  <1>3. <<{}, fold[{}]>> \in Rel
    BY <1>2
  <1>4. ASSUME NEW s \in SUBSET T, s # {}
        PROVE  \E x \in s : <<s \ {x}, fold[s \ {x}]>> \in Rel => <<s, fold[s]>> \in Rel
    <2>1. First(s) \in s /\ First(s) \in T
      BY <1>4 DEF First
    <2>2. fold[s] = r[<<First(s), fold[s \ {First(s)}]>>]
      BY <1>2, <1>4
    <2>3. <<s \ {First(s)}, fold[s \ {First(s)}]>> \in Rel => <<s, fold[s]>> \in Rel
      <3> SUFFICES ASSUME fold[s \ {First(s)}] \in D, fold[s \ {First(s)}] = f[s \ {First(s)}]
                   PROVE  fold[s] \in D /\ fold[s] = f[s]
        OBVIOUS
      <3> QED BY <1>4, <2>1, <2>2 DEF FollowsFold
    <2> QED BY <2>1, <2>3
  <1> HIDE DEF Rel
  <1>5. <<T, fold[T]>> \in Rel
    BY <1>3, <1>4, FoldInduction
  <1>6. fold[T] = FoldOf(r, T, base)
    BY DEF fold, FoldOf
  <1> QED BY <1>5, <1>6 DEF Rel

(* Steps that agree on D give the same fold.                               *)
LEMMA FoldOfSame ==
  ASSUME NEW T, IsFiniteSet(T), NEW D, NEW base \in D, NEW r, \A u \in T, y \in D : r[<<u, y>>] \in D,
         NEW q, \A u \in T, y \in D : q[<<u, y>>] = r[<<u, y>>]
  PROVE  FoldOf(q, T, base) = FoldOf(r, T, base)
  <1> DEFINE fold == CHOOSE g : IsFoldOf(g, q, T, base)
  <1>1. IsFoldOf(fold, q, T, base)
    BY FoldOfExists
  <1> HIDE DEF fold
  <1>2. fold[{}] = base /\ \A s \in SUBSET T : s # {} => fold[s] = q[<<First(s), fold[s \ {First(s)}]>>]
    <2>1. fold = [s \in SUBSET T |-> IF s = {} THEN base ELSE q[<<First(s), fold[s \ {First(s)}]>>]]
      BY <1>1 DEF IsFoldOf
    <2> QED BY <2>1
  <1>3. FollowsFold(fold, r, T, D)
    <2>1. \A s \in SUBSET T :
             s # {} /\ fold[s \ {First(s)}] \in D => fold[s] = r[<<First(s), fold[s \ {First(s)}]>>]
      BY <1>2 DEF First
    <2> QED BY <2>1 DEF FollowsFold
  <1>4. fold[{}] = base
    BY <1>2
  <1>5. fold[T] = FoldOf(r, T, base)
    <2> HIDE <1>1, <1>2
    <2> QED BY <1>3, <1>4, FoldOfIs
  <1> QED BY <1>5 DEF fold, FoldOf

(* Nothing is above all of a set in which it is itself.                    *)
NoCircle(N, up) == \A C \in SUBSET N : C # {} => \E s \in C : up[s] \cap C = {}

(* A function r with the value of a fold of its own values above.          *)
IsRecursion(r, N, D, up, begin) ==
    /\ r \in [N \X D -> D]
    /\ \A p \in N \X D : r[p] = FoldOf(r, up[p[1]], begin[p])

(* Recursion along up, which goes in no circle.                            *)
LEMMA RecursionExists ==
  ASSUME NEW N, IsFiniteSet(N), NEW D, NEW up \in [N -> SUBSET N], NEW begin \in [N \X D -> D],
         NoCircle(N, up)
  PROVE  \E r : IsRecursion(r, N, D, up, begin)
  <1> DEFINE Rec(r, U) == r \in [U \X D -> D] /\ \A p \in U \X D : r[p] = FoldOf(r, up[p[1]], begin[p])
             Done == {U \in SUBSET N : (\A s \in U : up[s] \subseteq U) /\ \E r : Rec(r, U)}
             Sizes == {Cardinality(N \ U) : U \in Done}
  <1>1. \A U \in SUBSET N : IsFiniteSet(U) /\ IsFiniteSet(N \ U) /\ Cardinality(N \ U) \in Nat
    BY FS_Subset, FS_CardinalityType
  <1>2. {} \in Done
    <2>1. Rec([p \in {} \X D |-> p[2]], {})
      OBVIOUS
    <2> HIDE DEF Rec
    <2> QED BY <2>1
  <1>3. Sizes \in SUBSET Nat /\ Sizes # {}
    <2>1. \A U \in Done : U \in SUBSET N
      OBVIOUS
    <2> HIDE DEF Done, Rec
    <2>2. \A U \in Done : Cardinality(N \ U) \in Nat
      BY <1>1, <2>1
    <2>3. Cardinality(N \ {}) \in Sizes
      BY <1>2
    <2>5. ASSUME NEW m \in Sizes PROVE m \in Nat
      <3>1. PICK U \in Done : m = Cardinality(N \ U)
        OBVIOUS
      <3> QED BY <2>2, <3>1
    <2> QED BY <2>3, <2>5
  <1>4. PICK n \in Sizes : \A m \in Sizes : n <= m
    <2> HIDE DEF Sizes
    <2> QED BY <1>3, LeastId
  <1>5. PICK U \in Done : n = Cardinality(N \ U)
    OBVIOUS
  <1>6. PICK r : Rec(r, U)
    OBVIOUS
  <1>7. CASE U = N
    BY <1>6, <1>7 DEF IsRecursion
  <1>8. CASE U # N
    <2>1. PICK s \in N \ U : up[s] \cap (N \ U) = {}
      BY <1>8 DEF NoCircle
    <2>2. up[s] \subseteq U /\ \A w \in U : up[w] \subseteq U
      BY <2>1
    <2> DEFINE V == U \cup {s}
               q == [p \in V \X D |-> IF p[1] = s THEN FoldOf(r, up[s], begin[p]) ELSE r[p]]
    <2>3. \A w \in V : up[w] \subseteq U /\ IsFiniteSet(up[w])
      BY <1>1, <2>2
    <2>4. \A w \in U, y \in D : r[<<w, y>>] \in D /\ q[<<w, y>>] = r[<<w, y>>]
      BY <1>6, <2>1
    <2>5. \A p \in V \X D : begin[p] \in D
      BY <2>1
    <2>6. \A p \in V \X D : FoldOf(r, up[p[1]], begin[p]) \in D
      <3> SUFFICES ASSUME NEW p \in V \X D PROVE FoldOf(r, up[p[1]], begin[p]) \in D
        OBVIOUS
      <3> DEFINE T == up[p[1]]
                 base == begin[p]
                 Rel == (SUBSET T) \X D
      <3>1. IsFiniteSet(T) /\ base \in D /\ \A u \in T, y \in D : r[<<u, y>>] \in D
        BY <2>3, <2>4, <2>5
      <3> HIDE DEF T, base
      <3>2. <<{}, base>> \in Rel
        BY <3>1
      <3>3. KeptBy(r, Rel, T, D)
        BY <3>1 DEF KeptBy
      <3> HIDE DEF Rel
      <3>4. FoldOf(r, T, base) \in D
        BY <3>1, <3>2, <3>3, FoldOfInduction
      <3> QED BY <3>4 DEF T, base
    <2>7. \A p \in V \X D : FoldOf(q, up[p[1]], begin[p]) = FoldOf(r, up[p[1]], begin[p])
      <3> SUFFICES ASSUME NEW p \in V \X D
                   PROVE  FoldOf(q, up[p[1]], begin[p]) = FoldOf(r, up[p[1]], begin[p])
        OBVIOUS
      <3> DEFINE T == up[p[1]]
                 base == begin[p]
      <3>1. /\ IsFiniteSet(T) /\ base \in D /\ \A u \in T, y \in D : r[<<u, y>>] \in D
            /\ \A u \in T, y \in D : q[<<u, y>>] = r[<<u, y>>]
        BY <2>3, <2>4, <2>5
      <3> HIDE DEF T, base, q
      <3>2. FoldOf(q, T, base) = FoldOf(r, T, base)
        BY <3>1, FoldOfSame
      <3> QED BY <3>2 DEF T, base
    <2>8. q \in [V \X D -> D]
      BY <1>6, <2>6
    <2>9. \A p \in V \X D : q[p] = FoldOf(r, up[p[1]], begin[p])
      BY <1>6, <2>1
    <2> HIDE DEF q
    <2>10. Rec(q, V)
      BY <2>7, <2>8, <2>9
    <2> HIDE DEF Rec
    <2>11. V \in Done
      BY <2>2, <2>10
    <2>12. N \ V = (N \ U) \ {s} /\ s \in N \ U
      BY <2>1
    <2> HIDE DEF V
    <2>13. U \in SUBSET N /\ n = Cardinality(N \ U) /\ n \in Nat /\ IsFiniteSet(N \ U)
      BY <1>1, <1>5, <2>1
    <2> HIDE DEF Done
    <2>14. Cardinality((N \ U) \ {s}) = n - 1
      BY <2>12, <2>13, FS_RemoveElement
    <2>15. n - 1 \in Sizes
      BY <2>11, <2>12, <2>14
    <2> HIDE DEF Sizes
    <2>16. n <= n - 1
      BY <1>4, <2>15
    <2> QED BY <2>13, <2>16
  <1> QED BY <1>7, <1>8

-----------------------------------------------------------------------------
(* The statuses of services.                                               *)
LinksOf(N) == {l \in Tree : l[1] \in N /\ l[2] \in N}

(* What the statuses below make a service.                                 *)
Found(x, ls, s) ==
    LET below == {x[d].status : d \in Downs(ls, s)}
    IN  IF below = {} \/ Algorithms[s] = "none" THEN 0
        ELSE IF Algorithms[s] = "max" THEN Max(below) ELSE Min(below)

FromBelow(x, ls, s) == Downs(ls, s) # {} /\ Algorithms[s] # "none" => x[s].status = Found(x, ls, s)

AlarmSays(row) == row.alarm \in {row.status, Null}

(* From x to y nothing but statuses and alarms changes; the services of Q  *)
(* have the status that those below give, and so have those that had it,   *)
(* but for the services of E.                                              *)
Repairs(x, y, ls, Q, E) ==
    /\ y \in Statuses(DOMAIN x)
    /\ \A q \in DOMAIN x : y[q].triggerid = x[q].triggerid
    /\ \A q \in DOMAIN x : AlarmSays(x[q]) => AlarmSays(y[q])
    /\ \A q \in DOMAIN x \ E : FromBelow(x, ls, q) \/ q \in Q => FromBelow(y, ls, q)

(* Nothing repairs nothing.                                                *)
LEMMA RepairsSame ==
  ASSUME NEW N, NEW x \in Statuses(N), NEW ls, NEW E
  PROVE  Repairs(x, x, ls, {}, E)
  <1>1. DOMAIN x = N
    BY DEF Statuses
  <1> QED BY <1>1 DEF Repairs

(* What two steps, one after the other, repair.                            *)
LEMMA RepairsTwice ==
  ASSUME NEW N, NEW x \in Statuses(N), NEW y, NEW z, NEW ls, NEW Q, NEW R, NEW E, NEW F, NEW P, NEW G,
         Repairs(x, y, ls, Q, E), Repairs(y, z, ls, R, F), P \subseteq Q \cup R, (E \ R) \cup F \subseteq G
  PROVE  Repairs(x, z, ls, P, G)
  <1>1. DOMAIN x = N /\ DOMAIN y = N
    BY DEF Statuses, Repairs
  <1>2. z \in Statuses(N)
    BY <1>1 DEF Repairs
  <1>3. \A q \in N : z[q].triggerid = x[q].triggerid
    BY <1>1 DEF Repairs
  <1>4. \A q \in N : AlarmSays(x[q]) => AlarmSays(z[q])
    BY <1>1 DEF Repairs
  <1>5. \A q \in N \ G : q \in R => FromBelow(z, ls, q)
    BY <1>1 DEF Repairs
  <1>6. \A q \in N \ G : q \notin R /\ (FromBelow(x, ls, q) \/ q \in Q) => FromBelow(z, ls, q)
    BY <1>1 DEF Repairs
  <1> QED BY <1>1, <1>2, <1>3, <1>4, <1>5, <1>6 DEF Repairs

HasTop(ls, C) == \E s \in C : Ups(ls, s) \cap C = {}
HasBottom(ls, C) == \E s \in C : Downs(ls, s) \cap C = {}

(* No links in a circle: ServicesAssumption, for fewer services and links. *)
LEMMA TopAndBottom ==
  ASSUME NEW N \in SUBSET Services, NEW ls \in SUBSET LinksOf(N), NEW C \in SUBSET N, C # {}
  PROVE  HasTop(ls, C) /\ HasBottom(ls, C)
  <1>1. \A l \in ls : l \in Tree
    BY DEF LinksOf
  <1>2. \A s : Ups(ls, s) \subseteq Ups(Tree, s) /\ Downs(ls, s) \subseteq Downs(Tree, s)
    BY <1>1 DEF Ups, Downs
  <1>3. C \in (SUBSET Services) \ {{}}
    OBVIOUS
  <1>4. PICK s \in C : Ups(Tree, s) \cap C = {}
    BY <1>3, ServicesAssumption
  <1>5. PICK d \in C : Downs(Tree, d) \cap C = {}
    BY <1>3, ServicesAssumption
  <1>6. Ups(ls, s) \cap C = {} /\ Downs(ls, d) \cap C = {}
    BY <1>2, <1>4, <1>5
  <1> QED BY <1>6 DEF HasTop, HasBottom

(* Services, and the ones above and below them, are finitely many.         *)
LEMMA LinksAre ==
  ASSUME NEW N \in SUBSET Services, NEW ls \in SUBSET LinksOf(N)
  PROVE  /\ IsFiniteSet(N) /\ N \subseteq Nat
         /\ \A s : Ups(ls, s) \in SUBSET N
         /\ \A s : Downs(ls, s) \in SUBSET N
         /\ \A s, u : u \in Ups(ls, s) <=> s \in Downs(ls, u)
         /\ \A s : s \notin Downs(ls, s)
         /\ \A s : IsFiniteSet(Ups(ls, s)) /\ IsFiniteSet(Downs(ls, s))
  <1>1. IsFiniteSet(N) /\ N \subseteq Nat
    BY ServicesAssumption, FS_Subset
  <1>2. ls \subseteq Tree /\ \A l \in ls : l \in N \X N
    BY ServicesAssumption DEF LinksOf
  <1>3. \A s : Ups(ls, s) \in SUBSET N /\ Ups(ls, s) \subseteq Ups(Tree, s)
    BY <1>2 DEF Ups
  <1>4. \A s : Downs(ls, s) \in SUBSET N /\ Downs(ls, s) \subseteq Downs(Tree, s)
    BY <1>2 DEF Downs
  <1>5. \A s, u : u \in Ups(ls, s) <=> <<u, s>> \in ls
    BY <1>2 DEF Ups
  <1>6. \A s, u : s \in Downs(ls, u) <=> <<u, s>> \in ls
    BY <1>2 DEF Downs
  <1>9. \A s : s \notin Downs(ls, s)
    <2> SUFFICES ASSUME NEW s, s \in Downs(ls, s) PROVE FALSE
      OBVIOUS
    <2>1. {s} \in SUBSET N /\ {s} # {}
      BY <1>4
    <2>2. PICK c \in {s} : Downs(ls, c) \cap {s} = {}
      BY <2>1, TopAndBottom DEF HasBottom
    <2> QED BY <2>2
  <1>10. \A s : IsFiniteSet(Ups(ls, s)) /\ IsFiniteSet(Downs(ls, s))
    <2> SUFFICES ASSUME NEW s PROVE IsFiniteSet(Ups(ls, s)) /\ IsFiniteSet(Downs(ls, s))
      OBVIOUS
    <2>1. Ups(ls, s) \in SUBSET N /\ Downs(ls, s) \in SUBSET N
      BY <1>3, <1>4
    <2> QED BY <1>1, <2>1, FS_Subset
  <1>11. \A s, u : u \in Ups(ls, s) <=> s \in Downs(ls, u)
    BY <1>5, <1>6
  <1>12. (\A s : Ups(ls, s) \in SUBSET N) /\ (\A s : Downs(ls, s) \in SUBSET N)
    BY <1>3, <1>4
  <1> QED BY <1>1, <1>9, <1>10, <1>11, <1>12

(* The least of a set of ids is one of them.                               *)
LEMMA SmallestId ==
  ASSUME NEW S \in SUBSET Nat, S # {}
  PROVE  Min(S) \in S
  <1>1. PICK m \in S : \A y \in S : m <= y
    BY LeastId
  <1> QED BY <1>1 DEF Min

(* What the statuses below a service make it is a status.                  *)
LEMMA FoundIsNat ==
  ASSUME NEW N \in SUBSET Services, NEW ls \in SUBSET LinksOf(N), NEW x \in Statuses(N), NEW s
  PROVE  Found(x, ls, s) \in Nat
  <1> DEFINE below == {x[d].status : d \in Downs(ls, s)}
  <1>1. Downs(ls, s) \in SUBSET N /\ IsFiniteSet(Downs(ls, s))
    BY LinksAre
  <1>2. \A d \in N : x[d].status \in Nat
    BY DEF Statuses, ServiceRow
  <1>3. below \in SUBSET Nat
    BY <1>1, <1>2
  <1>4. IsFiniteSet(below)
    <2> DEFINE f == [d \in Downs(ls, s) |-> x[d].status]
    <2>1. f \in [Downs(ls, s) -> below] /\ \A y \in below : \E d \in Downs(ls, s) : f[d] = y
      OBVIOUS
    <2> HIDE DEF f, below
    <2>2. f \in Surjection(Downs(ls, s), below)
      BY <2>1 DEF Surjection
    <2> QED BY <1>1, <2>2, FS_Surjection
  <1> HIDE DEF below
  <1>5. below # {} => Max(below) \in Nat /\ Min(below) \in Nat
    <2> SUFFICES ASSUME below # {} PROVE Max(below) \in Nat /\ Min(below) \in Nat
      OBVIOUS
    <2>1. Max(below) \in below /\ Min(below) \in below
      BY <1>3, <1>4, GreatestId, SmallestId
    <2> QED BY <1>3, <2>1
  <1> QED BY <1>5 DEF Found, below

(* DBget_service_status: a status, and without a trigger only the ones     *)
(* below count.                                                            *)
LEMMA StatusIsFound ==
  ASSUME NEW N \in SUBSET Services, NEW ls \in SUBSET LinksOf(N), NEW x \in Statuses(N), NEW s,
         NEW triggerid \in Triggers \cup {Null}
  PROVE  /\ DBget_service_status(x, ls, s, triggerid) \in Nat
         /\ DBget_service_status(x, ls, s, Null) = Found(x, ls, s)
  <1>1. Found(x, ls, s) \in Nat
    BY FoundIsNat
  <1>2. triggerid # Null => Priorities[triggerid] \in Nat
    BY ServicesAssumption
  <1>3. DBget_service_status(x, ls, s, triggerid) =
           IF Found(x, ls, s) # 0 THEN Found(x, ls, s)
           ELSE IF triggerid = Null \/ ~triggers[triggerid] THEN 0 ELSE Priorities[triggerid]
    BY DEF DBget_service_status, Found
  <1>4. DBget_service_status(x, ls, s, Null) = IF Found(x, ls, s) # 0 THEN Found(x, ls, s) ELSE 0
    BY DEF DBget_service_status, Found
  <1> QED BY <1>1, <1>2, <1>3, <1>4

(* A status that is set may be wrong for the services right above, and is  *)
(* right if it is found from below.                                        *)
LEMMA StatusSet ==
  ASSUME NEW N \in SUBSET Services, NEW ls \in SUBSET LinksOf(N), NEW x \in Statuses(N),
         NEW s \in N, NEW status \in Nat
  PROVE  /\ Repairs(x, SetStatus(x, s, status), ls, {}, Ups(ls, s) \cup {s})
         /\ status = Found(x, ls, s) \/ Downs(ls, s) = {}
               => Repairs(x, SetStatus(x, s, status), ls, {s}, Ups(ls, s))
  <1> DEFINE y == SetStatus(x, s, status)
  <1>1. /\ y \in Statuses(N) /\ DOMAIN x = N
        /\ y[s].triggerid = x[s].triggerid /\ y[s].status = status /\ y[s].alarm = status
        /\ \A q \in N : q # s => y[q] = x[q]
    BY DEF SetStatus, Statuses, ServiceRow
  <1>2. AlarmSays(y[s])
    BY <1>1 DEF AlarmSays
  <1> HIDE DEF y
  <1>3. \A q : Downs(ls, q) \in SUBSET N
    BY LinksAre
  <1>4. \A q \in N : s \notin Downs(ls, q) => Found(y, ls, q) = Found(x, ls, q)
    <2> SUFFICES ASSUME NEW q \in N, s \notin Downs(ls, q) PROVE Found(y, ls, q) = Found(x, ls, q)
      OBVIOUS
    <2>1. \A d \in Downs(ls, q) : y[d].status = x[d].status
      BY <1>1, <1>3
    <2>2. {y[d].status : d \in Downs(ls, q)} = {x[d].status : d \in Downs(ls, q)}
      BY <2>1
    <2> QED BY <2>2 DEF Found
  <1>5. \A q \in N : q \in Ups(ls, s) <=> s \in Downs(ls, q)
    BY LinksAre
  <1>6. \A q \in N \ (Ups(ls, s) \cup {s}) : FromBelow(x, ls, q) => FromBelow(y, ls, q)
    BY <1>1, <1>4, <1>5 DEF FromBelow
  <1>7. status = Found(x, ls, s) \/ Downs(ls, s) = {} => FromBelow(y, ls, s)
    <2>1. s \notin Downs(ls, s)
      BY LinksAre
    <2> QED BY <1>1, <1>4, <2>1 DEF FromBelow
  <1> QED BY <1>1, <1>2, <1>6, <1>7 DEF Repairs, y

(* The step of DBupdate_services_rec for one service above.                *)
LEMMA UpUpdated ==
  ASSUME NEW N \in SUBSET Services, NEW ls \in SUBSET LinksOf(N), NEW x \in Statuses(N), NEW u \in N
  PROVE  Repairs(x, UpdateUp(x, ls, u), ls, {u}, Ups(ls, u))
  <1>1. CASE Algorithms[u] = "none"
    <2>1. UpdateUp(x, ls, u) = x /\ FromBelow(x, ls, u)
      BY <1>1 DEF UpdateUp, FromBelow
    <2>2. Repairs(x, x, ls, {}, Ups(ls, u))
      BY RepairsSame
    <2> QED BY <2>1, <2>2 DEF Repairs
  <1>2. CASE Algorithms[u] # "none"
    <2> DEFINE status == DBget_service_status(x, ls, u, Null)
    <2>1. status \in Nat /\ status = Found(x, ls, u)
      BY StatusIsFound
    <2>2. UpdateUp(x, ls, u) = SetStatus(x, u, status)
      BY <1>2 DEF UpdateUp
    <2> HIDE DEF status
    <2> QED BY <2>1, <2>2, StatusSet
  <1> QED BY <1>1, <1>2

UpsOf(ls, Z) == UNION {Ups(ls, u) : u \in Z}

(* DBupdate_services_rec before it calls itself: right for the services    *)
(* above, but maybe not for the ones above these.                          *)
LEMMA UpsUpdated ==
  ASSUME NEW N \in SUBSET Services, NEW ls \in SUBSET LinksOf(N), NEW x \in Statuses(N), NEW s
  PROVE  Repairs(x, UpdateUps(x, ls, s), ls, Ups(ls, s), UpsOf(ls, Ups(ls, s)))
  <1> DEFINE T == Ups(ls, s)
             D == Statuses(N)
             r == [p \in T \X D |-> UpdateUp(p[2], ls, p[1])]
             IsIter(g) == g = [z \in SUBSET T |->
                                 IF z = {} THEN x
                                 ELSE UpdateUp(g[z \ {First(z)}], ls, First(z))]
             iter == CHOOSE g : IsIter(g)
             Rel == {p \in (SUBSET T) \X D : Repairs(x, p[2], ls, p[1], UpsOf(ls, p[1]))}
  <1>1. IsFiniteSet(T) /\ T \in SUBSET N
    BY LinksAre
  <1>2. ASSUME NEW u \in T, NEW y \in D
        PROVE  /\ r[<<u, y>>] = UpdateUp(y, ls, u) /\ r[<<u, y>>] \in D
               /\ Repairs(y, r[<<u, y>>], ls, {u}, Ups(ls, u))
    <2>1. Repairs(y, UpdateUp(y, ls, u), ls, {u}, Ups(ls, u)) /\ DOMAIN y = N
      BY <1>1, UpUpdated DEF Statuses
    <2>2. r[<<u, y>>] = UpdateUp(y, ls, u)
      OBVIOUS
    <2> QED BY <2>1, <2>2 DEF Repairs
  <1>3. \A u \in T, y \in D : r[<<u, y>>] \in D
    BY <1>2
  <1>4. UpdateUps(x, ls, s) = iter[T]
    BY DEF UpdateUps, FoldSet, MapThenFoldSet, First
  <1> HIDE DEF T, D, r
  <1>5. x \in D
    BY DEF D
  <1>6. IsIter(iter)
    <2>1. PICK g \in [SUBSET T -> D] : IsFoldOf(g, r, T, x)
      BY <1>1, <1>3, <1>5, FoldOfExists
    <2>2. ASSUME NEW z \in SUBSET T, z # {}
          PROVE  r[<<First(z), g[z \ {First(z)}]>>] = UpdateUp(g[z \ {First(z)}], ls, First(z))
      <3>1. First(z) \in T /\ g[z \ {First(z)}] \in D
        BY <2>1, <2>2 DEF First
      <3> QED BY <1>2, <3>1
    <2>3. IsIter(g)
      <3>1. g = [z \in SUBSET T |-> IF z = {} THEN x ELSE r[<<First(z), g[z \ {First(z)}]>>]]
        BY <2>1 DEF IsFoldOf
      <3> QED BY <2>2, <3>1
    <2> HIDE DEF IsIter
    <2> QED BY <2>3
  <1> HIDE DEF iter
  <1>7. iter[{}] = x /\ FollowsFold(iter, r, T, D)
    <2>1. ASSUME NEW z \in SUBSET T, z # {}, iter[z \ {First(z)}] \in D
          PROVE  iter[z] = r[<<First(z), iter[z \ {First(z)}]>>]
      <3>1. iter[z] = UpdateUp(iter[z \ {First(z)}], ls, First(z)) /\ First(z) \in T
        BY <1>6, <2>1 DEF First
      <3> QED BY <1>2, <2>1, <3>1
    <2> QED BY <1>6, <2>1 DEF FollowsFold
  <1> HIDE DEF IsIter
  <1>8. iter[T] = FoldOf(r, T, x)
    BY <1>1, <1>3, <1>5, <1>7, FoldOfIs
  <1>9. <<{}, x>> \in Rel
    <2>1. Repairs(x, x, ls, {}, UpsOf(ls, {}))
      BY RepairsSame
    <2> QED BY <1>5, <2>1
  <1>10. ASSUME NEW z \in SUBSET T, NEW u \in T, NEW y \in D, <<z, y>> \in Rel
         PROVE  <<z \cup {u}, r[<<u, y>>]>> \in Rel
    <2>1. Repairs(x, y, ls, z, UpsOf(ls, z))
      BY <1>10
    <2>2. Repairs(y, r[<<u, y>>], ls, {u}, Ups(ls, u))
      BY <1>2
    <2>3. (UpsOf(ls, z) \ {u}) \cup Ups(ls, u) \subseteq UpsOf(ls, z \cup {u})
      BY DEF UpsOf
    <2>4. Repairs(x, r[<<u, y>>], ls, z \cup {u}, UpsOf(ls, z \cup {u}))
      <3> DEFINE y2 == r[<<u, y>>]
                 G == UpsOf(ls, z \cup {u})
                 E == UpsOf(ls, z)
                 F == Ups(ls, u)
      <3> HIDE DEF y2, G, E, F
      <3>1. Repairs(x, y, ls, z, E) /\ Repairs(y, y2, ls, {u}, F) /\ (E \ {u}) \cup F \subseteq G
        BY <2>1, <2>2, <2>3 DEF y2, E, F, G
      <3>2. Repairs(x, y2, ls, z \cup {u}, G)
        BY <3>1, RepairsTwice
      <3> QED BY <3>2 DEF y2, G
    <2> QED BY <1>3, <2>4
  <1>11. KeptBy(r, Rel, T, D)
    BY <1>10 DEF KeptBy
  <1>12. <<T, FoldOf(r, T, x)>> \in Rel
    <2> HIDE DEF Rel
    <2> QED BY <1>1, <1>3, <1>5, <1>9, <1>11, FoldOfInduction
  <1> QED BY <1>4, <1>8, <1>12 DEF T

(* What is above a service, over any number of links.                      *)
Above(N, ls, s) ==
    {q \in N : \A C \in SUBSET N : Ups(ls, s) \subseteq C /\ (\A c \in C : Ups(ls, c) \subseteq C) => q \in C}

AboveOf(N, ls, Z) == UNION {Above(N, ls, u) : u \in Z}

(* What is above a service is right above it, or above one that is.        *)
LEMMA AboveAre ==
  ASSUME NEW N \in SUBSET Services, NEW ls \in SUBSET LinksOf(N)
  PROVE  /\ \A s : Ups(ls, s) \subseteq Above(N, ls, s)
         /\ \A s : \A c \in Above(N, ls, s) : Ups(ls, c) \subseteq Above(N, ls, s)
         /\ \A s : Above(N, ls, s) \subseteq Ups(ls, s) \cup AboveOf(N, ls, Ups(ls, s))
  <1>1. \A s : Ups(ls, s) \in SUBSET N
    BY LinksAre
  <1>2. ASSUME NEW s PROVE Ups(ls, s) \subseteq Above(N, ls, s)
    BY <1>1 DEF Above
  <1>3. ASSUME NEW s, NEW c \in Above(N, ls, s), NEW q \in Ups(ls, c) PROVE q \in Above(N, ls, s)
    BY <1>1 DEF Above
  <1>4. ASSUME NEW s PROVE Above(N, ls, s) \subseteq Ups(ls, s) \cup AboveOf(N, ls, Ups(ls, s))
    <2> DEFINE C == Ups(ls, s) \cup AboveOf(N, ls, Ups(ls, s))
    <2>1. C \in SUBSET N /\ Ups(ls, s) \subseteq C
      BY <1>1 DEF AboveOf, Above
    <2>2. ASSUME NEW c \in C, NEW q \in Ups(ls, c) PROVE q \in C
      <3>1. CASE c \in Ups(ls, s)
        BY <1>2, <2>2, <3>1 DEF AboveOf
      <3>2. CASE c \in AboveOf(N, ls, Ups(ls, s))
        <4>1. PICK u \in Ups(ls, s) : c \in Above(N, ls, u)
          BY <3>2 DEF AboveOf
        <4>2. q \in Above(N, ls, u)
          BY <1>3, <2>2, <4>1
        <4> QED BY <4>1, <4>2 DEF AboveOf
      <3> QED BY <2>2, <3>1, <3>2
    <2>3. \A c \in C : Ups(ls, c) \subseteq C
      BY <2>2
    <2> HIDE DEF C
    <2>4. Above(N, ls, s) \subseteq C
      BY <2>1, <2>3 DEF Above
    <2> QED BY <2>4 DEF C
  <1> QED BY <1>2, <1>3, <1>4

(* DBupdate_services_rec makes everything above a service right, and       *)
(* nothing wrong; by induction from the top.                               *)
LEMMA RecUpdated ==
  ASSUME NEW N \in SUBSET Services, NEW ls \in SUBSET LinksOf(N), NEW x \in Statuses(N), NEW s \in N
  PROVE  Repairs(x, DBupdate_services_rec(x, ls, s), ls, Above(N, ls, s), {})
  <1> DEFINE D == Statuses(N)
             up == [w \in N |-> Ups(ls, w)]
             begin == [p \in N \X D |-> UpdateUps(p[2], ls, p[1])]
             IsRec(g) == g = [p \in N \X D |-> FoldOf(g, Ups(ls, p[1]), UpdateUps(p[2], ls, p[1]))]
             rec == CHOOSE g : IsRec(g)
             Done(w) == \A y \in D : Repairs(y, rec[<<w, y>>], ls, Above(N, ls, w), {})
             Bad == {w \in N : ~Done(w)}
  <1>2. DOMAIN x = N /\ \A y \in D : DOMAIN y = N
    BY DEF Statuses
  <1>3. DBupdate_services_rec(x, ls, s) = rec[<<s, x>>]
    BY <1>2 DEF DBupdate_services_rec, FoldSet, MapThenFoldSet, FoldOf, IsFoldOf, First
  <1>4. \A w \in N, y \in D : Repairs(y, UpdateUps(y, ls, w), ls, Ups(ls, w), UpsOf(ls, Ups(ls, w)))
    BY UpsUpdated
  <1>5. \A w \in N, y \in D : UpdateUps(y, ls, w) \in D
    BY <1>2, <1>4 DEF Repairs
  <1>1. ASSUME NEW C \in SUBSET N, C # {} PROVE \E w \in C : Ups(ls, w) \cap C = {}
    <2>1. HasTop(ls, C)
      BY <1>1, TopAndBottom
    <2> QED BY <2>1 DEF HasTop
  <1>6. IsFiniteSet(N) /\ \A w : Ups(ls, w) \in SUBSET N /\ IsFiniteSet(Ups(ls, w))
    <2>1. /\ IsFiniteSet(N)
          /\ \A w : Ups(ls, w) \in SUBSET N
          /\ \A w : IsFiniteSet(Ups(ls, w))
      BY LinksAre
    <2> QED BY <2>1
  <1> HIDE DEF D
  <1>7. IsRec(rec)
    <2>1. up \in [N -> SUBSET N]
      BY <1>6
    <2>7. begin \in [N \X D -> D]
      BY <1>5
    <2>2. NoCircle(N, up)
      BY <1>1 DEF NoCircle
    <2>3. \A p \in N \X D : up[p[1]] = Ups(ls, p[1]) /\ begin[p] = UpdateUps(p[2], ls, p[1])
      OBVIOUS
    <2> HIDE DEF up, begin
    <2>4. PICK g : IsRecursion(g, N, D, up, begin)
      BY <1>6, <2>1, <2>2, <2>7, RecursionExists
    <2>5. \A p \in N \X D : g[p] = FoldOf(g, Ups(ls, p[1]), UpdateUps(p[2], ls, p[1]))
      BY <2>3, <2>4 DEF IsRecursion
    <2>6. IsRec(g)
      BY <2>4, <2>5 DEF IsRecursion
    <2> HIDE DEF IsRec
    <2> QED BY <2>6
  <1> HIDE DEF rec
  <1>8. \A w \in N, y \in D : rec[<<w, y>>] = FoldOf(rec, Ups(ls, w), UpdateUps(y, ls, w))
    BY <1>7
  <1> HIDE DEF IsRec
  <1>9. Bad = {}
    <2> SUFFICES ASSUME Bad # {} PROVE FALSE
      OBVIOUS
    <2>1. PICK w \in Bad : Ups(ls, w) \cap Bad = {}
      BY <1>1
    <2>2. PICK y \in D : ~Repairs(y, rec[<<w, y>>], ls, Above(N, ls, w), {})
      OBVIOUS
    <2> DEFINE T == Ups(ls, w)
               base == UpdateUps(y, ls, w)
               Rel == {p \in (SUBSET T) \X D : Repairs(base, p[2], ls, AboveOf(N, ls, p[1]), {})}
    <2>3. /\ w \in N /\ T \in SUBSET N /\ IsFiniteSet(T) /\ base \in D
          /\ Repairs(y, base, ls, T, UpsOf(ls, T))
          /\ rec[<<w, y>>] = FoldOf(rec, T, base)
      BY <1>4, <1>5, <1>6, <1>8
    <2>4. \A u \in T, z \in D : Repairs(z, rec[<<u, z>>], ls, Above(N, ls, u), {})
      BY <2>1, <2>3
    <2>5. \A u \in T, z \in D : rec[<<u, z>>] \in D
      BY <1>2, <2>4 DEF Repairs, D
    <2> HIDE DEF T, base
    <2>6. <<{}, base>> \in Rel
      <3>1. Repairs(base, base, ls, {}, {})
        BY <2>3, RepairsSame DEF D
      <3>2. AboveOf(N, ls, {}) = {}
        BY DEF AboveOf
      <3> QED BY <2>3, <3>1, <3>2
    <2>7. ASSUME NEW Z \in SUBSET T, NEW u \in T, NEW z \in D, <<Z, z>> \in Rel
          PROVE  <<Z \cup {u}, rec[<<u, z>>]>> \in Rel
      <3> DEFINE z2 == rec[<<u, z>>]
                 Q == AboveOf(N, ls, Z)
                 R == Above(N, ls, u)
                 P == AboveOf(N, ls, Z \cup {u})
      <3>1. Repairs(base, z, ls, Q, {}) /\ Repairs(z, z2, ls, R, {}) /\ z2 \in D
        BY <2>4, <2>5, <2>7
      <3>2. P \subseteq Q \cup R
        BY DEF AboveOf
      <3> HIDE DEF z2, Q, R, P
      <3>3. ({} \ R) \cup {} \subseteq {}
        OBVIOUS
      <3>4. Repairs(base, z2, ls, P, {})
        BY <2>3, <3>1, <3>2, <3>3, RepairsTwice DEF D
      <3> QED BY <3>1, <3>4 DEF z2, P
    <2>8. KeptBy(rec, Rel, T, D)
      BY <2>7 DEF KeptBy
    <2>9. <<T, FoldOf(rec, T, base)>> \in Rel
      <3> HIDE DEF Rel
      <3> QED BY <2>3, <2>5, <2>6, <2>8, FoldOfInduction
    <2>10. Repairs(base, rec[<<w, y>>], ls, AboveOf(N, ls, T), {})
      BY <2>3, <2>9
    <2>11. Above(N, ls, w) \subseteq T \cup AboveOf(N, ls, T) /\ UpsOf(ls, T) \subseteq AboveOf(N, ls, T)
      BY AboveAre DEF T, UpsOf, AboveOf
    <2>12. Repairs(y, rec[<<w, y>>], ls, Above(N, ls, w), {})
      <3> DEFINE z == rec[<<w, y>>]
                 E == UpsOf(ls, T)
                 R == AboveOf(N, ls, T)
                 P == Above(N, ls, w)
      <3> HIDE DEF z, E, R, P
      <3>1. Repairs(y, base, ls, T, E) /\ Repairs(base, z, ls, R, {}) /\ P \subseteq T \cup R /\ E \subseteq R
        BY <2>3, <2>10, <2>11 DEF z, E, R, P
      <3>2. (E \ R) \cup {} \subseteq {}
        BY <3>1
      <3>3. Repairs(y, z, ls, P, {})
        BY <3>1, <3>2, RepairsTwice DEF D
      <3> QED BY <3>3 DEF z, P
    <2> QED BY <2>2, <2>12
  <1>10. x \in D /\ s \notin Bad
    BY <1>9 DEF D
  <1> QED BY <1>3, <1>10

(* What the operations keep: types, statuses and alarms, and no trigger    *)
(* above other services.                                                   *)
SoundServices(ss, ls) ==
    /\ DOMAIN ss \in SUBSET Services /\ ss \in Statuses(DOMAIN ss)
    /\ ls \in SUBSET LinksOf(DOMAIN ss)
    /\ \A q \in DOMAIN ss : AlarmSays(ss[q]) /\ FromBelow(ss, ls, q)
    /\ \A q \in DOMAIN ss : ss[q].triggerid # Null => Downs(ls, q) = {}

(* DBupdate_services: after an event of a trigger its services have its    *)
(* status, and those above are right.                                      *)
LEMMA ServicesUpdated ==
  ASSUME NEW ss, SoundServices(ss, services_links), NEW t \in Triggers, NEW status \in Nat
  PROVE  SoundServices(DBupdate_services(ss, t, status), services_links)
  <1> DEFINE N == DOMAIN ss
             ls == services_links
             T == {s \in N : ss[s].triggerid = t}
             D == Statuses(N)
             Followed(y, u) == DBupdate_services_rec(SetStatus(y, u, status), ls, u)
             r == [p \in T \X D |-> Followed(p[2], p[1])]
             IsIter(g) == g = [z \in SUBSET T |->
                                 IF z = {} THEN ss
                                 ELSE Followed(g[z \ {First(z)}], First(z))]
             iter == CHOOSE g : IsIter(g)
             Rel == {p \in (SUBSET T) \X D : Repairs(ss, p[2], ls, {}, {})}
  <1>1. N \in SUBSET Services /\ ls \in SUBSET LinksOf(N) /\ ss \in D
    BY DEF SoundServices
  <1>2. IsFiniteSet(T) /\ T \in SUBSET N /\ \A s \in T : Downs(ls, s) = {}
    <2>1. IsFiniteSet(N)
      BY <1>1, LinksAre
    <2>2. T \in SUBSET N
      OBVIOUS
    <2>3. \A s \in T : Downs(ls, s) = {}
      BY ServicesAssumption DEF SoundServices
    <2> HIDE DEF T, N
    <2> QED BY <2>1, <2>2, <2>3, FS_Subset
  <1>3. DBupdate_services(ss, t, status) = iter[T]
    BY DEF DBupdate_services, FoldSet, MapThenFoldSet, First
  <1> HIDE DEF N, ls, T
  <1>4. ASSUME NEW u \in T, NEW y \in D
        PROVE  Followed(y, u) \in D /\ Repairs(y, Followed(y, u), ls, {}, {})
    <2> DEFINE x == SetStatus(y, u, status)
               E == Ups(ls, u)
               R == Above(N, ls, u)
               z == DBupdate_services_rec(x, ls, u)
    <2>1. Repairs(y, x, ls, {u}, E) /\ DOMAIN y = N
      BY <1>1, <1>2, StatusSet DEF Statuses
    <2>2. x \in D
      BY <2>1 DEF Repairs
    <2>3. E \subseteq R
      BY <1>1, AboveAre
    <2> HIDE DEF x
    <2>4. Repairs(x, z, ls, R, {})
      BY <1>1, <1>2, <2>2, RecUpdated
    <2> HIDE DEF E, R, z
    <2>5. (E \ R) \cup {} \subseteq {} /\ {} \subseteq {u} \cup R
      BY <2>3
    <2>6. Repairs(y, z, ls, {}, {})
      BY <1>1, <2>1, <2>4, <2>5, RepairsTwice
    <2>7. z \in D
      BY <2>1, <2>6 DEF Repairs
    <2> QED BY <2>6, <2>7 DEF x, z
  <1> HIDE DEF Followed, D
  <1>5. \A u \in T, y \in D : r[<<u, y>>] = Followed(y, u) /\ r[<<u, y>>] \in D
    BY <1>4
  <1>6. \A u \in T, y \in D : r[<<u, y>>] \in D
    BY <1>5
  <1> HIDE DEF r
  <1>7. IsIter(iter)
    <2>1. PICK g \in [SUBSET T -> D] : IsFoldOf(g, r, T, ss)
      BY <1>1, <1>2, <1>6, FoldOfExists
    <2>2. ASSUME NEW z \in SUBSET T, z # {}
          PROVE  r[<<First(z), g[z \ {First(z)}]>>] = Followed(g[z \ {First(z)}], First(z))
      <3>1. First(z) \in T /\ g[z \ {First(z)}] \in D
        BY <2>1, <2>2 DEF First
      <3> QED BY <1>5, <3>1
    <2>3. IsIter(g)
      <3>1. g = [z \in SUBSET T |-> IF z = {} THEN ss ELSE r[<<First(z), g[z \ {First(z)}]>>]]
        BY <2>1 DEF IsFoldOf
      <3> QED BY <2>2, <3>1
    <2> HIDE DEF IsIter
    <2> QED BY <2>3
  <1> HIDE DEF iter
  <1>8. iter[{}] = ss /\ FollowsFold(iter, r, T, D)
    <2>1. ASSUME NEW z \in SUBSET T, z # {}, iter[z \ {First(z)}] \in D
          PROVE  iter[z] = r[<<First(z), iter[z \ {First(z)}]>>]
      <3>1. iter[z] = Followed(iter[z \ {First(z)}], First(z)) /\ First(z) \in T
        BY <1>7, <2>1 DEF First
      <3> QED BY <1>5, <2>1, <3>1
    <2> QED BY <1>7, <2>1 DEF FollowsFold
  <1> HIDE DEF IsIter
  <1>9. iter[T] = FoldOf(r, T, ss)
    BY <1>1, <1>2, <1>6, <1>8, FoldOfIs
  <1>10. <<{}, ss>> \in Rel
    <2>1. Repairs(ss, ss, ls, {}, {})
      BY <1>1, RepairsSame DEF D
    <2> QED BY <1>1, <2>1
  <1>11. ASSUME NEW z \in SUBSET T, NEW u \in T, NEW y \in D, <<z, y>> \in Rel
         PROVE  <<z \cup {u}, r[<<u, y>>]>> \in Rel
    <2> DEFINE y2 == r[<<u, y>>]
    <2>1. Repairs(ss, y, ls, {}, {}) /\ Repairs(y, y2, ls, {}, {}) /\ y2 \in D
      BY <1>4, <1>5, <1>11
    <2> HIDE DEF y2
    <2>2. ({} \ {}) \cup {} \subseteq {} /\ {} \subseteq {} \cup {}
      OBVIOUS
    <2>3. Repairs(ss, y2, ls, {}, {})
      BY <1>1, <2>1, <2>2, RepairsTwice DEF D
    <2> QED BY <2>1, <2>3 DEF y2
  <1>12. KeptBy(r, Rel, T, D)
    BY <1>11 DEF KeptBy
  <1>13. <<T, FoldOf(r, T, ss)>> \in Rel
    <2> HIDE DEF Rel
    <2> QED BY <1>1, <1>2, <1>6, <1>10, <1>12, FoldOfInduction
  <1> DEFINE y == DBupdate_services(ss, t, status)
  <1>14. Repairs(ss, y, ls, {}, {})
    BY <1>3, <1>9, <1>13
  <1> HIDE DEF y
  <1>15. DOMAIN y = N /\ y \in Statuses(N)
    BY <1>14 DEF Repairs, Statuses, N
  <1>16. \A q \in N : AlarmSays(y[q]) /\ FromBelow(y, ls, q)
    BY <1>14 DEF Repairs, SoundServices, N, ls
  <1>17. \A q \in N : y[q].triggerid # Null => Downs(ls, q) = {}
    BY <1>14 DEF Repairs, SoundServices, N, ls
  <1>18. SoundServices(y, ls)
    BY <1>1, <1>15, <1>16, <1>17 DEF SoundServices
  <1> QED BY <1>18 DEF y, ls

(* DBupdate_services_status_all: its parts.                                *)
Parents(ls) == {l[1] : l \in ls}

LeavesSet(x, ls, T) ==
    FoldSet(LAMBDA s, y : SetStatus(y, s, DBget_service_status(y, ls, s, y[s].triggerid)), x, T)

(* Only statuses above the services that are set may be wrong after it.    *)
LEMMA LeavesAreSet ==
  ASSUME NEW N \in SUBSET Services, NEW ls \in SUBSET LinksOf(N), NEW x \in Statuses(N), NEW T \in SUBSET N
  PROVE  Repairs(x, LeavesSet(x, ls, T), ls, {}, UpsOf(ls, T) \cup T)
  <1> DEFINE D == Statuses(N)
             Followed(y, u) == SetStatus(y, u, DBget_service_status(y, ls, u, y[u].triggerid))
             r == [p \in T \X D |-> Followed(p[2], p[1])]
             IsIter(g) == g = [z \in SUBSET T |->
                                 IF z = {} THEN x
                                 ELSE Followed(g[z \ {First(z)}], First(z))]
             iter == CHOOSE g : IsIter(g)
             Rel == {p \in (SUBSET T) \X D : Repairs(x, p[2], ls, {}, UpsOf(ls, p[1]) \cup p[1])}
  <1>1. IsFiniteSet(T)
    BY LinksAre, FS_Subset
  <1>2. ASSUME NEW u \in T, NEW y \in D
        PROVE  Followed(y, u) \in D /\ Repairs(y, Followed(y, u), ls, {}, Ups(ls, u) \cup {u})
    <2> DEFINE status == DBget_service_status(y, ls, u, y[u].triggerid)
    <2>1. y[u].triggerid \in Triggers \cup {Null} /\ DOMAIN y = N
      BY DEF Statuses, ServiceRow
    <2>2. status \in Nat
      BY <2>1, StatusIsFound
    <2> HIDE DEF status
    <2>3. Repairs(y, SetStatus(y, u, status), ls, {}, Ups(ls, u) \cup {u})
      BY <2>2, StatusSet
    <2>4. Repairs(y, Followed(y, u), ls, {}, Ups(ls, u) \cup {u})
      BY <2>3 DEF status
    <2> HIDE DEF Followed
    <2> QED BY <2>1, <2>4 DEF Repairs
  <1>3. LeavesSet(x, ls, T) = iter[T]
    BY DEF LeavesSet, FoldSet, MapThenFoldSet, First
  <1> HIDE DEF Followed, D
  <1>4. \A u \in T, y \in D : Followed(y, u) \in D
    BY <1>2
  <1>5. \A u \in T, y \in D : r[<<u, y>>] = Followed(y, u) /\ r[<<u, y>>] \in D
    BY <1>4
  <1>6. \A u \in T, y \in D : r[<<u, y>>] \in D
    BY <1>5
  <1> HIDE DEF r
  <1>7. IsIter(iter)
    <2>1. PICK g \in [SUBSET T -> D] : IsFoldOf(g, r, T, x)
      BY <1>1, <1>6, FoldOfExists DEF D
    <2>2. ASSUME NEW z \in SUBSET T, z # {}
          PROVE  r[<<First(z), g[z \ {First(z)}]>>] = Followed(g[z \ {First(z)}], First(z))
      <3>1. First(z) \in T /\ g[z \ {First(z)}] \in D
        BY <2>1, <2>2 DEF First
      <3> QED BY <1>5, <3>1
    <2>3. IsIter(g)
      <3>1. g = [z \in SUBSET T |-> IF z = {} THEN x ELSE r[<<First(z), g[z \ {First(z)}]>>]]
        BY <2>1 DEF IsFoldOf
      <3> QED BY <2>2, <3>1
    <2> HIDE DEF IsIter
    <2> QED BY <2>3
  <1> HIDE DEF iter
  <1>8. iter[{}] = x /\ FollowsFold(iter, r, T, D)
    <2>1. ASSUME NEW z \in SUBSET T, z # {}, iter[z \ {First(z)}] \in D
          PROVE  iter[z] = r[<<First(z), iter[z \ {First(z)}]>>]
      <3>1. iter[z] = Followed(iter[z \ {First(z)}], First(z)) /\ First(z) \in T
        BY <1>7, <2>1 DEF First
      <3> QED BY <1>5, <2>1, <3>1
    <2> QED BY <1>7, <2>1 DEF FollowsFold
  <1> HIDE DEF IsIter
  <1>9. iter[T] = FoldOf(r, T, x)
    BY <1>1, <1>6, <1>8, FoldOfIs DEF D
  <1>10. <<{}, x>> \in Rel
    <2>1. Repairs(x, x, ls, {}, UpsOf(ls, {}) \cup {})
      BY RepairsSame
    <2> QED BY <2>1 DEF D
  <1>11. ASSUME NEW z \in SUBSET T, NEW u \in T, NEW y \in D, <<z, y>> \in Rel
         PROVE  <<z \cup {u}, r[<<u, y>>]>> \in Rel
    <2> DEFINE y2 == r[<<u, y>>]
               E == UpsOf(ls, z) \cup z
               F == Ups(ls, u) \cup {u}
               G == UpsOf(ls, z \cup {u}) \cup (z \cup {u})
    <2>1. Repairs(x, y, ls, {}, E) /\ Repairs(y, y2, ls, {}, F) /\ y2 \in D
      BY <1>2, <1>5, <1>11
    <2>2. (E \ {}) \cup F \subseteq G /\ {} \subseteq {} \cup {}
      BY DEF UpsOf
    <2> HIDE DEF y2, E, F, G
    <2>3. Repairs(x, y2, ls, {}, G)
      BY <2>1, <2>2, RepairsTwice DEF D
    <2> QED BY <2>1, <2>3 DEF y2, G
  <1>12. KeptBy(r, Rel, T, D)
    BY <1>11 DEF KeptBy
  <1>13. <<T, FoldOf(r, T, x)>> \in Rel
    <2> HIDE DEF Rel
    <2> QED BY <1>1, <1>6, <1>10, <1>12, FoldOfInduction DEF D
  <1> QED BY <1>3, <1>9, <1>13

FollowedUp(x, ls, T) == FoldSet(LAMBDA s, y : DBupdate_services_rec(y, ls, s), x, T)

(* Everything above the services that it begins with is right.             *)
LEMMA AboveRepaired ==
  ASSUME NEW N \in SUBSET Services, NEW ls \in SUBSET LinksOf(N), NEW x \in Statuses(N), NEW T \in SUBSET N
  PROVE  Repairs(x, FollowedUp(x, ls, T), ls, AboveOf(N, ls, T), {})
  <1> DEFINE D == Statuses(N)
             Followed(y, u) == DBupdate_services_rec(y, ls, u)
             r == [p \in T \X D |-> Followed(p[2], p[1])]
             IsIter(g) == g = [z \in SUBSET T |->
                                 IF z = {} THEN x
                                 ELSE Followed(g[z \ {First(z)}], First(z))]
             iter == CHOOSE g : IsIter(g)
             Rel == {p \in (SUBSET T) \X D : Repairs(x, p[2], ls, AboveOf(N, ls, p[1]), {})}
  <1>1. IsFiniteSet(T)
    BY LinksAre, FS_Subset
  <1>2. ASSUME NEW u \in T, NEW y \in D
        PROVE  Followed(y, u) \in D /\ Repairs(y, Followed(y, u), ls, Above(N, ls, u), {})
    <2>1. Repairs(y, Followed(y, u), ls, Above(N, ls, u), {}) /\ DOMAIN y = N
      BY RecUpdated DEF Statuses
    <2> HIDE DEF Followed
    <2> QED BY <2>1 DEF Repairs
  <1>3. FollowedUp(x, ls, T) = iter[T]
    BY DEF FollowedUp, FoldSet, MapThenFoldSet, First
  <1> HIDE DEF Followed, D
  <1>4. \A u \in T, y \in D : Followed(y, u) \in D
    BY <1>2
  <1>5. \A u \in T, y \in D : r[<<u, y>>] = Followed(y, u) /\ r[<<u, y>>] \in D
    BY <1>4
  <1>6. \A u \in T, y \in D : r[<<u, y>>] \in D
    BY <1>5
  <1> HIDE DEF r
  <1>7. IsIter(iter)
    <2>1. PICK g \in [SUBSET T -> D] : IsFoldOf(g, r, T, x)
      BY <1>1, <1>6, FoldOfExists DEF D
    <2>2. ASSUME NEW z \in SUBSET T, z # {}
          PROVE  r[<<First(z), g[z \ {First(z)}]>>] = Followed(g[z \ {First(z)}], First(z))
      <3>1. First(z) \in T /\ g[z \ {First(z)}] \in D
        BY <2>1, <2>2 DEF First
      <3> QED BY <1>5, <3>1
    <2>3. IsIter(g)
      <3>1. g = [z \in SUBSET T |-> IF z = {} THEN x ELSE r[<<First(z), g[z \ {First(z)}]>>]]
        BY <2>1 DEF IsFoldOf
      <3> QED BY <2>2, <3>1
    <2> HIDE DEF IsIter
    <2> QED BY <2>3
  <1> HIDE DEF iter
  <1>8. iter[{}] = x /\ FollowsFold(iter, r, T, D)
    <2>1. ASSUME NEW z \in SUBSET T, z # {}, iter[z \ {First(z)}] \in D
          PROVE  iter[z] = r[<<First(z), iter[z \ {First(z)}]>>]
      <3>1. iter[z] = Followed(iter[z \ {First(z)}], First(z)) /\ First(z) \in T
        BY <1>7, <2>1 DEF First
      <3> QED BY <1>5, <2>1, <3>1
    <2> QED BY <1>7, <2>1 DEF FollowsFold
  <1> HIDE DEF IsIter
  <1>9. iter[T] = FoldOf(r, T, x)
    BY <1>1, <1>6, <1>8, FoldOfIs DEF D
  <1>10. <<{}, x>> \in Rel
    <2>1. Repairs(x, x, ls, {}, {})
      BY RepairsSame
    <2>2. AboveOf(N, ls, {}) = {}
      BY DEF AboveOf
    <2> QED BY <2>1, <2>2 DEF D
  <1>11. ASSUME NEW z \in SUBSET T, NEW u \in T, NEW y \in D, <<z, y>> \in Rel
         PROVE  <<z \cup {u}, r[<<u, y>>]>> \in Rel
    <2> DEFINE y2 == r[<<u, y>>]
               Q == AboveOf(N, ls, z)
               R == Above(N, ls, u)
               P == AboveOf(N, ls, z \cup {u})
    <2>1. Repairs(x, y, ls, Q, {}) /\ Repairs(y, y2, ls, R, {}) /\ y2 \in D
      BY <1>2, <1>5, <1>11
    <2>2. ({} \ R) \cup {} \subseteq {} /\ P \subseteq Q \cup R
      BY DEF AboveOf
    <2> HIDE DEF y2, Q, R, P
    <2>3. Repairs(x, y2, ls, P, {})
      BY <2>1, <2>2, RepairsTwice DEF D
    <2> QED BY <2>1, <2>3 DEF y2, P
  <1>12. KeptBy(r, Rel, T, D)
    BY <1>11 DEF KeptBy
  <1>13. <<T, FoldOf(r, T, x)>> \in Rel
    <2> HIDE DEF Rel
    <2> QED BY <1>1, <1>6, <1>10, <1>12, FoldOfInduction DEF D
  <1> QED BY <1>3, <1>9, <1>13

Begins(ls) ==
    {Max(Downs(ls, p) \ Parents(ls)) : p \in {q \in Parents(ls) : Downs(ls, q) \ Parents(ls) # {}}}

(* One child of each parent is enough to begin with: every parent is above *)
(* one of them, by induction from the bottom.                              *)
LEMMA ParentsAbove ==
  ASSUME NEW N \in SUBSET Services, NEW ls \in SUBSET LinksOf(N)
  PROVE  /\ Begins(ls) \in SUBSET N
         /\ Parents(ls) \subseteq AboveOf(N, ls, Begins(ls))
         /\ Parents(ls) \subseteq N
         /\ \A q : q \notin Parents(ls) => Downs(ls, q) = {}
  <1> DEFINE parents == Parents(ls)
             Bad == {p \in parents : p \notin AboveOf(N, ls, Begins(ls))}
  <1>1. \A l \in ls : l \in N \X N
    BY ServicesAssumption DEF LinksOf
  <1>2. parents \in SUBSET N /\ \A q : q \in parents <=> Downs(ls, q) # {}
    BY <1>1 DEF Parents, Downs
  <1> HIDE DEF parents
  <1>3. ASSUME NEW p, Downs(ls, p) \ parents # {}
        PROVE  Max(Downs(ls, p) \ parents) \in Downs(ls, p) \ parents
    <2> DEFINE S == Downs(ls, p) \ parents
    <2>1. IsFiniteSet(Downs(ls, p)) /\ Downs(ls, p) \in SUBSET N /\ N \subseteq Nat
      BY LinksAre
    <2>2. S \in SUBSET Nat /\ IsFiniteSet(S) /\ S # {}
      BY <1>3, <2>1, FS_Subset
    <2> HIDE DEF S
    <2>3. Max(S) \in S
      BY <2>2, GreatestId
    <2> QED BY <2>3 DEF S
  <1>4. \A s : Downs(ls, s) \in SUBSET N
    BY LinksAre
  <1>5. Begins(ls) \in SUBSET N
    BY <1>3, <1>4 DEF Begins, parents
  <1>6. \A s, u : u \in Ups(ls, s) <=> s \in Downs(ls, u)
    BY LinksAre
  <1>7. Bad = {}
    <2> SUFFICES ASSUME Bad # {} PROVE FALSE
      OBVIOUS
    <2>1. Bad \in SUBSET N
      BY <1>2
    <2>2. PICK p \in Bad : Downs(ls, p) \cap Bad = {}
      <3> HIDE DEF Bad
      <3>1. HasBottom(ls, Bad)
        BY <2>1, TopAndBottom
      <3> QED BY <3>1 DEF HasBottom
    <2>3. p \in parents /\ p \notin AboveOf(N, ls, Begins(ls))
      OBVIOUS
    <2>4. CASE Downs(ls, p) \ parents # {}
      <3> DEFINE b == Max(Downs(ls, p) \ parents)
      <3>1. b \in Downs(ls, p) /\ b \in Begins(ls)
        BY <1>3, <2>3, <2>4 DEF Begins, parents
      <3>2. p \in Ups(ls, b)
        BY <1>6, <3>1
      <3>3. p \in Above(N, ls, b)
        BY <3>2, AboveAre
      <3> QED BY <2>3, <3>1, <3>3 DEF AboveOf
    <2>5. CASE Downs(ls, p) \ parents = {}
      <3>1. PICK d \in Downs(ls, p) : d \in parents
        BY <1>2, <2>3, <2>5
      <3>2. d \in AboveOf(N, ls, Begins(ls)) /\ p \in Ups(ls, d)
        BY <1>6, <2>2, <3>1
      <3>3. PICK b \in Begins(ls) : d \in Above(N, ls, b)
        BY <3>2 DEF AboveOf
      <3>4. p \in Above(N, ls, b)
        BY <3>2, <3>3, AboveAre
      <3> QED BY <2>3, <3>4 DEF AboveOf
    <2> QED BY <2>4, <2>5
  <1> QED BY <1>2, <1>5, <1>7 DEF parents

(* DBupdate_services_status_all makes every status right, whatever they    *)
(* were.                                                                   *)
LEMMA AllFound ==
  ASSUME NEW N \in SUBSET Services, NEW ls \in SUBSET LinksOf(N), NEW ss \in Statuses(N),
         \A q \in N : AlarmSays(ss[q])
  PROVE  /\ SoundServices(DBupdate_services_status_all(ss, ls), ls)
         /\ DOMAIN DBupdate_services_status_all(ss, ls) = N
  <1> DEFINE parents == Parents(ls)
             cleared == [s \in DOMAIN ss |->
                           IF s \in parents THEN [ss[s] EXCEPT !.triggerid = Null] ELSE ss[s]]
             leaves == LeavesSet(cleared, ls, DOMAIN ss \ parents)
             y == FollowedUp(leaves, ls, Begins(ls))
             R == AboveOf(N, ls, Begins(ls))
             E == UpsOf(ls, N \ parents) \cup (N \ parents)
  <1>1. DOMAIN ss = N
    BY DEF Statuses
  <1>2. DBupdate_services_status_all(ss, ls) = y
    BY DEF DBupdate_services_status_all, LeavesSet, FollowedUp, Begins, Parents
  <1>3. /\ cleared \in Statuses(N)
        /\ \A q \in N : AlarmSays(cleared[q]) /\ (q \in parents => cleared[q].triggerid = Null)
    BY <1>1 DEF Statuses, ServiceRow, AlarmSays
  <1> HIDE DEF cleared, parents
  <1>4. Repairs(cleared, leaves, ls, {}, E)
    <2>1. N \ parents \in SUBSET N
      OBVIOUS
    <2> QED BY <1>1, <1>3, <2>1, LeavesAreSet
  <1>5. DOMAIN cleared = N
    BY <1>3 DEF Statuses
  <1>6. leaves \in Statuses(N)
    BY <1>4, <1>5 DEF Repairs
  <1>7. Begins(ls) \in SUBSET N /\ parents \subseteq R /\ \A q : q \notin parents => Downs(ls, q) = {}
    BY ParentsAbove DEF parents
  <1> HIDE DEF leaves, R
  <1>8. Repairs(leaves, y, ls, R, {})
    BY <1>6, <1>7, AboveRepaired DEF R
  <1> HIDE DEF y, E
  <1>9. DOMAIN leaves = N /\ y \in Statuses(N)
    BY <1>6, <1>8 DEF Repairs, Statuses
  <1>10. \A q \in N : y[q].triggerid = cleared[q].triggerid /\ AlarmSays(y[q])
    BY <1>3, <1>4, <1>5, <1>8, <1>9 DEF Repairs
  <1>11. \A q \in N : FromBelow(y, ls, q)
    <2>1. \A q \in N : q \in R => FromBelow(y, ls, q)
      BY <1>8, <1>9 DEF Repairs
    <2>2. \A q \in N : q \notin R => FromBelow(y, ls, q)
      BY <1>7 DEF FromBelow
    <2> QED BY <2>1, <2>2
  <1>12. DOMAIN y = N
    BY <1>9 DEF Statuses
  <1>13. \A q \in N : y[q].triggerid # Null => Downs(ls, q) = {}
    BY <1>3, <1>7, <1>10
  <1>14. SoundServices(y, ls)
    BY <1>9, <1>10, <1>11, <1>12, <1>13 DEF SoundServices
  <1> QED BY <1>2, <1>12, <1>14

(* What DBdelete_service takes and returns.                                *)
ServiceDbs ==
    {db \in [links : SUBSET Tree, services : UNION {Statuses(N) : N \in SUBSET Services}, crashed : BOOLEAN] :
        SoundServices(db.services, db.links)}

(* DBdelete_service.                                                       *)
LEMMA ServiceDeleted ==
  ASSUME NEW db \in ServiceDbs, NEW s
  PROVE  DBdelete_service(s, db) \in ServiceDbs
  <1> DEFINE N == DOMAIN db.services
             M == N \ {s}
             ls == {l \in db.links : s \notin {l[1], l[2]}}
             ss == [x \in M |-> db.services[x]]
             y == DBupdate_services_status_all(ss, ls)
  <1>1. /\ db.links \in SUBSET Tree /\ db.crashed \in BOOLEAN
        /\ SoundServices(db.services, db.links)
    BY DEF ServiceDbs
  <1>2. /\ N \in SUBSET Services /\ db.services \in Statuses(N) /\ db.links \in SUBSET LinksOf(N)
        /\ \A q \in N : AlarmSays(db.services[q])
    BY <1>1 DEF SoundServices
  <1>3. M \in SUBSET Services
    BY <1>2
  <1>4. ls \in SUBSET LinksOf(M) /\ ls \in SUBSET Tree
    BY <1>1, <1>2 DEF LinksOf
  <1>5. ss \in Statuses(M) /\ \A q \in M : AlarmSays(ss[q])
    BY <1>2 DEF Statuses
  <1> HIDE DEF M, ls, ss
  <1>6. SoundServices(y, ls) /\ DOMAIN y = M
    BY <1>3, <1>4, <1>5, AllFound
  <1>7. y \in Statuses(M)
    BY <1>6 DEF SoundServices
  <1>8. DBdelete_service(s, db) = [links |-> ls, services |-> y, crashed |-> db.crashed \/ NullRead(ss, ls)]
    BY DEF DBdelete_service, ls, ss, M
  <1> HIDE DEF y
  <1>9. (db.crashed \/ NullRead(ss, ls)) \in BOOLEAN
    BY <1>1
  <1> QED BY <1>3, <1>4, <1>6, <1>7, <1>8, <1>9 DEF ServiceDbs

(* DBdelete_services_by_triggerid, for all services of the trigger.        *)
LEMMA ServicesDeleted ==
  ASSUME NEW db \in ServiceDbs, NEW T, IsFiniteSet(T)
  PROVE  FoldSet(DBdelete_service, db, T) \in ServiceDbs
  <1> DEFINE D == ServiceDbs
             r == [p \in T \X D |-> DBdelete_service(p[1], p[2])]
             IsIter(g) == g = [z \in SUBSET T |->
                                 IF z = {} THEN db
                                 ELSE DBdelete_service(First(z), g[z \ {First(z)}])]
             iter == CHOOSE g : IsIter(g)
             Rel == (SUBSET T) \X D
  <1>1. FoldSet(DBdelete_service, db, T) = iter[T]
    BY DEF FoldSet, MapThenFoldSet, First
  <1> HIDE DEF D
  <1>2. \A u \in T, y \in D : r[<<u, y>>] = DBdelete_service(u, y) /\ r[<<u, y>>] \in D
    BY ServiceDeleted DEF D
  <1>3. \A u \in T, y \in D : r[<<u, y>>] \in D
    BY <1>2
  <1>4. db \in D
    BY DEF D
  <1> HIDE DEF r
  <1>5. IsIter(iter)
    <2>1. PICK g \in [SUBSET T -> D] : IsFoldOf(g, r, T, db)
      BY <1>3, <1>4, FoldOfExists
    <2>2. ASSUME NEW z \in SUBSET T, z # {}
          PROVE  r[<<First(z), g[z \ {First(z)}]>>] = DBdelete_service(First(z), g[z \ {First(z)}])
      <3>1. First(z) \in T /\ g[z \ {First(z)}] \in D
        BY <2>1, <2>2 DEF First
      <3> QED BY <1>2, <3>1
    <2>3. IsIter(g)
      <3>1. g = [z \in SUBSET T |-> IF z = {} THEN db ELSE r[<<First(z), g[z \ {First(z)}]>>]]
        BY <2>1 DEF IsFoldOf
      <3> QED BY <2>2, <3>1
    <2> HIDE DEF IsIter
    <2> QED BY <2>3
  <1> HIDE DEF iter
  <1>6. iter[{}] = db /\ FollowsFold(iter, r, T, D)
    <2>1. ASSUME NEW z \in SUBSET T, z # {}, iter[z \ {First(z)}] \in D
          PROVE  iter[z] = r[<<First(z), iter[z \ {First(z)}]>>]
      <3>1. iter[z] = DBdelete_service(First(z), iter[z \ {First(z)}]) /\ First(z) \in T
        BY <1>5, <2>1 DEF First
      <3> QED BY <1>2, <2>1, <3>1
    <2> QED BY <1>5, <2>1 DEF FollowsFold
  <1> HIDE DEF IsIter
  <1>7. iter[T] = FoldOf(r, T, db)
    BY <1>3, <1>4, <1>6, FoldOfIs
  <1>8. <<{}, db>> \in Rel /\ KeptBy(r, Rel, T, D)
    BY <1>3, <1>4 DEF KeptBy
  <1>9. FoldOf(r, T, db) \in D
    <2> HIDE DEF Rel
    <2> QED BY <1>3, <1>4, <1>8, FoldOfInduction
  <1> QED BY <1>1, <1>7, <1>9 DEF D

-----------------------------------------------------------------------------
(* The inductive invariant.                                                *)
ServicesInv == SoundServices(services, services_links)

(* The first statuses are right.                                           *)
LEMMA ServicesInitSound == ASSUME ServicesInit PROVE ServicesInv
  <1>1. DOMAIN services = Services /\ services \in Statuses(Services)
    BY ServicesAssumption DEF ServicesInit, Statuses, ServiceRow
  <1>2. services_links \in SUBSET LinksOf(Services) /\ services_links = Tree
    BY ServicesAssumption DEF ServicesInit, LinksOf
  <1>3. \A q \in Services : /\ services[q].triggerid = TriggerOf[q] /\ services[q].status = 0
                            /\ services[q].alarm = Null
    BY DEF ServicesInit
  <1>4. \A q \in Services : services[q].triggerid # Null => Downs(services_links, q) = {}
    BY <1>2, <1>3, ServicesAssumption
  <1>5. ASSUME NEW q \in Services PROVE FromBelow(services, services_links, q)
    <2> DEFINE below == {services[d].status : d \in Downs(services_links, q)}
    <2>1. SUFFICES ASSUME Downs(services_links, q) # {}, Algorithms[q] # "none"
                   PROVE  Found(services, services_links, q) = 0
      BY <1>3 DEF FromBelow
    <2>2. Downs(services_links, q) \in SUBSET Services
      <3>1. \A s : Downs(services_links, s) \in SUBSET Services
        BY <1>2, LinksAre
      <3> QED BY <3>1
    <2>3. below = {0}
      BY <1>3, <2>1, <2>2
    <2>4. Max({0}) = 0 /\ Min({0}) = 0
      <3>4. IsFiniteSet({0})
        BY FS_Singleton
      <3>1. {0} \in SUBSET Nat /\ {0} # {} /\ IsFiniteSet({0})
        BY <3>4
      <3>2. Max({0}) \in {0}
        BY <3>1, GreatestId
      <3>3. Min({0}) \in {0}
        BY <3>1, SmallestId
      <3> QED BY <3>2, <3>3
    <2> QED BY <2>3, <2>4 DEF Found
  <1>6. \A q \in Services : AlarmSays(services[q])
    BY <1>3 DEF AlarmSays
  <1> QED BY <1>1, <1>2, <1>4, <1>5, <1>6 DEF ServicesInv, SoundServices

(* Events and deleted triggers keep it.                                    *)
LEMMA ServicesNextSound == ASSUME ServicesInv, [ServicesNext]_servicesVars PROVE ServicesInv'
  <1>1. CASE UNCHANGED servicesVars
    <2>1. services' = services /\ services_links' = services_links
      BY <1>1 DEF servicesVars
    <2>2. SoundServices(services', services_links')
      BY <2>1 DEF ServicesInv
    <2> QED BY <2>2 DEF ServicesInv
  <1>2. ASSUME NEW t \in Triggers, TriggerEvent(t) PROVE ServicesInv'
    <2>1. PICK problem \in BOOLEAN :
             services' = DBupdate_services(services, t, IF problem THEN Priorities[t] ELSE 0)
      BY <1>2 DEF TriggerEvent
    <2> DEFINE status == IF problem THEN Priorities[t] ELSE 0
    <2>2. status \in Nat
      BY ServicesAssumption
    <2> HIDE DEF status
    <2>3. SoundServices(DBupdate_services(services, t, status), services_links)
      BY <2>2, ServicesUpdated DEF ServicesInv
    <2>4. services' = DBupdate_services(services, t, status) /\ services_links' = services_links
      BY <1>2, <2>1 DEF status, TriggerEvent
    <2>5. SoundServices(services', services_links')
      BY <2>3, <2>4
    <2> QED BY <2>5 DEF ServicesInv
  <1>3. ASSUME NEW t \in Triggers, DBdelete_services_by_triggerid(t) PROVE ServicesInv'
    <2> DEFINE T == {s \in DOMAIN services : services[s].triggerid = t}
               base == [links |-> services_links, services |-> services, crashed |-> FALSE]
               db == FoldSet(DBdelete_service, base, T)
    <2>1. /\ DOMAIN services \in SUBSET Services /\ services \in Statuses(DOMAIN services)
          /\ services_links \in SUBSET LinksOf(DOMAIN services)
      BY DEF ServicesInv, SoundServices
    <2>2. IsFiniteSet(T)
      <3>1. T \in SUBSET Services
        BY <2>1
      <3> HIDE DEF T
      <3> QED BY <3>1, ServicesAssumption, FS_Subset
    <2>3. base \in ServiceDbs
      <3>1. services_links \in SUBSET Tree
        BY <2>1 DEF LinksOf
      <3>2. services \in UNION {Statuses(N) : N \in SUBSET Services}
        BY <2>1
      <3> QED BY <3>1, <3>2 DEF ServiceDbs, ServicesInv
    <2> HIDE DEF T, base
    <2>4. db \in ServiceDbs
      BY <2>2, <2>3, ServicesDeleted
    <2>5. \/ UNCHANGED <<services, services_links>>
          \/ services' = db.services /\ services_links' = db.links
      BY <1>3 DEF DBdelete_services_by_triggerid, T, base
    <2> HIDE DEF db
    <2>6. SoundServices(db.services, db.links)
      BY <2>4 DEF ServiceDbs
    <2>7. SoundServices(services', services_links')
      BY <2>5, <2>6 DEF ServicesInv
    <2> QED BY <2>7 DEF ServicesInv
  <1> QED BY <1>1, <1>2, <1>3 DEF ServicesNext

(* The invariant gives the property.                                       *)
LEMMA SoundIsFromBelow == ASSUME ServicesInv PROVE StatusFromBelow
  <1> DEFINE N == DOMAIN services
  <1>1. /\ N \in SUBSET Services /\ services \in Statuses(N) /\ services_links \in SUBSET LinksOf(N)
        /\ \A q \in N : AlarmSays(services[q]) /\ FromBelow(services, services_links, q)
    BY DEF ServicesInv, SoundServices
  <1> HIDE DEF N
  <1>2. ASSUME NEW s \in N
        PROVE  DBget_service_status(services, services_links, s, Null) = Found(services, services_links, s)
    <2>1. Null \in Triggers \cup {Null}
      OBVIOUS
    <2> QED BY <1>1, <2>1, StatusIsFound
  <1>3. \A s \in {l[1] : l \in services_links} : s \in N /\ Downs(services_links, s) # {}
    BY <1>1, ServicesAssumption DEF LinksOf, Downs
  <1> QED BY <1>1, <1>2, <1>3 DEF StatusFromBelow, AlarmSays, FromBelow, N

(* DBupdate_services and DBdelete_services_by_triggerid (host.c): a        *)
(* service with others below has the status that theirs make it, and its   *)
(* last alarm says so, however the services are linked, as long as they    *)
(* are not linked in a circle and triggers are at the bottom.              *)
THEOREM ServicesKeepStatuses == ServicesSpec => []StatusFromBelow
  <1>1. ServicesInit => ServicesInv
    BY ServicesInitSound
  <1>2. ServicesInv /\ [ServicesNext]_servicesVars => ServicesInv'
    BY ServicesNextSound
  <1>3. ServicesInv => StatusFromBelow
    BY SoundIsFromBelow
  <1> QED BY <1>1, <1>2, <1>3, PTL DEF ServicesSpec
=============================================================================
