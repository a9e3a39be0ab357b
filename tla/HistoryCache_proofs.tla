------------------------ MODULE HistoryCache_proofs -------------------------
(***************************************************************************)
(* Proofs about HistoryCache, for any number of processes, any size of the *)
(* ring and of the text buffer, and any values: what its processes keep,   *)
(* that it implements HistoryQueue, and that no value is lost, duplicated  *)
(* or stored twice.  Last, about ServerShutdown: a server that has stopped *)
(* has written its cache; nothing before uses ShutdownAssumption.          *)
(***************************************************************************)
EXTENDS ServerShutdown, SequenceTheorems, WellFoundedInduction, TLAPS

(* A process that is adding a value has one.                               *)
PendOK ==
    \A p \in Procs : pc[p] \in {"add_lock", "get_ptr", "fill", "sleep"} =>
                        pend[p] \in Values \cup SyslogValues

(* The slot that is being filled is reserved and its strings fit.          *)
FillOK ==
    \A p \in Procs : pc[p] = "fill" =>
        history_num > 0 /\ last_text + TextLen(p) <= TEXTBUFFER_SIZE

(* The scan of a syncer is n[s] slots before the end of the ring.          *)
ScanOK ==
    \A s \in Syncers : pc[s] = "scan" =>
        n[s] <= history_num /\ f[s] = Slot(history_num - n[s])

(* The strings of an entry are in the used part of the text buffer, the    *)
(* source right after the value, and hold the entry's own text.            *)
End(e) == e.value_str + e.len1 + e.len2

TextPlaced(e) ==
    /\ HasText(e) <=> e.value_str # NULL
    /\ e.source # NULL => HasText(e) /\ e.source = e.value_str + e.len1
    /\ HasText(e) => 0 <= e.value_str /\ End(e) <= last_text

TextOwn(e) ==
    HasText(e) => /\ \A c \in Cells : e.value_str <= c /\ c < e.value_str + e.len1 => text[c] = e.id
                  /\ \A c \in Cells : e.value_str + e.len1 <= c /\ c < End(e) => text[c] = -e.id

TextsOK == \A i \in 0 .. Filled - 1 : TextPlaced(Cached(i)) /\ TextOwn(Cached(i))

(* The strings are in the buffer in the order of their entries.            *)
TextsOrdered ==
    \A i, j \in 0 .. Filled - 1 :
        i < j /\ HasText(Cached(i)) /\ HasText(Cached(j)) => End(Cached(i)) <= Cached(j).value_str

BatchesOwn == \A s \in Syncers : \A k \in 1 .. Len(batch[s]) : OwnText(batch[s][k])

Inv ==
    /\ TypeOK
    /\ LockHeld
    /\ PendOK
    /\ FillOK
    /\ ScanOK
    /\ TextsOK
    /\ TextsOrdered
    /\ BatchesOwn
    /\ OneValuePerItem

-----------------------------------------------------------------------------
(* The ring.                                                               *)

(* Addition modulo the size of the ring.                                   *)
LEMMA ModAdd ==
  ASSUME NEW N \in Nat \ {0}, NEW a \in 0 .. N - 1, NEW i \in 0 .. N
  PROVE  /\ (a + i) % N = IF a + i < N THEN a + i ELSE a + i - N
         /\ (a + i) % N \in 0 .. N - 1
  OBVIOUS

(* Subtraction modulo the size of the ring.                                *)
LEMMA ModSub ==
  ASSUME NEW N \in Nat \ {0}, NEW a \in 0 .. N - 1, NEW b \in 0 .. N - 1
  PROVE  (b - a) % N = IF b >= a THEN b - a ELSE b - a + N
  OBVIOUS

LEMMA DivNat ==
  ASSUME NEW a \in Nat, NEW b \in Nat \ {0}
  PROVE  a \div b \in Nat
  OBVIOUS

(* A position of the ring has a slot of its own.                           *)
LEMMA SlotType ==
  ASSUME TypeOK, NEW i \in 0 .. HISTORY_SIZE
  PROVE  /\ Slot(i) \in Slots
         /\ Slot(i) = IF history_first + i < HISTORY_SIZE THEN history_first + i
                      ELSE history_first + i - HISTORY_SIZE
  BY SizeAssumption, ModAdd DEF SizeAssumption, TypeOK, Slots, Slot

LEMMA SlotInjective ==
  ASSUME TypeOK, NEW i \in 0 .. HISTORY_SIZE - 1, NEW j \in 0 .. HISTORY_SIZE - 1,
         Slot(i) = Slot(j)
  PROVE  i = j
  <1>1. i \in 0 .. HISTORY_SIZE /\ j \in 0 .. HISTORY_SIZE
    BY SizeAssumption DEF SizeAssumption
  <1>2. Slot(i) = IF history_first + i < HISTORY_SIZE THEN history_first + i
                  ELSE history_first + i - HISTORY_SIZE
    BY <1>1, SlotType
  <1>3. Slot(j) = IF history_first + j < HISTORY_SIZE THEN history_first + j
                  ELSE history_first + j - HISTORY_SIZE
    BY <1>1, SlotType
  <1>4. history_first \in 0 .. HISTORY_SIZE - 1 /\ HISTORY_SIZE \in Nat \ {0}
    BY SizeAssumption DEF SizeAssumption, TypeOK, Slots
  <1>5. (IF history_first + i < HISTORY_SIZE THEN history_first + i
         ELSE history_first + i - HISTORY_SIZE) =
        (IF history_first + j < HISTORY_SIZE THEN history_first + j
         ELSE history_first + j - HISTORY_SIZE)
    BY <1>2, <1>3
  <1> QED BY <1>4, <1>5

(* Position i of the ring that starts one slot later is position i + 1.    *)
LEMMA SlotNext ==
  ASSUME TypeOK, history_first' = (history_first + 1) % HISTORY_SIZE,
         NEW i \in 0 .. HISTORY_SIZE - 1
  PROVE  Slot(i)' = Slot(i + 1)
  <1>1. history_first \in 0 .. HISTORY_SIZE - 1 /\ HISTORY_SIZE \in Nat \ {0}
    BY SizeAssumption DEF SizeAssumption, TypeOK, Slots
  <1>2. 1 \in 0 .. HISTORY_SIZE /\ i \in 0 .. HISTORY_SIZE /\ i + 1 \in 0 .. HISTORY_SIZE
    BY <1>1
  <1>3. history_first' = IF history_first + 1 < HISTORY_SIZE THEN history_first + 1 ELSE 0
    <2>1. (history_first + 1) % HISTORY_SIZE = IF history_first + 1 < HISTORY_SIZE
                                               THEN history_first + 1
                                               ELSE history_first + 1 - HISTORY_SIZE
      BY <1>1, <1>2, ModAdd
    <2> QED BY <1>1, <2>1
  <1>4. history_first' \in 0 .. HISTORY_SIZE - 1
    BY <1>1, <1>3
  <1>5. (history_first' + i) % HISTORY_SIZE = IF history_first' + i < HISTORY_SIZE
                                             THEN history_first' + i
                                             ELSE history_first' + i - HISTORY_SIZE
    BY <1>1, <1>2, <1>4, ModAdd
  <1>6. Slot(i + 1) = IF history_first + (i + 1) < HISTORY_SIZE THEN history_first + (i + 1)
                     ELSE history_first + (i + 1) - HISTORY_SIZE
    BY <1>2, SlotType
  <1> QED BY <1>1, <1>3, <1>5, <1>6 DEF Slot

(* ShiftUp closes the gap at position k: in the ring that starts one slot  *)
(* later, the values before the gap and the ones behind it follow each     *)
(* other as they did.                                                      *)
LEMMA ShiftCloses ==
  ASSUME TypeOK, NEW k \in 0 .. HISTORY_SIZE - 1, NEW i \in 0 .. HISTORY_SIZE - 2
  PROVE  ShiftUp(Slot(k))[Slot(i + 1)] = IF i < k THEN Cached(i) ELSE Cached(i + 1)
  <1>1. history_first \in 0 .. HISTORY_SIZE - 1 /\ HISTORY_SIZE \in Nat \ {0}
    BY SizeAssumption DEF SizeAssumption, TypeOK, Slots
  <1>2. k \in 0 .. HISTORY_SIZE /\ i \in 0 .. HISTORY_SIZE /\ i + 1 \in 0 .. HISTORY_SIZE
    BY <1>1
  <1>3. Slot(k) \in 0 .. HISTORY_SIZE - 1 /\ Slot(i + 1) \in 0 .. HISTORY_SIZE - 1
    BY <1>2, SlotType DEF Slots
  <1>4. (Slot(k) - history_first) % HISTORY_SIZE = k
    <2>1. Slot(k) = IF history_first + k < HISTORY_SIZE THEN history_first + k
                    ELSE history_first + k - HISTORY_SIZE
      BY <1>2, SlotType
    <2>2. (Slot(k) - history_first) % HISTORY_SIZE =
             IF Slot(k) >= history_first THEN Slot(k) - history_first
             ELSE Slot(k) - history_first + HISTORY_SIZE
      BY <1>1, <1>3, ModSub
    <2> QED BY <1>1, <2>1, <2>2
  <1>5. (Slot(i + 1) - history_first) % HISTORY_SIZE = i + 1
    <2>1. Slot(i + 1) = IF history_first + (i + 1) < HISTORY_SIZE THEN history_first + (i + 1)
                        ELSE history_first + (i + 1) - HISTORY_SIZE
      BY <1>2, SlotType
    <2>2. (Slot(i + 1) - history_first) % HISTORY_SIZE =
             IF Slot(i + 1) >= history_first THEN Slot(i + 1) - history_first
             ELSE Slot(i + 1) - history_first + HISTORY_SIZE
      BY <1>1, <1>3, ModSub
    <2> QED BY <1>1, <2>1, <2>2
  <1>6. Slot(i + 1) # history_first
    <2>1. Slot(i + 1) = IF history_first + (i + 1) < HISTORY_SIZE THEN history_first + (i + 1)
                        ELSE history_first + (i + 1) - HISTORY_SIZE
      BY <1>2, SlotType
    <2> QED BY <1>1, <2>1
  <1>7. Slot(i + 1) \in Visited(Slot(k)) <=> i < k
    BY <1>1, <1>3, <1>4, <1>5, <1>6 DEF Visited, Slots
  <1>8. Before(Slot(i + 1)) = Slot(i)
    <2>1. Slot(i + 1) = IF history_first + (i + 1) < HISTORY_SIZE THEN history_first + (i + 1)
                        ELSE history_first + (i + 1) - HISTORY_SIZE
      BY <1>2, SlotType
    <2>2. Slot(i) = IF history_first + i < HISTORY_SIZE THEN history_first + i
                    ELSE history_first + i - HISTORY_SIZE
      BY <1>2, SlotType
    <2> QED BY <1>1, <2>1, <2>2 DEF Before
  <1> QED BY <1>3, <1>7, <1>8 DEF ShiftUp, Cached, Slots

-----------------------------------------------------------------------------
(* The critical section.                                                   *)

(* Of two processes at most one is in the section, so that no slot is      *)
(* reserved while another process is in it.                                *)
LEMMA Alone ==
  ASSUME LockHeld, NEW p \in Procs, pc[p] \in InSection,
         NEW q \in Procs, q # p
  PROVE  pc[q] \notin InSection
  BY DEF LockHeld

LEMMA NoFill ==
  ASSUME TypeOK, LockHeld, NEW p \in Procs, pc[p] \in {"get_ptr", "scan"}
  PROVE  /\ \A q \in Procs : pc[q] # "fill"
         /\ Filled = history_num
  <1>1. \A q \in Procs : pc[q] # "fill"
    BY Alone DEF InSection
  <1> QED BY <1>1, SizeAssumption DEF Filled, TypeOK, SizeAssumption

LEMMA OneFill ==
  ASSUME TypeOK, NEW p \in Procs, pc[p] = "fill"
  PROVE  Filled = history_num - 1
  BY DEF Filled

(* A step of a process that neither reserves nor fills a slot.             *)
LEMMA FilledSame ==
  ASSUME TypeOK, NEW p \in Procs, NEW x, pc' = [pc EXCEPT ![p] = x],
         pc[p] # "fill", x # "fill", history_num' = history_num
  PROVE  Filled' = Filled
  <1>1. (\E q \in Procs : pc[q] = "fill") <=> (\E q \in Procs : pc'[q] = "fill")
    BY DEF TypeOK
  <1> QED BY <1>1 DEF Filled

(* It leaves the texts as they are if it touches neither the ring nor the  *)
(* text buffer.                                                            *)
LEMMA TextsSame ==
  ASSUME TypeOK, TextsOK, TextsOrdered, NEW p \in Procs, NEW x,
         pc' = [pc EXCEPT ![p] = x], pc[p] # "fill", x # "fill",
         UNCHANGED <<ring, arena>>
  PROVE  TextsOK' /\ TextsOrdered'
  <1>1. Filled' = Filled
    BY FilledSame DEF ring
  <1>2. \A i : Cached(i)' = Cached(i)
    BY DEF Cached, Slot, ring
  <1>3. TextsOK'
    BY <1>1, <1>2 DEF TextsOK, TextPlaced, TextOwn, HasText, End, arena
  <1>4. TextsOrdered'
    BY <1>1, <1>2 DEF TextsOrdered, HasText, End
  <1> QED BY <1>3, <1>4

(* A syncer that empties its batch leaves nothing to show about it.        *)
LEMMA BatchEmptied ==
  ASSUME BatchesOwn, OneValuePerItem, NEW s \in Syncers, batch \in [Syncers -> Seq(Copy)],
         batch' = [batch EXCEPT ![s] = <<>>]
  PROVE  BatchesOwn' /\ OneValuePerItem'
  <1>1. \A t \in Syncers : Len(batch'[t]) = 0 \/ batch'[t] = batch[t]
    OBVIOUS
  <1>2. BatchesOwn'
    <2> SUFFICES ASSUME NEW t \in Syncers, NEW k \in 1 .. Len(batch'[t])
                 PROVE  OwnText(batch'[t][k])
      BY DEF BatchesOwn, OwnText
    <2>1. batch'[t] = batch[t]
      BY <1>1
    <2>2. OwnText(batch[t][k])
      BY <2>1 DEF BatchesOwn
    <2> QED BY <2>1, <2>2
  <1>3. OneValuePerItem'
    BY <1>1 DEF OneValuePerItem
  <1> QED BY <1>2, <1>3

-----------------------------------------------------------------------------
(* Each step preserves the invariant.                                      *)

LEMMA InitInv == Init => Inv
  <1> SUFFICES ASSUME Init PROVE Inv
    OBVIOUS
  <1>1. HISTORY_SIZE \in Nat \ {0} /\ TEXTBUFFER_SIZE \in Nat
    BY SizeAssumption DEF SizeAssumption
  <1>2. TypeOK
    <2>1. Blank \in Entry
      BY DEF Blank, Entry, NULL
    <2>2. history \in [Slots -> Entry] /\ history_first \in Slots /\ history_num \in 0 .. HISTORY_SIZE
      BY <1>1, <2>1 DEF Init, Slots
    <2>3. batch \in [Syncers -> Seq(Copy)]
      BY DEF Init
    <2> QED BY <1>1, <2>2, <2>3, ProcessAssumption, SMTT(60)
          DEF Init, TypeOK, Slots, Cells, InSection, Procs, ProcessAssumption
  <1>3. \A p \in Procs : pc[p] \in {"idle", "off", "sync_start"}
    BY DEF Init
  <1>4. LockHeld /\ PendOK /\ FillOK /\ ScanOK
    BY <1>3, ProcessAssumption
       DEF Init, LockHeld, PendOK, FillOK, ScanOK, InSection, Procs, ProcessAssumption
  <1>5. Filled = 0
    <2>1. history_num = 0
      BY DEF Init
    <2>2. ~ \E p \in Procs : pc[p] = "fill"
      BY <1>3
    <2>3. Filled = history_num
      BY <1>2, <2>2, SizeAssumption DEF Filled, TypeOK, SizeAssumption
    <2> QED BY <2>1, <2>3
  <1>6. TextsOK /\ TextsOrdered
    BY <1>5 DEF TextsOK, TextsOrdered
  <1>7. BatchesOwn /\ OneValuePerItem
    BY DEF Init, BatchesOwn, OneValuePerItem
  <1> QED BY <1>2, <1>4, <1>6, <1>7 DEF Inv

(* Report and Syslog.                                                      *)
LEMMA BeginInv ==
  ASSUME Inv, NEW p \in Procs, pc[p] \in {"idle", "txn"},
         NEW V \in SUBSET (Values \cup SyslogValues), Begin(p, V)
  PROVE  Inv'
  <1> USE DEF Begin, Inv
  <1>1. PICK v \in V : pend' = [pend EXCEPT ![p] = v]
    OBVIOUS
  <1>2. pc' = [pc EXCEPT ![p] = "add_lock"]
    OBVIOUS
  <1>3. TypeOK'
    BY <1>1, <1>2, ValueAssumption DEF TypeOK, ring, arena, scan, db, ValueAssumption
  <1>4. LockHeld'
    BY <1>2 DEF LockHeld, TypeOK, InSection
  <1>5. PendOK' /\ FillOK' /\ ScanOK'
    BY <1>1, <1>2 DEF PendOK, FillOK, ScanOK, TypeOK, TextLen, Slot, ring, arena, scan, Procs
  <1>6. TextsOK' /\ TextsOrdered'
    BY <1>2, TextsSame
  <1>7. BatchesOwn' /\ OneValuePerItem'
    BY DEF BatchesOwn, OneValuePerItem, OwnText, scan
  <1> QED BY <1>3, <1>4, <1>5, <1>6, <1>7

LEMMA AddLockInv ==
  ASSUME Inv, NEW p \in Procs, AddLock(p)
  PROVE  Inv'
  <1> USE DEF AddLock, Inv
  <1>1. TypeOK'
    BY DEF TypeOK, ring, arena, scan, db, InSection
  <1>2. LockHeld'
    BY ProcessAssumption DEF LockHeld, TypeOK, InSection, ProcessAssumption
  <1>3. PendOK' /\ FillOK' /\ ScanOK'
    BY DEF PendOK, FillOK, ScanOK, TypeOK, TextLen, Slot, ring, arena, scan, Procs
  <1>4. TextsOK' /\ TextsOrdered'
    BY TextsSame
  <1>5. BatchesOwn' /\ OneValuePerItem'
    BY DEF BatchesOwn, OneValuePerItem, OwnText, scan
  <1> QED BY <1>1, <1>2, <1>3, <1>4, <1>5

LEMMA WakeInv ==
  ASSUME Inv, NEW p \in Procs, Wake(p)
  PROVE  Inv'
  <1> USE DEF Wake, Inv
  <1>1. TypeOK'
    BY DEF TypeOK, ring, arena, scan, db
  <1>2. LockHeld'
    BY DEF LockHeld, TypeOK, InSection
  <1>3. PendOK' /\ FillOK' /\ ScanOK'
    BY DEF PendOK, FillOK, ScanOK, TypeOK, TextLen, Slot, ring, arena, scan, Procs
  <1>4. TextsOK' /\ TextsOrdered'
    BY TextsSame
  <1>5. BatchesOwn' /\ OneValuePerItem'
    BY DEF BatchesOwn, OneValuePerItem, OwnText, scan
  <1> QED BY <1>1, <1>2, <1>3, <1>4, <1>5

LEMMA SyncStartInv ==
  ASSUME Inv, NEW s \in Syncers, SyncStart(s)
  PROVE  Inv'
  <1> USE DEF SyncStart, Inv
  <1>1. s \in Procs
    BY DEF Procs
  <1>2. PICK x \in {"done", "sync_start", "sync_lock"} : pc' = [pc EXCEPT ![s] = x]
    BY DEF SyncReturn
  <1>3. TypeOK'
    <2>1. history_num \div SYNC_MAX \in Nat
      <3>1. history_num \in Nat /\ SYNC_MAX \in Nat \ {0}
        BY SizeAssumption DEF TypeOK, SizeAssumption
      <3> QED BY <3>1, DivNat
    <2> QED BY <1>2, <2>1 DEF TypeOK, ring, arena, scan, db
  <1>4. LockHeld'
    BY <1>1, <1>2 DEF LockHeld, TypeOK, InSection
  <1>5. PendOK' /\ FillOK' /\ ScanOK'
    BY <1>1, <1>2 DEF PendOK, FillOK, ScanOK, TypeOK, TextLen, Slot, ring, arena, scan, Procs
  <1>6. TextsOK' /\ TextsOrdered'
    BY <1>1, <1>2, TextsSame
  <1>7. BatchesOwn' /\ OneValuePerItem'
    BY ZenonT(60) DEF BatchesOwn, OneValuePerItem, OwnText, scan
  <1> QED BY <1>3, <1>4, <1>5, <1>6, <1>7

LEMMA SyncLockInv ==
  ASSUME Inv, NEW s \in Syncers, SyncLock(s)
  PROVE  Inv'
  <1> USE DEF SyncLock, Inv
  <1>1. s \in Procs
    BY DEF Procs
  <1>2. TypeOK'
    <2>1. batch' \in [Syncers -> Seq(Copy)]
      BY DEF TypeOK
    <2> QED BY <1>1, <2>1 DEF TypeOK, ring, arena, scan, db, InSection
  <1>3. LockHeld'
    BY <1>1, ProcessAssumption DEF LockHeld, TypeOK, InSection, ProcessAssumption
  <1>4. PendOK' /\ FillOK'
    BY <1>1 DEF PendOK, FillOK, TypeOK, TextLen, ring, arena
  <1>5. ScanOK'
    <2> SUFFICES ASSUME NEW t \in Syncers, pc'[t] = "scan"
                 PROVE  n'[t] <= history_num' /\ f'[t] = Slot(history_num - n[t])'
      BY DEF ScanOK
    <2>1. t = s
      BY <1>1, Alone, ProcessAssumption DEF LockHeld, TypeOK, InSection, Procs, ProcessAssumption
    <2>2. n'[t] = history_num /\ f'[t] = history_first /\ history_num' = history_num
             /\ history_first' = history_first
      BY <2>1 DEF TypeOK, ring
    <2>3. history_num \in Nat /\ history_num - history_num = 0
      BY DEF TypeOK
    <2>4. Slot(0) = history_first
      <3>1. 0 \in 0 .. HISTORY_SIZE /\ history_first \in 0 .. HISTORY_SIZE - 1
        BY SizeAssumption DEF SizeAssumption, TypeOK, Slots
      <3>2. Slot(0) = IF history_first + 0 < HISTORY_SIZE THEN history_first + 0
                      ELSE history_first + 0 - HISTORY_SIZE
        BY <3>1, SlotType
      <3> QED BY <3>1, <3>2, SizeAssumption DEF SizeAssumption
    <2> QED BY <2>2, <2>3, <2>4 DEF Slot
  <1>6. TextsOK' /\ TextsOrdered'
    BY <1>1, TextsSame
  <1>7. BatchesOwn' /\ OneValuePerItem'
    BY BatchEmptied DEF TypeOK
  <1> QED BY <1>2, <1>3, <1>4, <1>5, <1>6, <1>7

LEMMA ScanEndInv ==
  ASSUME Inv, NEW s \in Syncers, ScanEnd(s)
  PROVE  Inv'
  <1> USE DEF ScanEnd, Inv
  <1>1. s \in Procs
    BY DEF Procs
  <1>2. PICK x \in {"done", "sync_start", "txn"} : pc' = [pc EXCEPT ![s] = x]
    BY DEF SyncReturn
  <1>3. TypeOK'
    BY <1>2 DEF TypeOK, ring, arena, scan, db
  <1>4. LockHeld'
    BY <1>1, <1>2, ProcessAssumption DEF LockHeld, TypeOK, InSection, ProcessAssumption
  <1>5. PendOK' /\ FillOK' /\ ScanOK'
    BY <1>1, <1>2 DEF PendOK, FillOK, ScanOK, TypeOK, TextLen, Slot, ring, arena, scan, Procs
  <1>6. TextsOK' /\ TextsOrdered'
    BY <1>1, <1>2, TextsSame
  <1>7. BatchesOwn' /\ OneValuePerItem'
    BY ZenonT(60) DEF BatchesOwn, OneValuePerItem, OwnText, scan
  <1> QED BY <1>3, <1>4, <1>5, <1>6, <1>7

LEMMA CommitInv ==
  ASSUME Inv, NEW s \in Syncers, Commit(s)
  PROVE  Inv'
  <1> USE DEF Commit, Inv
  <1>1. s \in Procs
    BY DEF Procs
  <1>2. PICK x \in {"done", "sync_start", "sync_lock"} : pc' = [pc EXCEPT ![s] = x]
    BY DEF SyncReturn
  <1>3. TypeOK'
    <2>1. batch' \in [Syncers -> Seq(Copy)] /\ syncs' \in [Syncers -> Nat]
      BY DEF TypeOK
    <2>2. \A k \in 1 .. Len(batch[s]) : batch[s][k].id \in Nat
      <3>1. batch[s] \in Seq(Copy)
        BY DEF TypeOK
      <3>2. \A k \in 1 .. Len(batch[s]) : batch[s][k] \in Copy
        BY <3>1
      <3> QED BY <3>2 DEF Copy
    <2>3. stored' \subseteq Nat
      BY <2>2, ZenonT(60) DEF TypeOK, Ids
    <2>4. lastvalue' \in [Items -> Nat]
      <3>1. ASSUME NEW i \in Items, DCitem_already_exists(s, i)
            PROVE  batch[s][CHOOSE k \in 1 .. Len(batch[s]) : batch[s][k].itemid = i].id \in Nat
        BY <2>2, <3>1 DEF DCitem_already_exists
      <3> QED BY <3>1 DEF TypeOK
    <2> QED BY <1>2, <2>1, <2>3, <2>4 DEF TypeOK, ring, arena
  <1>4. LockHeld'
    BY <1>1, <1>2 DEF LockHeld, TypeOK, InSection
  <1>5. PendOK' /\ FillOK' /\ ScanOK'
    BY <1>1, <1>2 DEF PendOK, FillOK, ScanOK, TypeOK, TextLen, Slot, ring, arena, Procs
  <1>6. TextsOK' /\ TextsOrdered'
    BY <1>1, <1>2, TextsSame
  <1>7. BatchesOwn' /\ OneValuePerItem'
    BY BatchEmptied DEF TypeOK
  <1> QED BY <1>3, <1>4, <1>5, <1>6, <1>7

(* What DCsync_history copies of an entry whose strings are in place.      *)
LEMMA ReadTextIs ==
  ASSUME text \in [Cells -> Int], NEW ptr \in Int, NEW len \in Nat, NEW x \in Int,
         \A k \in 1 .. len : ptr + k - 1 \in Cells /\ text[ptr + k - 1] = x
  PROVE  /\ ReadText(ptr, len) \in Seq(Int)
         /\ \A k \in 1 .. Len(ReadText(ptr, len)) : ReadText(ptr, len)[k] = x
  <1>1. ReadText(ptr, len) \in [1 .. len -> Int]
    BY DEF ReadText
  <1>2. ReadText(ptr, len) \in Seq(Int) /\ Len(ReadText(ptr, len)) = len
    BY <1>1
  <1> QED BY <1>2 DEF ReadText

(* The k-th cell of a source that lies in the buffer behind its text.      *)
LEMMA WithinText ==
  ASSUME NEW ptr \in Nat, NEW len1 \in Nat, NEW len2 \in Nat, NEW last \in Nat,
         NEW size \in Nat, ptr + len1 + len2 <= last, last <= size, NEW k \in 1 .. len2
  PROVE  (ptr + len1) + k - 1 \in 0 .. size - 1
  OBVIOUS

LEMMA CopiedOwn ==
  ASSUME TypeOK, NEW e \in Entry, TextPlaced(e), TextOwn(e)
  PROVE  Copied(e) \in Copy /\ OwnText(Copied(e))
  <1> DEFINE v == IF e.value_str = NULL THEN <<>> ELSE ReadText(e.value_str, e.len1)
             w == IF e.source = NULL THEN <<>> ELSE ReadText(e.source, e.len2)
  <1>1. /\ e.id \in Nat /\ e.len1 \in Nat /\ e.len2 \in Nat
        /\ e.value_str \in Int /\ e.source \in Int /\ e.itemid \in Items \cup {None}
    BY DEF Entry
  <1>2. text \in [Cells -> Int] /\ last_text \in 0 .. TEXTBUFFER_SIZE /\ TEXTBUFFER_SIZE \in Nat
    BY SizeAssumption DEF TypeOK, SizeAssumption
  <1>3. v \in Seq(Int) /\ \A k \in 1 .. Len(v) : v[k] = e.id
    <2>1. CASE e.value_str = NULL
      BY <2>1
    <2>2. CASE e.value_str # NULL
      <3>1. HasText(e) /\ 0 <= e.value_str /\ e.value_str + e.len1 + e.len2 <= last_text
        BY <2>2 DEF TextPlaced, End
      <3>2. ASSUME NEW k \in 1 .. e.len1
            PROVE  e.value_str + k - 1 \in Cells /\ text[e.value_str + k - 1] = e.id
        <4>1. e.value_str + k - 1 \in Cells
          BY <1>1, <1>2, <3>1 DEF Cells
        <4>2. e.value_str <= e.value_str + k - 1 /\ e.value_str + k - 1 < e.value_str + e.len1
          BY <1>1
        <4> QED BY <3>1, <4>1, <4>2 DEF TextOwn
      <3>3. /\ ReadText(e.value_str, e.len1) \in Seq(Int)
            /\ \A k \in 1 .. Len(ReadText(e.value_str, e.len1)) :
                  ReadText(e.value_str, e.len1)[k] = e.id
        <4> HIDE DEF v, w
        <4>1. e.id \in Int
          BY <1>1
        <4> QED BY <1>1, <1>2, <3>2, <4>1, ReadTextIs
      <3> QED BY <2>2, <3>3
    <2> QED BY <2>1, <2>2
  <1>4. w \in Seq(Int) /\ \A k \in 1 .. Len(w) : w[k] = -e.id
    <2>1. CASE e.source = NULL
      BY <2>1
    <2>2. CASE e.source # NULL
      <3>1. /\ HasText(e) /\ 0 <= e.value_str /\ e.value_str + e.len1 + e.len2 <= last_text
            /\ e.source = e.value_str + e.len1
        BY <2>2 DEF TextPlaced, End
      <3>2. ASSUME NEW k \in 1 .. e.len2
            PROVE  e.source + k - 1 \in Cells /\ text[e.source + k - 1] = -e.id
        <4>1. e.source + k - 1 \in Cells
          BY <1>1, <1>2, <3>1, WithinText, SMTT(60) DEF Cells
        <4>2. e.value_str + e.len1 <= e.source + k - 1 /\ e.source + k - 1 < End(e)
          BY <1>1, <3>1 DEF End
        <4> QED BY <3>1, <4>1, <4>2 DEF TextOwn
      <3>3. -e.id \in Int
        BY <1>1
      <3>4. /\ ReadText(e.source, e.len2) \in Seq(Int)
            /\ \A k \in 1 .. Len(ReadText(e.source, e.len2)) :
                  ReadText(e.source, e.len2)[k] = -e.id
        <4> HIDE DEF v, w
        <4> QED BY <1>1, <1>2, <3>2, <3>3, ReadTextIs
      <3> QED BY <2>2, <3>4
    <2> QED BY <2>1, <2>2
  <1>5. Copied(e) = [id |-> e.id, itemid |-> e.itemid, value_str |-> v, source |-> w]
    BY DEF Copied
  <1> HIDE DEF v, w
  <1> QED BY <1>1, <1>3, <1>4, <1>5 DEF Copy, OwnText

(* The next slot of the scan, seen from a ring that starts where it did.   *)
LEMMA SlotAfter ==
  ASSUME TypeOK, NEW k \in 0 .. HISTORY_SIZE - 1
  PROVE  (Slot(k) + 1) % HISTORY_SIZE = Slot(k + 1)
  <1>1. history_first \in 0 .. HISTORY_SIZE - 1 /\ HISTORY_SIZE \in Nat \ {0}
    BY SizeAssumption DEF SizeAssumption, TypeOK, Slots
  <1>2. 1 \in 0 .. HISTORY_SIZE /\ k \in 0 .. HISTORY_SIZE /\ k + 1 \in 0 .. HISTORY_SIZE
    BY <1>1
  <1>3. Slot(k) = IF history_first + k < HISTORY_SIZE THEN history_first + k
                  ELSE history_first + k - HISTORY_SIZE
    BY <1>2, SlotType
  <1>4. Slot(k + 1) = IF history_first + (k + 1) < HISTORY_SIZE THEN history_first + (k + 1)
                      ELSE history_first + (k + 1) - HISTORY_SIZE
    BY <1>2, SlotType
  <1>5. Slot(k) \in 0 .. HISTORY_SIZE - 1
    BY <1>2, SlotType DEF Slots
  <1>6. (Slot(k) + 1) % HISTORY_SIZE = IF Slot(k) + 1 < HISTORY_SIZE THEN Slot(k) + 1
                                       ELSE Slot(k) + 1 - HISTORY_SIZE
    BY <1>1, <1>2, <1>5, ModAdd
  <1> QED BY <1>1, <1>3, <1>4, <1>6

(* The position of the scan, k, is one of a value.                         *)
LEMMA ScanPosition ==
  ASSUME Inv, NEW s \in Syncers, pc[s] = "scan", n[s] > 0
  PROVE  /\ history_num - n[s] \in 0 .. history_num - 1
         /\ history_num - n[s] \in 0 .. HISTORY_SIZE - 1
         /\ f[s] = Slot(history_num - n[s])
         /\ history[f[s]] = Cached(history_num - n[s])
         /\ history[f[s]] \in Entry
         /\ Filled = history_num
         /\ \A q \in Procs : pc[q] # "fill"
         /\ \A t \in Syncers : t # s => pc[t] # "scan"
  <1> USE DEF Inv
  <1>1. /\ n[s] \in 0 .. HISTORY_SIZE /\ history_num \in 0 .. HISTORY_SIZE
        /\ HISTORY_SIZE \in Nat \ {0} /\ n[s] <= history_num
        /\ f[s] = Slot(history_num - n[s])
    BY SizeAssumption DEF SizeAssumption, TypeOK, ScanOK
  <1>2. /\ history_num - n[s] \in 0 .. history_num - 1
        /\ history_num - n[s] \in 0 .. HISTORY_SIZE - 1
    BY <1>1
  <1>3. history[f[s]] = Cached(history_num - n[s]) /\ history[f[s]] \in Entry
    BY <1>1 DEF Cached, TypeOK
  <1>4. Filled = history_num /\ \A q \in Procs : pc[q] # "fill"
    BY NoFill DEF Procs
  <1>5. \A t \in Syncers : t # s => pc[t] # "scan"
    BY Alone DEF Procs, InSection
  <1> QED BY <1>1, <1>2, <1>3, <1>4, <1>5

LEMMA SkipInv ==
  ASSUME Inv, NEW s \in Syncers, Scan(s), Skip(s)
  PROVE  Inv'
  <1> USE DEF Scan, Skip, Inv
  <1> DEFINE k == history_num - n[s]
  <1>1. /\ k \in 0 .. HISTORY_SIZE - 1 /\ f[s] = Slot(k)
        /\ \A t \in Syncers : t # s => pc[t] # "scan"
    BY ScanPosition
  <1>2. n[s] \in 1 .. HISTORY_SIZE /\ history_num \in 0 .. HISTORY_SIZE /\ n[s] <= history_num
        /\ HISTORY_SIZE \in Nat \ {0}
    BY SizeAssumption DEF TypeOK, ScanOK, SizeAssumption
  <1>3. (f[s] + 1) % HISTORY_SIZE = Slot(k + 1) /\ Slot(k + 1) \in Slots
    <2>1. k + 1 \in 0 .. HISTORY_SIZE
      BY <1>1, <1>2
    <2> QED BY <1>1, <2>1, SlotAfter, SlotType
  <1>4. TypeOK'
    BY <1>2, <1>3, SMTT(60) DEF TypeOK, ring, arena, db
  <1>5. LockHeld' /\ PendOK' /\ FillOK'
    BY DEF LockHeld, PendOK, FillOK, TextLen, ring, arena
  <1>6. ScanOK'
    <2> SUFFICES ASSUME NEW t \in Syncers, pc'[t] = "scan"
                 PROVE  n'[t] <= history_num' /\ f'[t] = Slot(history_num - n[t])'
      BY DEF ScanOK
    <2>1. t = s
      BY <1>1
    <2>2. /\ n'[t] = n[s] - 1 /\ f'[t] = (f[s] + 1) % HISTORY_SIZE
          /\ history_num' = history_num /\ history_first' = history_first
      BY <2>1 DEF TypeOK, ring
    <2>3. history_num' - n'[t] = k + 1
      BY <1>2, <2>2
    <2>4. Slot(history_num - n[t])' = Slot(k + 1)
      BY <2>2, <2>3 DEF Slot
    <2> QED BY <1>2, <1>3, <2>2, <2>4
  <1>7. TextsOK' /\ TextsOrdered'
    <2>1. pc' = [pc EXCEPT ![s] = "scan"] /\ s \in Procs
      BY DEF TypeOK, Procs
    <2> QED BY <2>1, TextsSame
  <1>8. BatchesOwn' /\ OneValuePerItem'
    BY ZenonT(60) DEF BatchesOwn, OneValuePerItem, OwnText
  <1> QED BY <1>4, <1>5, <1>6, <1>7, <1>8

(* Appending a value of a new item to a batch.                             *)
LEMMA BatchAppended ==
  ASSUME BatchesOwn, OneValuePerItem, batch \in [Syncers -> Seq(Copy)],
         NEW s \in Syncers, NEW c \in Copy, OwnText(c),
         Proxy \/ ~DCitem_already_exists(s, c.itemid),
         batch' = [batch EXCEPT ![s] = Append(@, c)]
  PROVE  batch' \in [Syncers -> Seq(Copy)] /\ BatchesOwn' /\ OneValuePerItem'
  <1>1. /\ batch[s] \in Seq(Copy) /\ Len(batch[s]) \in Nat
        /\ batch'[s] = Append(batch[s], c)
        /\ \A t \in Syncers : t # s => batch'[t] = batch[t]
    OBVIOUS
  <1>2. /\ Len(batch'[s]) = Len(batch[s]) + 1
        /\ batch'[s][Len(batch[s]) + 1] = c
        /\ \A k \in 1 .. Len(batch[s]) : batch'[s][k] = batch[s][k]
    BY <1>1
  <1>3. batch' \in [Syncers -> Seq(Copy)]
    BY <1>1
  <1>4. \A k \in 1 .. Len(batch'[s]) : k = Len(batch[s]) + 1 \/ k \in 1 .. Len(batch[s])
    BY <1>1, <1>2
  <1>5. BatchesOwn'
    <2> SUFFICES ASSUME NEW t \in Syncers, NEW k \in 1 .. Len(batch'[t])
                 PROVE  OwnText(batch'[t][k])
      BY DEF BatchesOwn, OwnText
    <2>1. CASE t # s
      BY <1>1, <2>1 DEF BatchesOwn
    <2>2. CASE t = s /\ k = Len(batch[s]) + 1
      BY <1>2, <2>2
    <2>3. CASE t = s /\ k \in 1 .. Len(batch[s])
      BY <1>2, <2>3 DEF BatchesOwn
    <2> QED BY <1>4, <2>1, <2>2, <2>3
  <1>6. OneValuePerItem'
    <2> SUFFICES ASSUME ~Proxy, NEW t \in Syncers,
                        NEW j \in 1 .. Len(batch'[t]), NEW k \in 1 .. Len(batch'[t]), j # k
                 PROVE  batch'[t][j].itemid # batch'[t][k].itemid
      BY DEF OneValuePerItem
    <2>1. CASE t # s
      BY <1>1, <2>1 DEF OneValuePerItem
    <2>2. CASE t = s
      <3>1. \A i \in 1 .. Len(batch[s]) : batch'[s][i].itemid # c.itemid
        BY <1>2 DEF DCitem_already_exists
      <3>2. CASE j \in 1 .. Len(batch[s]) /\ k \in 1 .. Len(batch[s])
        BY <1>2, <2>2, <3>2 DEF OneValuePerItem
      <3>3. CASE j = Len(batch[s]) + 1 /\ k \in 1 .. Len(batch[s])
        BY <1>2, <2>2, <3>1, <3>3
      <3>4. CASE k = Len(batch[s]) + 1 /\ j \in 1 .. Len(batch[s])
        BY <1>2, <2>2, <3>1, <3>4
      <3> QED BY <1>4, <2>2, <3>2, <3>3, <3>4
    <2> QED BY <2>1, <2>2
  <1> QED BY <1>3, <1>5, <1>6

LEMMA TakeInv ==
  ASSUME Inv, NEW s \in Syncers, Scan(s), Take(s)
  PROVE  Inv'
  <1> USE DEF Scan, Take, Inv
  <1> DEFINE k == history_num - n[s]
  <1>1. /\ k \in 0 .. history_num - 1 /\ k \in 0 .. HISTORY_SIZE - 1 /\ f[s] = Slot(k)
        /\ history[f[s]] = Cached(k) /\ history[f[s]] \in Entry
        /\ Filled = history_num
        /\ \A q \in Procs : pc[q] # "fill"
        /\ \A t \in Syncers : t # s => pc[t] # "scan"
    BY ScanPosition
  <1>2. n[s] \in 1 .. HISTORY_SIZE /\ history_num \in 1 .. HISTORY_SIZE /\ n[s] <= history_num
        /\ HISTORY_SIZE \in Nat \ {0}
    BY SizeAssumption DEF TypeOK, ScanOK, SizeAssumption
  <1>3. (f[s] + 1) % HISTORY_SIZE = Slot(k + 1) /\ Slot(k + 1) \in Slots
    <2>1. k + 1 \in 0 .. HISTORY_SIZE
      BY <1>1, <1>2
    <2> QED BY <1>1, <2>1, SlotAfter, SlotType
  <1>4. history_num' = history_num - 1 /\ history_num' \in 0 .. HISTORY_SIZE
    BY <1>2
  <1>5. Filled' = history_num - 1
    <2>1. ~ \E q \in Procs : pc'[q] = "fill"
      BY <1>1
    <2> QED BY <1>4, <2>1 DEF Filled
  <1>6. history_first' \in Slots
    <2>1. history_first \in 0 .. HISTORY_SIZE - 1 /\ 1 \in 0 .. HISTORY_SIZE
      BY <1>2 DEF TypeOK, Slots
    <2> QED BY <1>2, <2>1, ModAdd DEF Slots
  <1>7. \A i \in 0 .. history_num - 2 : Cached(i)' = IF i < k THEN Cached(i) ELSE Cached(i + 1)
    <2> TAKE i \in 0 .. history_num - 2
    <2>1. i \in 0 .. HISTORY_SIZE - 1 /\ i \in 0 .. HISTORY_SIZE - 2
      BY <1>2
    <2>2. Slot(i)' = Slot(i + 1)
      BY <2>1, SlotNext
    <2>3. history' = ShiftUp(Slot(k))
      BY <1>1
    <2>4. Cached(i)' = ShiftUp(Slot(k))[Slot(i + 1)]
      BY <2>2, <2>3 DEF Cached
    <2> QED BY <1>1, <2>1, <2>4, ShiftCloses
  <1>8. history' \in [Slots -> Entry]
    <2>1. \A i \in Slots : Before(i) \in Slots
      BY <1>2 DEF Before, Slots
    <2> QED BY <2>1 DEF ShiftUp, TypeOK
  <1>9. TextPlaced(Cached(k)) /\ TextOwn(Cached(k))
    BY <1>1 DEF TextsOK
  <1>10. Copied(Cached(k)) \in Copy /\ OwnText(Copied(Cached(k)))
    BY <1>1, <1>9, CopiedOwn
  <1>11. batch' \in [Syncers -> Seq(Copy)] /\ BatchesOwn' /\ OneValuePerItem'
    <2>1. batch' = [batch EXCEPT ![s] = Append(@, Copied(Cached(k)))]
      BY <1>1
    <2>2. Copied(Cached(k)).itemid = Cached(k).itemid
      BY DEF Copied
    <2>3. Proxy \/ ~DCitem_already_exists(s, Copied(Cached(k)).itemid)
      BY <1>1, <2>2
    <2>4. batch \in [Syncers -> Seq(Copy)]
      BY DEF TypeOK
    <2> HIDE DEF k, Take
    <2> QED BY <1>10, <2>1, <2>3, <2>4, BatchAppended
  <1>12. TypeOK'
    BY <1>2, <1>3, <1>4, <1>6, <1>8, <1>11, SMTT(60) DEF TypeOK, arena, db
  <1>13. LockHeld' /\ PendOK' /\ FillOK'
    BY <1>1 DEF LockHeld, PendOK, FillOK
  <1>14. ScanOK'
    <2> SUFFICES ASSUME NEW t \in Syncers, pc'[t] = "scan"
                 PROVE  n'[t] <= history_num' /\ f'[t] = Slot(history_num - n[t])'
      BY DEF ScanOK
    <2>1. t = s
      BY <1>1
    <2>2. n'[t] = n[s] - 1 /\ f'[t] = Slot(k + 1)
      BY <1>3, <2>1 DEF TypeOK
    <2>3. history_num' - n'[t] = k
      BY <1>2, <1>4, <2>2
    <2>4. ASSUME NEW i \in 0 .. HISTORY_SIZE - 1
          PROVE  (history_first' + i) % HISTORY_SIZE = Slot(i + 1)
      BY SlotNext DEF Slot
    <2>5. Slot(history_num - n[t])' = (history_first' + k) % HISTORY_SIZE
      BY <2>3 DEF Slot
    <2>6. Slot(history_num - n[t])' = Slot(k + 1)
      BY <1>1, <2>4, <2>5
    <2>7. n'[t] <= history_num'
      BY <1>2, <1>4, <2>2
    <2> QED BY <2>2, <2>6, <2>7
  <1>15. TextsOK'
    <2> SUFFICES ASSUME NEW i \in 0 .. Filled' - 1
                 PROVE  TextPlaced(Cached(i))' /\ TextOwn(Cached(i))'
      BY DEF TextsOK
    <2>1. i \in 0 .. history_num - 2 /\ i \in 0 .. Filled - 1 /\ i + 1 \in 0 .. Filled - 1
      BY <1>1, <1>2, <1>5, SMTT(60)
    <2>2. \E j \in 0 .. Filled - 1 : Cached(i)' = Cached(j)
      BY <1>7, <2>1
    <2> QED BY <2>2 DEF TextsOK, TextPlaced, TextOwn, HasText, End, arena
  <1>16. TextsOrdered'
    <2> SUFFICES ASSUME NEW i \in 0 .. Filled' - 1, NEW j \in 0 .. Filled' - 1, i < j,
                        HasText(Cached(i)'), HasText(Cached(j)')
                 PROVE  End(Cached(i)') <= Cached(j)'.value_str
      BY DEF TextsOrdered, HasText, End
    <2>1. /\ i \in 0 .. history_num - 2 /\ i \in 0 .. Filled - 1 /\ i + 1 \in 0 .. Filled - 1
          /\ j \in 0 .. history_num - 2 /\ j \in 0 .. Filled - 1 /\ j + 1 \in 0 .. Filled - 1
      BY <1>1, <1>2, <1>5, SMTT(60)
    <2>2. \E a \in 0 .. Filled - 1, b \in 0 .. Filled - 1 :
             a < b /\ Cached(i)' = Cached(a) /\ Cached(j)' = Cached(b)
      <3>1. CASE j < k
        BY <1>1, <1>7, <2>1, <3>1
      <3>2. CASE i < k /\ ~(j < k)
        BY <1>1, <1>7, <2>1, <3>2
      <3>3. CASE ~(i < k)
        <4>1. ~(j < k)
          BY <1>1, <1>2, <2>1, <3>3
        <4> QED BY <1>1, <1>7, <2>1, <3>3, <4>1
      <3> QED BY <3>1, <3>2, <3>3
    <2> QED BY <2>2 DEF TextsOrdered
  <1> QED BY <1>11, <1>12, <1>13, <1>14, <1>15, <1>16

LEMMA FillInv ==
  ASSUME Inv, NEW p \in Procs, Fill(p)
  PROVE  Inv'
  <1> USE DEF Fill, Inv
  <1> DEFINE v == pend[p]
             h == history_num - 1
             e == NewEntry(v)
  <1>1. /\ v \in Values \cup SyslogValues
        /\ v.itemid \in Items /\ v.len1 \in Nat /\ v.len2 \in Nat
        /\ v.len1 = 0 => v.len2 = 0
        /\ TextLen(p) = v.len1 + v.len2
    BY ValueAssumption DEF PendOK, ValueAssumption, Value, TextLen
  <1>2. /\ history_num \in 1 .. HISTORY_SIZE /\ HISTORY_SIZE \in Nat \ {0}
        /\ last_text \in 0 .. TEXTBUFFER_SIZE /\ TEXTBUFFER_SIZE \in Nat
        /\ last_text + v.len1 + v.len2 <= TEXTBUFFER_SIZE
        /\ added \in Nat
    BY <1>1, SizeAssumption DEF TypeOK, FillOK, SizeAssumption
  <1>3. \A q \in Procs : q # p => pc[q] \notin InSection
    BY Alone DEF InSection
  <1>4. PICK x \in {"txn", "idle"} : pc' = [pc EXCEPT ![p] = x]
    OBVIOUS
  <1>5. Filled = h /\ h \in 0 .. HISTORY_SIZE - 1 /\ Slot(h) \in Slots
    <2>1. h \in 0 .. HISTORY_SIZE - 1 /\ h \in 0 .. HISTORY_SIZE
      BY <1>2
    <2> QED BY <2>1, OneFill, SlotType
  <1>6. Filled' = history_num
    <2>1. ~ \E q \in Procs : pc'[q] = "fill"
      BY <1>3, <1>4 DEF TypeOK, InSection
    <2> QED BY <1>2, <2>1 DEF Filled
  <1>7. e \in Entry
    BY <1>1, <1>2 DEF NewEntry, Entry, NULL
  <1>8. history' = [history EXCEPT ![Slot(h)] = e]
    OBVIOUS
  <1>9. Slot(h)' = Slot(h) /\ \A i : Slot(i)' = Slot(i)
    BY DEF Slot
  <1>10. history'[Slot(h)] = e
    BY <1>5, <1>8 DEF TypeOK
  <1>11. \A i \in 0 .. Filled - 1 : Cached(i)' = Cached(i)
    <2> TAKE i \in 0 .. Filled - 1
    <2>1. i \in 0 .. HISTORY_SIZE - 1 /\ i # h
      BY <1>2, <1>5
    <2>2. Slot(i) # Slot(h)
      BY <1>5, <2>1, SlotInjective
    <2> QED BY <1>8, <1>9, <2>2 DEF Cached, TypeOK
  <1>12. text' \in [Cells -> Int] /\ last_text' = last_text + v.len1 + v.len2
           /\ last_text' \in 0 .. TEXTBUFFER_SIZE
    BY <1>1, <1>2 DEF TypeOK
  <1>13. TypeOK'
    BY <1>2, <1>4, <1>5, <1>7, <1>8, <1>12 DEF TypeOK, scan, db
  <1>14. LockHeld'
    BY <1>3, <1>4, ProcessAssumption DEF LockHeld, TypeOK, InSection, ProcessAssumption
  <1>15. PendOK' /\ FillOK' /\ ScanOK'
    BY <1>3, <1>4 DEF PendOK, FillOK, ScanOK, TypeOK, InSection, Procs
  <1>16. \A c \in Cells : text'[c] = IF c < last_text \/ c >= last_text + TextLen(p) THEN text[c]
                                     ELSE IF c < last_text + v.len1 THEN added + 1 ELSE -(added + 1)
    OBVIOUS
  <1>17. ASSUME NEW i \in 0 .. Filled - 1, HasText(Cached(i))
         PROVE  End(Cached(i)) <= last_text /\ Cached(i).len2 \in Nat /\ Cached(i).len1 \in Nat
                /\ Cached(i).value_str \in Nat
    <2>1. Cached(i) \in Entry
      <3>1. i \in 0 .. HISTORY_SIZE
        BY <1>2, <1>5
      <3> QED BY <3>1, SlotType DEF Cached, TypeOK
    <2> QED BY <1>17, <2>1 DEF TextsOK, TextPlaced, Entry
  <1>18. ASSUME NEW i \in 0 .. Filled - 1
         PROVE  TextPlaced(Cached(i))' /\ TextOwn(Cached(i))'
    <2>1. Cached(i)' = Cached(i)
      BY <1>11
    <2>2. TextPlaced(Cached(i)) /\ TextOwn(Cached(i))
      BY DEF TextsOK
    <2>3. TextPlaced(Cached(i))'
      <3>1. last_text <= last_text' /\ last_text \in Nat /\ last_text' \in Nat
        BY <1>1, <1>2, <1>12
      <3>2. HasText(Cached(i)) => End(Cached(i)) <= last_text'
        BY <1>17, <3>1 DEF End
      <3> QED BY <2>1, <2>2, <3>2 DEF TextPlaced, HasText, End
    <2>4. TextOwn(Cached(i))'
      <3>1. HasText(Cached(i)) => \A c \in Cells : c < End(Cached(i)) => text'[c] = text[c]
        BY <1>2, <1>16, <1>17 DEF Cells, End
      <3>2. HasText(Cached(i)) => \A c \in Cells : c < Cached(i).value_str + Cached(i).len1
                                                      => c < End(Cached(i))
        BY <1>17 DEF End, Cells
      <3> QED BY <2>1, <2>2, <3>1, <3>2 DEF TextOwn, HasText, End
    <2> QED BY <2>3, <2>4
  <1>19. /\ e.len1 = v.len1 /\ e.len2 = v.len2 /\ e.id = added + 1
         /\ e.value_str = IF v.len1 > 0 THEN last_text ELSE NULL
         /\ e.source = IF v.len2 > 0 THEN last_text + v.len1 ELSE NULL
    BY DEF NewEntry
  <1> HIDE DEF e, v
  <1>20. ASSUME NEW i, i = h
         PROVE  Cached(i)' = e
    BY <1>9, <1>10, <1>20 DEF Cached
  <1>21. ASSUME NEW i, i = h
         PROVE  TextPlaced(Cached(i))' /\ TextOwn(Cached(i))'
    <2>1. Cached(i)' = e
      BY <1>20, <1>21
    <2>2. TextPlaced(Cached(i))'
      <3>1. HasText(e) <=> e.value_str # NULL
        BY <1>1, <1>2, <1>19 DEF HasText, NULL
      <3>2. e.source # NULL => HasText(e) /\ e.source = e.value_str + e.len1
        BY <1>1, <1>2, <1>19 DEF HasText, NULL
      <3>3. HasText(e) => 0 <= e.value_str /\ End(e) <= last_text'
        BY <1>1, <1>2, <1>12, <1>19 DEF HasText, End
      <3> QED BY <2>1, <3>1, <3>2, <3>3 DEF TextPlaced, HasText, End
    <2>3. TextOwn(Cached(i))'
      <3>1. ASSUME HasText(e), NEW c \in Cells,
                   e.value_str <= c, c < e.value_str + e.len1
            PROVE  text'[c] = e.id
        BY <1>1, <1>2, <1>16, <1>19, <3>1 DEF HasText, Cells
      <3>2. ASSUME HasText(e), NEW c \in Cells,
                   e.value_str + e.len1 <= c, c < End(e)
            PROVE  text'[c] = -e.id
        BY <1>1, <1>2, <1>16, <1>19, <3>2 DEF HasText, Cells, End
      <3> QED BY <2>1, <3>1, <3>2 DEF TextOwn, HasText, End
    <2> QED BY <2>2, <2>3
  <1>22. \A i \in 0 .. Filled' - 1 : i \in 0 .. Filled - 1 \/ i = h
    BY <1>2, <1>5, <1>6
  <1>23. TextsOK'
    BY <1>18, <1>21, <1>22 DEF TextsOK
  <1>24. TextsOrdered'
    <2> SUFFICES ASSUME NEW i \in 0 .. Filled' - 1, NEW j \in 0 .. Filled' - 1, i < j,
                        HasText(Cached(i)'), HasText(Cached(j)')
                 PROVE  End(Cached(i)') <= Cached(j)'.value_str
      BY DEF TextsOrdered, HasText, End
    <2>1. i \in 0 .. Filled - 1
      BY <1>2, <1>5, <1>6
    <2>2. Cached(i)' = Cached(i)
      BY <1>11, <2>1
    <2>3. CASE j \in 0 .. Filled - 1
      BY <1>11, <2>1, <2>2, <2>3 DEF TextsOrdered
    <2>4. CASE j = h
      <3>1. Cached(j)' = e
        BY <1>20, <2>4
      <3>2. e.value_str = last_text
        BY <1>19, <3>1 DEF HasText
      <3> QED BY <1>17, <2>1, <2>2, <3>1, <3>2
    <2> QED BY <1>22, <2>3, <2>4
  <1>25. BatchesOwn' /\ OneValuePerItem'
    BY DEF BatchesOwn, OneValuePerItem, OwnText, scan
  <1> QED BY <1>13, <1>14, <1>15, <1>23, <1>24, <1>25

LEMMA LeastExists ==
  ASSUME NEW S \in SUBSET Nat, S # {}
  PROVE  \E m \in S : \A j \in S : m <= j
  <1>1. PICK m \in S : \A j \in S : <<j, m>> \notin OpToRel(<, Nat)
    BY NatLessThanWellFounded, WFMin
  <1>2. \A j \in S : ~(j < m)
    BY <1>1 DEF OpToRel
  <1>3. \A j \in S : m <= j
    BY <1>2
  <1> QED BY <1>3

(* What DCvacuum_text does to a value in the ring, and by how much.        *)
LEMMA VacuumFacts ==
  ASSUME Inv, NEW p \in Procs, pc[p] = "get_ptr", DCvacuum_text, history_first' = history_first
  PROVE  /\ VacuumOffset \in 0 .. last_text
         /\ \A i \in 0 .. history_num - 1 :
               /\ Slot(i) \in Slots /\ Cached(i) \in Entry
               /\ TextPlaced(Cached(i)) /\ TextOwn(Cached(i))
               /\ HasText(Cached(i)) => VacuumOffset <= Cached(i).value_str
               /\ Cached(i)' = IF HasText(Cached(i)) THEN Moved(Cached(i), VacuumOffset)
                               ELSE Cached(i)
  <1> USE DEF Inv
  <1>1. Filled = history_num
    BY NoFill
  <1>2. /\ history_num \in 0 .. HISTORY_SIZE /\ HISTORY_SIZE \in Nat \ {0}
        /\ last_text \in 0 .. TEXTBUFFER_SIZE /\ TEXTBUFFER_SIZE \in Nat
    BY SizeAssumption DEF TypeOK, SizeAssumption
  <1>3. \A i \in 0 .. history_num - 1 : Slot(i) \in Slots /\ Cached(i) \in Entry
    <2> TAKE i \in 0 .. history_num - 1
    <2>1. i \in 0 .. HISTORY_SIZE
      BY <1>2
    <2>2. Slot(i) \in Slots
      BY <2>1, SlotType
    <2> QED BY <2>2 DEF Cached, TypeOK
  <1>4. \A i \in 0 .. history_num - 1 : TextPlaced(Cached(i)) /\ TextOwn(Cached(i))
    BY <1>1 DEF TextsOK
  <1>5. \A i \in 0 .. history_num - 1 : i \in TextPositions <=> HasText(Cached(i))
    BY DEF TextPositions, Cached
  <1>6. VacuumOffset \in 0 .. last_text
        /\ \A i \in 0 .. history_num - 1 :
              HasText(Cached(i)) => VacuumOffset <= Cached(i).value_str
    <2>1. CASE TextPositions = {}
      <3>1. VacuumOffset = last_text
        BY <2>1 DEF VacuumOffset
      <3> QED BY <1>2, <1>5, <2>1, <3>1
    <2>2. CASE TextPositions # {}
      <3>1. TextPositions \in SUBSET Nat
        BY DEF TextPositions
      <3>2. PICK m \in TextPositions :
               /\ \A j \in TextPositions : m <= j
               /\ VacuumOffset = Cached(m).value_str
        <4> DEFINE m == CHOOSE i \in TextPositions : \A j \in TextPositions : i <= j
        <4>1. m \in TextPositions /\ \A j \in TextPositions : m <= j
          BY <2>2, <3>1, LeastExists
        <4>2. VacuumOffset = Cached(m).value_str
          BY <2>2 DEF VacuumOffset, Cached
        <4> QED BY <4>1, <4>2
      <3>3. m \in 0 .. history_num - 1 /\ HasText(Cached(m))
        BY DEF TextPositions, Cached
      <3>4. /\ Cached(m).value_str \in Int /\ Cached(m).len1 \in Nat /\ Cached(m).len2 \in Nat
            /\ 0 <= Cached(m).value_str
            /\ Cached(m).value_str + Cached(m).len1 + Cached(m).len2 <= last_text
        BY <1>3, <1>4, <3>3 DEF TextPlaced, End, Entry
      <3>5. VacuumOffset \in 0 .. last_text
        BY <1>2, <3>2, <3>4
      <3>6. ASSUME NEW i \in 0 .. history_num - 1, HasText(Cached(i))
            PROVE  VacuumOffset <= Cached(i).value_str
        <4>1. i \in TextPositions /\ m <= i
          BY <1>5, <3>2, <3>6
        <4>2. CASE i = m
          BY <3>2, <3>4, <4>2
        <4>3. CASE i # m
          <5>1. m < i
            BY <3>3, <4>1, <4>3
          <5>2. End(Cached(m)) <= Cached(i).value_str
            BY <1>1, <3>3, <3>6, <5>1 DEF TextsOrdered
          <5>3. Cached(i).value_str \in Int
            BY <1>3 DEF Entry
          <5> QED BY <3>2, <3>4, <5>2, <5>3 DEF End
        <4> QED BY <4>2, <4>3
      <3> QED BY <3>5, <3>6
    <2> QED BY <2>1, <2>2
  <1>7. ASSUME NEW i \in 0 .. history_num - 1
        PROVE  Cached(i)' = IF HasText(Cached(i)) THEN Moved(Cached(i), VacuumOffset)
                            ELSE Cached(i)
    <2>1. Slot(i)' = Slot(i) /\ Slot(i) \in Slots
      BY <1>3 DEF Slot
    <2>2. (\E j \in TextPositions : Slot(i) = Slot(j)) <=> i \in TextPositions
      <3>1. ASSUME NEW j \in TextPositions, Slot(i) = Slot(j)
            PROVE  i = j
        <4>1. i \in 0 .. HISTORY_SIZE - 1 /\ j \in 0 .. HISTORY_SIZE - 1
          BY <1>2 DEF TextPositions
        <4> QED BY <3>1, <4>1, SlotInjective
      <3> QED BY <3>1
    <2>3. history'[Slot(i)] = IF i \in TextPositions THEN Moved(history[Slot(i)], VacuumOffset)
                              ELSE history[Slot(i)]
      BY <2>1, <2>2 DEF DCvacuum_text
    <2> QED BY <1>5, <2>1, <2>3 DEF Cached
  <1> QED BY <1>3, <1>4, <1>6, <1>7

(* DCvacuum_text keeps the types, and the texts of the values in the ring. *)
LEMMA VacuumKeeps ==
  ASSUME Inv, NEW p \in Procs, pc[p] = "get_ptr", DCvacuum_text, history_first' = history_first
  PROVE  /\ history' \in [Slots -> Entry] /\ text' \in [Cells -> Int]
         /\ last_text' \in 0 .. TEXTBUFFER_SIZE
         /\ \A i \in 0 .. history_num - 1 : TextPlaced(Cached(i))' /\ TextOwn(Cached(i))'
         /\ \A i, j \in 0 .. history_num - 1 :
               i < j /\ HasText(Cached(i)') /\ HasText(Cached(j)')
                  => End(Cached(i)') <= Cached(j)'.value_str
  <1> DEFINE o == VacuumOffset
  <1>1. o \in 0 .. last_text
    BY VacuumFacts
  <1>2. ASSUME NEW i \in 0 .. history_num - 1
        PROVE  /\ Cached(i) \in Entry /\ TextPlaced(Cached(i)) /\ TextOwn(Cached(i))
               /\ HasText(Cached(i)) => o <= Cached(i).value_str
               /\ Cached(i)' = IF HasText(Cached(i)) THEN Moved(Cached(i), o) ELSE Cached(i)
    BY VacuumFacts
  <1>3. /\ last_text \in 0 .. TEXTBUFFER_SIZE /\ TEXTBUFFER_SIZE \in Nat
        /\ text \in [Cells -> Int] /\ history \in [Slots -> Entry] /\ last_text' = last_text - o
    BY SizeAssumption DEF Inv, TypeOK, SizeAssumption, DCvacuum_text
  <1>4. history' \in [Slots -> Entry]
    <2>1. o \in Int
      BY <1>1, <1>3
    <2>2. \A e \in Entry : Moved(e, o) \in Entry
      <3> TAKE e \in Entry
      <3> DEFINE v == IF HasText(e) THEN e.value_str - o ELSE e.value_str
                 w == IF e.source # NULL THEN e.source - o ELSE e.source
      <3>1. v \in Int /\ w \in Int
        BY <2>1 DEF Entry
      <3>2. Moved(e, o) = [[e EXCEPT !.value_str = v] EXCEPT !.source = w]
        BY DEF Moved, Entry
      <3> HIDE DEF v, w
      <3> QED BY <3>1, <3>2 DEF Entry
    <2> QED BY <1>3, <2>2 DEF DCvacuum_text
  <1>5. text' \in [Cells -> Int] /\ last_text' \in 0 .. TEXTBUFFER_SIZE
    BY <1>1, <1>3 DEF DCvacuum_text
  <1> HIDE DEF o
  (* An entry with a text, before and after.                               *)
  <1>6. ASSUME NEW i \in 0 .. history_num - 1, HasText(Cached(i))
        PROVE  LET d == Cached(i)
                   e == Cached(i)'
               IN  /\ d.len1 \in Nat /\ d.len2 \in Nat /\ d.value_str \in Nat /\ o <= d.value_str
                   /\ d.value_str + d.len1 + d.len2 <= last_text
                   /\ e.id = d.id /\ e.len1 = d.len1 /\ e.len2 = d.len2
                   /\ e.value_str = d.value_str - o
                   /\ d.source # NULL => d.source = d.value_str + d.len1
                   /\ e.source = IF d.source # NULL THEN d.source - o ELSE NULL
    <2> DEFINE d == Cached(i)
    <2>1. d \in Entry /\ TextPlaced(d) /\ o <= d.value_str /\ Cached(i)' = Moved(d, o)
      BY <1>2, <1>6
    <2>2. /\ d.len1 \in Nat /\ d.len2 \in Nat /\ d.value_str \in Nat
          /\ d.value_str + d.len1 + d.len2 <= last_text
          /\ d.source # NULL => d.source = d.value_str + d.len1
      BY <1>6, <2>1 DEF TextPlaced, End, Entry
    <2>3. /\ Moved(d, o).id = d.id /\ Moved(d, o).len1 = d.len1 /\ Moved(d, o).len2 = d.len2
          /\ Moved(d, o).value_str = d.value_str - o
          /\ Moved(d, o).source = IF d.source # NULL THEN d.source - o ELSE NULL
      BY <1>6, <2>1 DEF Moved, Entry
    <2> HIDE DEF d
    <2>4. d = Cached(i)
      BY DEF d
    <2> QED BY <2>1, <2>2, <2>3, <2>4
  <1>7. \A i \in 0 .. history_num - 1 : HasText(Cached(i)') <=> HasText(Cached(i))
    BY <1>2, <1>6 DEF HasText
  <1>8. ASSUME NEW i \in 0 .. history_num - 1, ~HasText(Cached(i))
        PROVE  TextPlaced(Cached(i))' /\ TextOwn(Cached(i))'
    BY <1>2, <1>8 DEF TextPlaced, TextOwn, HasText
  <1>9. ASSUME NEW i \in 0 .. history_num - 1, HasText(Cached(i))
        PROVE  TextPlaced(Cached(i))'
    <2>1. HasText(Cached(i)') /\ Cached(i)'.value_str # NULL /\ 0 <= Cached(i)'.value_str
      BY <1>1, <1>3, <1>6, <1>7, <1>9 DEF NULL
    <2>2. Cached(i)'.source # NULL => Cached(i)'.source = Cached(i)'.value_str + Cached(i)'.len1
      BY <1>1, <1>3, <1>6, <1>9 DEF NULL
    <2>3. End(Cached(i)') <= last_text'
      BY <1>1, <1>3, <1>6, <1>9 DEF End
    <2> QED BY <2>1, <2>2, <2>3 DEF TextPlaced, HasText, End
  <1>10. ASSUME NEW i \in 0 .. history_num - 1, HasText(Cached(i))
         PROVE  TextOwn(Cached(i))'
    <2> DEFINE d == Cached(i)
               e == Cached(i)'
    <2>1. /\ d.len1 \in Nat /\ d.len2 \in Nat /\ d.value_str \in Nat /\ o <= d.value_str
          /\ d.value_str + d.len1 + d.len2 <= last_text
          /\ e.id = d.id /\ e.len1 = d.len1 /\ e.len2 = d.len2 /\ e.value_str = d.value_str - o
      BY <1>6, <1>10
    <2>2. TextPositions # {}
      BY <1>10 DEF TextPositions, Cached
    <2>3. \A c \in Cells : c + o \in Cells => text'[c] = text[c + o]
      BY <2>2 DEF DCvacuum_text, o
    <2>4. TextOwn(d)
      BY <1>2
    <2> HIDE DEF d
    <2>5. ASSUME NEW c \in Cells, e.value_str <= c, c < e.value_str + e.len1
          PROVE  text'[c] = e.id
      <3>1. c + o \in Cells /\ d.value_str <= c + o /\ c + o < d.value_str + d.len1
        BY <1>1, <1>3, <2>1, <2>5, SMTT(60) DEF Cells
      <3> QED BY <1>10, <2>1, <2>3, <2>4, <3>1 DEF TextOwn, d
    <2>6. ASSUME NEW c \in Cells, e.value_str + e.len1 <= c,
                 c < e.value_str + e.len1 + e.len2
          PROVE  text'[c] = -e.id
      <3>1. c + o \in Cells /\ d.value_str + d.len1 <= c + o /\ c + o < End(d)
        BY <1>1, <1>3, <2>1, <2>6, SMTT(60) DEF Cells, End
      <3> QED BY <1>10, <2>1, <2>3, <2>4, <3>1 DEF TextOwn, d
    <2> QED BY <2>5, <2>6 DEF TextOwn, End
  <1>11. ASSUME NEW i \in 0 .. history_num - 1, NEW j \in 0 .. history_num - 1,
                i < j, HasText(Cached(i)'), HasText(Cached(j)')
         PROVE  End(Cached(i)') <= Cached(j)'.value_str
    <2>1. HasText(Cached(i)) /\ HasText(Cached(j))
      BY <1>7, <1>11
    <2>2. End(Cached(i)) <= Cached(j).value_str
      <3>1. Filled = history_num
        BY NoFill DEF Inv
      <3> QED BY <1>11, <2>1, <3>1 DEF Inv, TextsOrdered
    <2>3. End(Cached(i)') = End(Cached(i)) - o /\ End(Cached(i)) \in Int
      BY <1>1, <1>3, <1>6, <2>1 DEF End
    <2>4. Cached(j)'.value_str = Cached(j).value_str - o /\ Cached(j).value_str \in Int
      BY <1>6, <2>1
    <2> QED BY <1>1, <1>3, <2>2, <2>3, <2>4
  <1> QED BY <1>4, <1>5, <1>8, <1>9, <1>10, <1>11

(* Whether the process reserves a slot or goes to sleep, the values in the *)
(* ring stay the same ones.                                                *)
LEMMA GetPtrFilled ==
  ASSUME Inv, NEW p \in Procs, pc[p] = "get_ptr", Reserve(p) \/ SleepUnlocked(p)
  PROVE  Filled' = history_num
  <1> USE DEF Inv
  <1>1. \A q \in Procs : pc[q] # "fill"
    BY NoFill
  <1>2. history_num \in Nat
    BY SizeAssumption DEF TypeOK, SizeAssumption
  <1>3. CASE Reserve(p)
    <2>1. pc'[p] = "fill" /\ history_num' = history_num + 1
      BY <1>3 DEF Reserve, TypeOK
    <2> QED BY <1>2, <2>1 DEF Filled
  <1>4. CASE SleepUnlocked(p)
    <2>1. \A q \in Procs : pc'[q] # "fill"
      BY <1>1, <1>4 DEF SleepUnlocked, TypeOK
    <2>2. history_num' = history_num
      BY <1>4 DEF SleepUnlocked
    <2> QED BY <1>2, <2>1, <2>2 DEF Filled
  <1> QED BY <1>3, <1>4

LEMMA DCget_history_ptrInv ==
  ASSUME Inv, NEW p \in Procs, DCget_history_ptr(p)
  PROVE  Inv'
  <1> USE DEF Inv
  <1>1. pc[p] = "get_ptr" /\ UNCHANGED <<pend, scan, added, db>> /\ history_first' = history_first
    BY DEF DCget_history_ptr, Reserve, SleepUnlocked
  <1>2. /\ history_num \in 0 .. HISTORY_SIZE /\ HISTORY_SIZE \in Nat \ {0}
        /\ last_text \in 0 .. TEXTBUFFER_SIZE /\ TEXTBUFFER_SIZE \in Nat
    BY SizeAssumption DEF TypeOK, SizeAssumption
  <1>3. TextLen(p) \in Nat /\ TextLen(p)' = TextLen(p)
    BY <1>1, ValueAssumption DEF PendOK, ValueAssumption, Value, TextLen
  <1>4. \A q \in Procs : q # p => pc[q] \notin InSection
    BY <1>1, Alone DEF InSection
  <1>5. Filled = history_num
    BY <1>1, NoFill
  <1>6. /\ UNCHANGED <<history, arena>> \/ DCvacuum_text
        /\ \/ SleepUnlocked(p)
           \/ Reserve(p) /\ history_num < HISTORY_SIZE
                /\ TextLen(p) <= TEXTBUFFER_SIZE - last_text'
    <2>1. CASE history_num >= HISTORY_SIZE
      BY <1>2, <2>1 DEF DCget_history_ptr
    <2>2. CASE /\ history_num < HISTORY_SIZE /\ (TextLen(p) = 0 \/ Fits(TextLen(p)))
               /\ Reserve(p) /\ UNCHANGED <<history, arena>>
      BY <1>2, <2>2 DEF Fits, arena
    <2>3. CASE /\ history_num < HISTORY_SIZE /\ DCvacuum_text
               /\ IF TextLen(p) <= TEXTBUFFER_SIZE - (last_text - VacuumOffset)
                  THEN Reserve(p) ELSE SleepUnlocked(p)
      BY <2>3 DEF DCvacuum_text
    <2> QED BY <2>1, <2>2, <2>3 DEF DCget_history_ptr
  <1>7. Filled' = history_num
    BY <1>1, <1>6, GetPtrFilled
  <1>8. /\ history' \in [Slots -> Entry] /\ text' \in [Cells -> Int]
        /\ last_text' \in 0 .. TEXTBUFFER_SIZE
        /\ TextsOK' /\ TextsOrdered'
    <2>1. CASE UNCHANGED <<history, arena>>
      <3>1. \A i : Cached(i)' = Cached(i)
        BY <1>1, <2>1 DEF Cached, Slot
      <3>2. TextsOK'
        BY <1>5, <1>7, <2>1, <3>1 DEF TextsOK, TextPlaced, TextOwn, HasText, End, arena
      <3>3. TextsOrdered'
        BY <1>5, <1>7, <3>1 DEF TextsOrdered, HasText, End
      <3> QED BY <2>1, <3>2, <3>3 DEF TypeOK, arena
    <2>2. CASE DCvacuum_text
      <3>1. /\ history' \in [Slots -> Entry] /\ text' \in [Cells -> Int]
            /\ last_text' \in 0 .. TEXTBUFFER_SIZE
            /\ \A i \in 0 .. history_num - 1 : TextPlaced(Cached(i))' /\ TextOwn(Cached(i))'
            /\ \A i, j \in 0 .. history_num - 1 :
                  i < j /\ HasText(Cached(i)') /\ HasText(Cached(j)')
                     => End(Cached(i)') <= Cached(j)'.value_str
        BY <1>1, <2>2, VacuumKeeps
      <3>2. TextsOK'
        BY <1>7, <3>1 DEF TextsOK
      <3>3. TextsOrdered'
        BY <1>7, <3>1 DEF TextsOrdered, HasText, End
      <3> QED BY <3>1, <3>2, <3>3
    <2> QED BY <1>6, <2>1, <2>2
  <1>9. BatchesOwn' /\ OneValuePerItem'
    BY <1>1 DEF BatchesOwn, OneValuePerItem, OwnText, scan
  <1>10. CASE SleepUnlocked(p)
    <2> USE <1>10 DEF SleepUnlocked
    <2>1. TypeOK'
      BY <1>1, <1>8 DEF TypeOK, scan, db
    <2>2. LockHeld'
      BY <1>1, <1>4, ProcessAssumption DEF LockHeld, TypeOK, InSection, ProcessAssumption
    <2>3. PendOK' /\ FillOK' /\ ScanOK'
      BY <1>1, <1>4 DEF PendOK, FillOK, ScanOK, TypeOK, InSection, Procs
    <2> QED BY <1>8, <1>9, <2>1, <2>2, <2>3
  <1>11. CASE /\ Reserve(p) /\ history_num < HISTORY_SIZE
              /\ TextLen(p) <= TEXTBUFFER_SIZE - last_text'
    <2> USE <1>11 DEF Reserve
    <2>1. TypeOK'
      <3>1. history_num' \in 0 .. HISTORY_SIZE
        BY <1>2
      <3> QED BY <1>1, <1>8, <3>1 DEF TypeOK, scan, db, InSection
    <2>2. LockHeld'
      BY <1>1, <1>4 DEF LockHeld, TypeOK, InSection
    <2>3. PendOK' /\ ScanOK'
      BY <1>1, <1>4 DEF PendOK, ScanOK, TypeOK, InSection, Procs
    <2>4. FillOK'
      <3> SUFFICES ASSUME NEW q \in Procs, pc'[q] = "fill"
                   PROVE  history_num' > 0 /\ last_text' + TextLen(q)' <= TEXTBUFFER_SIZE
        BY DEF FillOK, TextLen
      <3>1. q = p
        BY <1>4 DEF TypeOK, InSection
      <3> QED BY <1>2, <1>3, <1>8, <3>1
    <2> QED BY <1>8, <1>9, <2>1, <2>2, <2>3, <2>4
  <1> QED BY <1>6, <1>10, <1>11

-----------------------------------------------------------------------------
(* The theorems.                                                           *)

LEMMA StepInv == Inv /\ [Next]_vars => Inv'
  <1> SUFFICES ASSUME Inv, [Next]_vars PROVE Inv'
    OBVIOUS
  <1>1. CASE UNCHANGED vars
    BY <1>1, SMTT(60) DEF vars, ring, arena, scan, db, Inv, TypeOK, LockHeld, PendOK, FillOK, ScanOK,
                TextsOK, TextsOrdered, BatchesOwn, OneValuePerItem, Filled, Cached, Slot, TextLen,
                TextPlaced, TextOwn, HasText, End, OwnText
  <1>2. ASSUME NEW p \in Producers, Report(p) PROVE Inv'
    BY <1>2, BeginInv DEF Report, Procs
  <1>3. ASSUME NEW s \in Syncers, Syslog(s) PROVE Inv'
    BY <1>3, BeginInv DEF Syslog, Procs
  <1>4. ASSUME NEW p \in Procs, AddStep(p) PROVE Inv'
    BY <1>4, AddLockInv, DCget_history_ptrInv, WakeInv, FillInv DEF AddStep
  <1>5. ASSUME NEW s \in Syncers, SyncStep(s) PROVE Inv'
    <2>1. CASE Scan(s)
      <3>1. Take(s) \/ Skip(s)
        BY <2>1 DEF Scan
      <3> QED BY <2>1, <3>1, TakeInv, SkipInv
    <2> QED BY <1>5, <2>1, SyncStartInv, SyncLockInv, ScanEndInv, CommitInv DEF SyncStep
  <1> QED BY <1>1, <1>2, <1>3, <1>4, <1>5 DEF Next

(* The inductive invariant.                                                *)
THEOREM Invariance == Spec => []Inv
  BY InitInv, StepInv, PTL DEF Spec

(* The variables keep their types: the indices of the ring and of the text *)
(* buffer never leave them, whatever the processes do.                     *)
THEOREM TypeCorrect == Spec => []TypeOK
  <1>1. Inv => TypeOK
    BY DEF Inv
  <1> QED BY <1>1, Invariance, PTL

(* LOCK_CACHE and UNLOCK_CACHE are paired on every path of DCadd_history*, *)
(* DCget_history_ptr and DCsync_history.                                   *)
THEOREM MutualExclusion == Spec => []LockHeld
  <1>1. Inv => LockHeld
    BY DEF Inv
  <1> QED BY <1>1, Invariance, PTL

(* A server batch holds at most one value of an item.                      *)
THEOREM BatchItemsDiffer == Spec => []OneValuePerItem
  <1>1. Inv => OneValuePerItem
    BY DEF Inv
  <1> QED BY <1>1, Invariance, PTL

(* Through every shift of the ring and every vacuum of the text buffer a   *)
(* value keeps its own strings, and they are the ones a syncer writes.     *)
THEOREM TextsKept == Spec => []TextIntact
  <1>1. ASSUME Inv PROVE TextIntact
    <2>1. \A i \in 0 .. Filled - 1 : OwnText(Copied(Cached(i)))
      <3> TAKE i \in 0 .. Filled - 1
      <3>1. i \in 0 .. HISTORY_SIZE
        BY <1>1, SizeAssumption DEF Filled, Inv, TypeOK, SizeAssumption
      <3>2. Cached(i) \in Entry
        BY <1>1, <3>1, SlotType DEF Cached, Inv, TypeOK
      <3> QED BY <1>1, <3>2, CopiedOwn DEF Inv, TextsOK
    <2> QED BY <1>1, <2>1 DEF TextIntact, BatchesOwn, Inv
  <1> QED BY <1>1, Invariance, PTL

-----------------------------------------------------------------------------

(* The queue and the batches of HistoryQueue.                              *)
Name == [id : Nat, itemid : Items \cup {None}]
Ring == [i \in 1 .. Filled |-> Named(Cached(i - 1))]
BatchOf(s) == [k \in 1 .. Len(batch[s]) |-> Named(batch[s][k])]
Batches == [s \in Syncers |-> BatchOf(s)]

(* What a scan has passed over in the ring has its item in the batch; a    *)
(* proxy passes over nothing.  A syncer locks the cache with an empty      *)
(* batch.                                                                  *)
Scanned ==
    /\ \A s \in Syncers : pc[s] = "scan" =>
          IF Proxy THEN n[s] = history_num
          ELSE \A i \in 0 .. history_num - n[s] - 1 : DCitem_already_exists(s, Cached(i).itemid)
    /\ \A s \in Syncers : pc[s] \in {"sync_start", "sync_lock"} => batch[s] = <<>>

-----------------------------------------------------------------------------
(* Sequences.                                                              *)

LEMMA RemoveIs ==
  ASSUME NEW S, NEW q \in Seq(S), NEW k \in 1 .. Len(q)
  PROVE  /\ Queue!Remove(q, k) \in Seq(S)
         /\ Len(Queue!Remove(q, k)) = Len(q) - 1
         /\ \A i \in 1 .. Len(q) - 1 : Queue!Remove(q, k)[i] = IF i < k THEN q[i] ELSE q[i + 1]
  <1> DEFINE a == SubSeq(q, 1, k - 1)
             b == SubSeq(q, k + 1, Len(q))
  <1>1. Len(q) \in Nat /\ k \in 1 .. Len(q) /\ \A i \in 1 .. Len(q) : q[i] \in S
    OBVIOUS
  <1>2. /\ a \in Seq(S) /\ Len(a) = k - 1
        /\ \A i \in 1 .. k - 1 : a[i] = q[i]
    <2>1. \A i \in 1 .. k - 1 : q[i] \in S
      BY <1>1
    <2>2. 1 \in Int /\ k - 1 \in Int
      BY <1>1
    <2>3. /\ a \in Seq(S)
          /\ Len(a) = IF 1 <= k - 1 THEN (k - 1) - 1 + 1 ELSE 0
          /\ \A i \in 1 .. (k - 1) - 1 + 1 : a[i] = q[1 + i - 1]
      BY <2>1, <2>2, SubSeqProperties
    <2> HIDE DEF a
    <2> QED BY <1>1, <2>3
  <1>3. /\ b \in Seq(S) /\ Len(b) = Len(q) - k
        /\ \A i \in 1 .. Len(q) - k : b[i] = q[k + i]
    <2>1. \A i \in k + 1 .. Len(q) : q[i] \in S
      BY <1>1
    <2>2. k + 1 \in Int /\ Len(q) \in Int
      BY <1>1
    <2>3. /\ b \in Seq(S)
          /\ Len(b) = IF k + 1 <= Len(q) THEN Len(q) - (k + 1) + 1 ELSE 0
          /\ \A i \in 1 .. Len(q) - (k + 1) + 1 : b[i] = q[(k + 1) + i - 1]
      BY <2>1, <2>2, SubSeqProperties
    <2> HIDE DEF b
    <2> QED BY <1>1, <2>3
  <1>4. Queue!Remove(q, k) = a \o b
    BY DEF Queue!Remove
  <1> HIDE DEF a, b
  <1>5. /\ a \o b \in Seq(S) /\ Len(a \o b) = Len(a) + Len(b)
        /\ \A i \in 1 .. Len(a) + Len(b) : (a \o b)[i] = IF i <= Len(a) THEN a[i] ELSE b[i - Len(a)]
    BY <1>2, <1>3, ConcatProperties
  <1>6. ASSUME NEW i \in 1 .. Len(q) - 1
        PROVE  (a \o b)[i] = IF i < k THEN q[i] ELSE q[i + 1]
    <2>1. i \in 1 .. Len(a) + Len(b)
      BY <1>1, <1>2, <1>3
    <2>2. CASE i < k
      BY <1>1, <1>2, <1>5, <2>1, <2>2
    <2>3. CASE ~(i < k)
      <3>1. ~(i <= Len(a)) /\ i - Len(a) \in 1 .. Len(q) - k /\ k + (i - Len(a)) = i + 1
        BY <1>1, <1>2, <2>3
      <3> QED BY <1>3, <1>5, <2>1, <2>3, <3>1
    <2> QED BY <2>2, <2>3
  <1> QED BY <1>1, <1>2, <1>3, <1>4, <1>5, <1>6

LEMMA RingType ==
  ASSUME Inv
  PROVE  /\ Filled \in 0 .. HISTORY_SIZE
         /\ \A i \in 0 .. Filled - 1 : Cached(i) \in Entry
         /\ Ring \in Seq(Name) /\ Len(Ring) = Filled
         /\ \A i \in 1 .. Filled : Ring[i] = Named(Cached(i - 1))
  <1>1. Filled \in 0 .. HISTORY_SIZE
    BY SizeAssumption DEF Inv, TypeOK, Filled, FillOK, SizeAssumption
  <1>2. \A i \in 0 .. Filled - 1 : Cached(i) \in Entry
    <2> TAKE i \in 0 .. Filled - 1
    <2>1. i \in 0 .. HISTORY_SIZE
      BY <1>1, SizeAssumption DEF SizeAssumption
    <2> QED BY <2>1, SlotType DEF Cached, Inv, TypeOK
  <1>3. \A i \in 1 .. Filled : Named(Cached(i - 1)) \in Name
    <2> TAKE i \in 1 .. Filled
    <2>1. i - 1 \in 0 .. Filled - 1
      BY <1>1
    <2> QED BY <1>2, <2>1 DEF Named, Name, Entry
  <1> QED BY <1>1, <1>2, <1>3 DEF Ring

(* The same as a state predicate, for the state after a step.              *)
RingTyped ==
    /\ Filled \in 0 .. HISTORY_SIZE
    /\ Ring \in Seq(Name) /\ Len(Ring) = Filled
    /\ \A i \in 1 .. Filled : Ring[i] = Named(Cached(i - 1))

LEMMA BatchType ==
  ASSUME Inv, NEW s \in Syncers
  PROVE  /\ batch[s] \in Seq(Copy)
         /\ BatchOf(s) \in Seq(Name) /\ Len(BatchOf(s)) = Len(batch[s])
         /\ \A k \in 1 .. Len(batch[s]) : BatchOf(s)[k] = Named(batch[s][k])
  <1>1. batch[s] \in Seq(Copy) /\ Len(batch[s]) \in Nat
    BY DEF Inv, TypeOK
  <1>2. \A k \in 1 .. Len(batch[s]) : Named(batch[s][k]) \in Name
    <2> TAKE k \in 1 .. Len(batch[s])
    <2>1. batch[s][k] \in Copy
      BY <1>1
    <2> QED BY <2>1 DEF Named, Name, Copy
  <1> QED BY <1>1, <1>2 DEF BatchOf

-----------------------------------------------------------------------------
(* What a step does to the values in the ring.                             *)

(* The same values in the same order.                                      *)
SameRing ==
    /\ Filled' = Filled
    /\ \A i \in 0 .. Filled - 1 : Named(Cached(i)') = Named(Cached(i))

(* A step of p that neither scans nor fills, and leaves the batches alone. *)
Quiet(p, x) ==
    /\ pc' = [pc EXCEPT ![p] = x] /\ x \notin {"scan", "off"}
    /\ x \in {"sync_start", "sync_lock"} => p \in Syncers /\ batch[p] = <<>>
    /\ history_num' = history_num \/ pc[p] = "get_ptr"
    /\ UNCHANGED <<batch, n, added, stored>>
    /\ SameRing

LEMMA RingUnchanged ==
  ASSUME Inv, NEW p \in Procs, NEW x, pc' = [pc EXCEPT ![p] = x],
         pc[p] # "fill", x # "fill", UNCHANGED ring
  PROVE  SameRing
  <1>1. Filled' = Filled
    BY FilledSame DEF ring, Inv
  <1>2. \A i : Cached(i)' = Cached(i)
    BY DEF Cached, Slot, ring
  <1> QED BY <1>1, <1>2 DEF SameRing

(* Adding: every step but the one that fills the slot.                     *)
LEMMA BeginQuiet ==
  ASSUME Inv, NEW p \in Procs, pc[p] \in {"idle", "txn"}, NEW V, Begin(p, V)
  PROVE  Quiet(p, "add_lock")
  BY RingUnchanged DEF Begin, Quiet, ring, scan, db

LEMMA AddLockQuiet ==
  ASSUME Inv, NEW p \in Procs, AddLock(p)
  PROVE  Quiet(p, "get_ptr")
  BY RingUnchanged DEF AddLock, Quiet, ring, scan, db

LEMMA WakeQuiet ==
  ASSUME Inv, NEW p \in Procs, Wake(p)
  PROVE  Quiet(p, "add_lock")
  BY RingUnchanged DEF Wake, Quiet, ring, scan, db

(* A vacuum moves texts, not values.                                       *)
LEMMA GetPtrQuiet ==
  ASSUME Inv, NEW p \in Procs, DCget_history_ptr(p)
  PROVE  \E x \in {"fill", "sleep"} : Quiet(p, x)
  <1>1. /\ pc[p] = "get_ptr" /\ UNCHANGED <<batch, n, added, stored>>
        /\ history_first' = history_first
        /\ Reserve(p) \/ SleepUnlocked(p)
        /\ history' = history \/ DCvacuum_text
    BY DEF DCget_history_ptr, Reserve, SleepUnlocked, scan, db
  <1>2. Filled' = Filled /\ Filled = history_num
    BY <1>1, NoFill, GetPtrFilled DEF Inv
  <1>3. ASSUME NEW i \in 0 .. Filled - 1 PROVE Named(Cached(i)') = Named(Cached(i))
    <2>1. CASE history' = history
      BY <1>1, <2>1 DEF Cached, Slot
    <2>2. CASE DCvacuum_text
      <3>1. /\ Cached(i) \in Entry
            /\ Cached(i)' = IF HasText(Cached(i)) THEN Moved(Cached(i), VacuumOffset) ELSE Cached(i)
        BY <1>1, <1>2, <2>2, VacuumFacts
      <3>2. Moved(Cached(i), VacuumOffset).id = Cached(i).id
              /\ Moved(Cached(i), VacuumOffset).itemid = Cached(i).itemid
        BY <3>1 DEF Moved, Entry
      <3> QED BY <3>1, <3>2 DEF Named
    <2> QED BY <1>1, <2>1, <2>2
  <1>4. SameRing
    BY <1>2, <1>3 DEF SameRing
  <1>5. \E x \in {"fill", "sleep"} : pc' = [pc EXCEPT ![p] = x]
    BY <1>1 DEF Reserve, SleepUnlocked
  <1> QED BY <1>1, <1>4, <1>5 DEF Quiet

LEMMA SyncStartQuiet ==
  ASSUME Inv, Scanned, NEW s \in Syncers, SyncStart(s)
  PROVE  \E x \in {"done", "sync_start", "sync_lock"} : Quiet(s, x)
  <1>1. PICK x \in {"done", "sync_start", "sync_lock"} : pc' = [pc EXCEPT ![s] = x]
    BY DEF SyncStart, SyncReturn
  <1>2. s \in Procs /\ batch[s] = <<>>
    BY DEF Procs, SyncStart, Scanned
  <1>3. SameRing
    BY <1>1, <1>2, RingUnchanged DEF SyncStart
  <1> QED BY <1>1, <1>2, <1>3 DEF Quiet, SyncStart, ring, db

LEMMA ScanEndQuiet ==
  ASSUME Inv, NEW s \in Syncers, ScanEnd(s)
  PROVE  \E x \in {"done", "sync_start", "txn"} : Quiet(s, x)
  <1>1. PICK x \in {"done", "sync_start", "txn"} :
           /\ pc' = [pc EXCEPT ![s] = x]
           /\ x = "sync_start" => batch[s] = <<>>
    BY DEF ScanEnd, SyncReturn
  <1>2. s \in Procs
    BY DEF Procs
  <1>3. SameRing
    BY <1>1, <1>2, RingUnchanged DEF ScanEnd
  <1> QED BY <1>1, <1>2, <1>3 DEF Quiet, ScanEnd, ring, scan, db

(* A value is appended.                                                    *)
LEMMA FillAppends ==
  ASSUME Inv, NEW p \in Procs, Fill(p)
  PROVE  /\ Filled' = Filled + 1
         /\ \A i \in 0 .. Filled - 1 : Cached(i)' = Cached(i)
         /\ \A i : i = Filled => Cached(i)'.id = added + 1 /\ Cached(i)'.itemid = pend[p].itemid
         /\ pend[p].itemid \in Items
         /\ \E x \in {"txn", "idle"} : pc' = [pc EXCEPT ![p] = x]
         /\ \A q \in Procs : q # p => pc[q] # "scan"
  <1> USE DEF Fill, Inv
  <1> DEFINE h == history_num - 1
             e == NewEntry(pend[p])
  <1>1. pend[p].itemid \in Items
    BY ValueAssumption DEF PendOK, ValueAssumption, Value
  <1>2. history_num \in 1 .. HISTORY_SIZE /\ HISTORY_SIZE \in Nat \ {0}
    BY SizeAssumption DEF TypeOK, FillOK, SizeAssumption
  <1>3. \A q \in Procs : q # p => pc[q] \notin InSection
    BY Alone DEF InSection
  <1>4. PICK x \in {"txn", "idle"} : pc' = [pc EXCEPT ![p] = x]
    OBVIOUS
  <1>5. Filled = h /\ h \in 0 .. HISTORY_SIZE - 1 /\ Slot(h) \in Slots
    <2>1. h \in 0 .. HISTORY_SIZE - 1 /\ h \in 0 .. HISTORY_SIZE
      BY <1>2
    <2> QED BY <2>1, OneFill, SlotType
  <1>6. Filled' = h + 1
    <2>1. ~ \E q \in Procs : pc'[q] = "fill"
      BY <1>3, <1>4 DEF TypeOK, InSection
    <2> QED BY <1>2, <2>1 DEF Filled
  <1>7. history' = [history EXCEPT ![Slot(h)] = e] /\ \A i : Slot(i)' = Slot(i)
    BY DEF Slot
  <1>8. \A i \in 0 .. Filled - 1 : Cached(i)' = Cached(i)
    <2> TAKE i \in 0 .. Filled - 1
    <2>1. i \in 0 .. HISTORY_SIZE - 1 /\ i # h
      BY <1>2, <1>5
    <2>2. Slot(i) # Slot(h)
      BY <1>5, <2>1, SlotInjective
    <2> QED BY <1>7, <2>2 DEF Cached, TypeOK
  <1>9. ASSUME NEW i, i = Filled
        PROVE  Cached(i)'.id = added + 1 /\ Cached(i)'.itemid = pend[p].itemid
    <2>1. Slot(i)' = Slot(h) /\ Slot(h) \in Slots
      BY <1>5, <1>7, <1>9
    <2>2. Cached(i)' = e
      BY <1>7, <2>1 DEF Cached, TypeOK
    <2> QED BY <2>2 DEF NewEntry
  <1>10. \A q \in Procs : q # p => pc[q] # "scan"
    BY <1>3 DEF InSection
  <1>11. Filled' = Filled + 1
    BY <1>5, <1>6
  <1> QED BY <1>1, <1>4, <1>8, <1>9, <1>10, <1>11

(* The scan of s is at a position of the ring.                             *)
Position(s) == history_num - n[s]

LEMMA PositionFacts ==
  ASSUME Inv, NEW s \in Syncers, pc[s] = "scan", n[s] > 0
  PROVE  /\ Position(s) \in 0 .. Filled - 1 /\ Filled \in 1 .. HISTORY_SIZE
         /\ Filled = history_num /\ n[s] \in 1 .. HISTORY_SIZE
         /\ history[f[s]] = Cached(Position(s))
         /\ \A t \in Syncers : t # s => pc[t] # "scan"
  <1>1. /\ Position(s) \in 0 .. history_num - 1 /\ Filled = history_num
        /\ history[f[s]] = Cached(Position(s))
        /\ \A t \in Syncers : t # s => pc[t] # "scan"
    BY ScanPosition DEF Position
  <1>2. history_num \in 0 .. HISTORY_SIZE /\ HISTORY_SIZE \in Nat /\ n[s] \in 0 .. HISTORY_SIZE
    BY SizeAssumption DEF Inv, TypeOK, SizeAssumption
  <1> QED BY <1>1, <1>2

(* The value at the position is removed; the others close up.              *)
LEMMA TakeRemoves ==
  ASSUME Inv, NEW s \in Syncers, Scan(s), Take(s)
  PROVE  /\ Filled' = Filled - 1 /\ history_num' = history_num - 1
         /\ \A i \in 0 .. Filled - 2 :
               Cached(i)' = IF i < Position(s) THEN Cached(i) ELSE Cached(i + 1)
         /\ batch' = [batch EXCEPT ![s] = Append(@, Copied(Cached(Position(s))))]
         /\ n' = [n EXCEPT ![s] = @ - 1]
         /\ UNCHANGED <<pc, added, stored>>
  <1> USE DEF Scan, Take, Inv
  <1> DEFINE k == Position(s)
  <1>1. /\ k \in 0 .. Filled - 1 /\ Filled \in 1 .. HISTORY_SIZE /\ Filled = history_num
        /\ history[f[s]] = Cached(k)
    BY PositionFacts
  <1>2. HISTORY_SIZE \in Nat \ {0}
    BY SizeAssumption DEF SizeAssumption
  <1>3. Filled' = Filled - 1
    <2>1. ~ \E q \in Procs : pc'[q] = "fill"
      BY ScanPosition
    <2> QED BY <1>1, <2>1 DEF Filled
  <1>4. f[s] = Slot(k)
    BY ScanPosition DEF Position
  <1>5. ASSUME NEW i \in 0 .. Filled - 2
        PROVE  Cached(i)' = IF i < k THEN Cached(i) ELSE Cached(i + 1)
    <2>1. i \in 0 .. HISTORY_SIZE - 1 /\ i \in 0 .. HISTORY_SIZE - 2 /\ k \in 0 .. HISTORY_SIZE - 1
      BY <1>1, <1>2
    <2>2. Slot(i)' = Slot(i + 1)
      BY <2>1, SlotNext
    <2>3. history' = ShiftUp(Slot(k))
      BY <1>4
    <2>4. Cached(i)' = ShiftUp(Slot(k))[Slot(i + 1)]
      BY <2>2, <2>3 DEF Cached
    <2> QED BY <2>1, <2>4, ShiftCloses
  <1>6. batch' = [batch EXCEPT ![s] = Append(@, Copied(Cached(k)))]
    BY <1>1
  <1> QED BY <1>3, <1>5, <1>6 DEF db

(* A value is passed over because its item is in the batch.                *)
LEMMA SkipFacts ==
  ASSUME Inv, NEW s \in Syncers, Scan(s), Skip(s)
  PROVE  /\ SameRing /\ history_num' = history_num
         /\ ~Proxy /\ DCitem_already_exists(s, Cached(Position(s)).itemid)
         /\ n' = [n EXCEPT ![s] = @ - 1]
         /\ UNCHANGED <<pc, batch, added, stored>>
  <1> USE DEF Scan, Skip
  <1>1. history[f[s]] = Cached(Position(s))
    BY PositionFacts
  <1>2. s \in Procs /\ pc' = [pc EXCEPT ![s] = "scan"]
    BY DEF Procs, Inv, TypeOK
  <1>3. SameRing
    BY <1>2, RingUnchanged
  <1> QED BY <1>1, <1>3 DEF ring, db

LEMMA LockFacts ==
  ASSUME Inv, Scanned, NEW s \in Syncers, SyncLock(s)
  PROVE  /\ SameRing /\ history_num' = history_num
         /\ pc' = [pc EXCEPT ![s] = "scan"] /\ n' = [n EXCEPT ![s] = history_num]
         /\ \A t \in Syncers \ {s} : pc[t] # "scan"
         /\ UNCHANGED <<batch, added, stored>>
  <1> USE DEF SyncLock
  <1>1. s \in Procs
    BY DEF Procs
  <1>2. SameRing
    BY <1>1, RingUnchanged
  <1>3. batch' = batch
    BY DEF Scanned, Inv, TypeOK
  <1>4. \A t \in Syncers : pc[t] # "scan"
    BY ProcessAssumption DEF Inv, LockHeld, InSection, Procs, ProcessAssumption
  <1> QED BY <1>2, <1>3, <1>4 DEF ring, db

LEMMA CommitFacts ==
  ASSUME Inv, NEW s \in Syncers, Commit(s)
  PROVE  /\ SameRing /\ history_num' = history_num
         /\ \E x \in {"done", "sync_start", "sync_lock"} : pc' = [pc EXCEPT ![s] = x]
         /\ batch' = [batch EXCEPT ![s] = <<>>]
         /\ stored' = stored \cup Ids(batch[s])
         /\ UNCHANGED <<n, added>>
  <1> USE DEF Commit
  <1>1. PICK x \in {"done", "sync_start", "sync_lock"} : pc' = [pc EXCEPT ![s] = x]
    BY DEF SyncReturn
  <1>2. s \in Procs
    BY DEF Procs
  <1>3. SameRing
    BY <1>1, <1>2, RingUnchanged
  <1> QED BY <1>1, <1>3 DEF ring

-----------------------------------------------------------------------------
(* Each step preserves Scanned.                                            *)

LEMMA InitScanned == Init => Scanned
  <1> SUFFICES ASSUME Init PROVE Scanned
    OBVIOUS
  <1>1. \A s \in Syncers : pc[s] # "scan" /\ batch[s] = <<>>
    BY DEF Init, Procs
  <1> QED BY <1>1 DEF Scanned

LEMMA QuietScanned ==
  ASSUME Inv, Scanned, NEW p \in Procs, NEW x, Quiet(p, x)
  PROVE  Scanned'
  <1> USE DEF Quiet
  <1>1. \A s \in Syncers : s # p => pc'[s] = pc[s]
    BY DEF Inv, TypeOK, Procs
  <1>2. pc'[p] = x
    BY DEF Inv, TypeOK
  <1>3. ASSUME NEW s \in Syncers, pc'[s] = "scan"
        PROVE  IF Proxy THEN n'[s] = history_num'
               ELSE \A i \in 0 .. history_num' - n'[s] - 1 :
                       DCitem_already_exists(s, Cached(i).itemid)'
    <2>1. s # p /\ pc[s] = "scan" /\ s \in Procs
      BY <1>1, <1>2, <1>3 DEF Procs
    <2>2. history_num' = history_num
      BY <2>1, Alone DEF Inv, InSection
    <2>3. Filled = history_num /\ history_num \in Nat /\ n[s] \in Nat
      BY <2>1, NoFill, SizeAssumption DEF Inv, TypeOK, SizeAssumption
    <2>4. CASE Proxy
      BY <2>1, <2>2, <2>4 DEF Scanned
    <2>5. CASE ~Proxy
      <3> SUFFICES ASSUME NEW i \in 0 .. history_num - n[s] - 1
                   PROVE  DCitem_already_exists(s, Cached(i).itemid)'
        BY <2>2, <2>5
      <3>1. i \in 0 .. Filled - 1
        BY <2>3
      <3>2. Cached(i)'.itemid = Cached(i).itemid
        BY <3>1 DEF SameRing, Named
      <3>3. DCitem_already_exists(s, Cached(i).itemid)
        BY <2>1, <2>5 DEF Scanned
      <3> QED BY <3>2, <3>3 DEF DCitem_already_exists
    <2> QED BY <2>4, <2>5
  <1>4. ASSUME NEW s \in Syncers, pc'[s] \in {"sync_start", "sync_lock"} PROVE batch'[s] = <<>>
    BY <1>1, <1>2, <1>4 DEF Scanned
  <1> QED BY <1>3, <1>4 DEF Scanned

LEMMA FillScanned ==
  ASSUME Inv, Scanned, NEW p \in Procs, Fill(p)
  PROVE  Scanned'
  <1>1. PICK x \in {"txn", "idle"} : pc' = [pc EXCEPT ![p] = x]
    BY FillAppends
  <1>2. \A s \in Syncers : pc'[s] # "scan"
    BY <1>1, FillAppends DEF Inv, TypeOK, Procs
  <1>3. \A s \in Syncers : pc'[s] \in {"sync_start", "sync_lock"} => pc'[s] = pc[s]
    BY <1>1 DEF Inv, TypeOK, Procs
  <1>4. batch' = batch
    BY DEF Fill, scan
  <1> QED BY <1>2, <1>3, <1>4 DEF Scanned

LEMMA LockScanned ==
  ASSUME Inv, Scanned, NEW s \in Syncers, SyncLock(s)
  PROVE  Scanned'
  <1>1. /\ history_num' = history_num /\ pc' = [pc EXCEPT ![s] = "scan"]
        /\ n' = [n EXCEPT ![s] = history_num] /\ batch' = batch
        /\ \A t \in Syncers \ {s} : pc[t] # "scan"
    BY LockFacts
  <1>2. n'[s] = history_num /\ history_num \in Nat
    BY <1>1, SizeAssumption DEF Inv, TypeOK, SizeAssumption
  <1>3. \A t \in Syncers : pc'[t] = "scan" => t = s
    BY <1>1 DEF Inv, TypeOK, Procs
  <1>4. 0 .. history_num' - n'[s] - 1 = {}
    BY <1>1, <1>2
  <1>5. \A t \in Syncers : pc'[t] \in {"sync_start", "sync_lock"} => pc[t] = pc'[t]
    BY <1>1 DEF Inv, TypeOK, Procs
  <1> QED BY <1>1, <1>2, <1>3, <1>4, <1>5 DEF Scanned

LEMMA CommitScanned ==
  ASSUME Inv, Scanned, NEW s \in Syncers, Commit(s)
  PROVE  Scanned'
  <1>1. PICK x \in {"done", "sync_start", "sync_lock"} : pc' = [pc EXCEPT ![s] = x]
    BY CommitFacts
  <1>2. /\ SameRing /\ history_num' = history_num /\ n' = n
        /\ batch' = [batch EXCEPT ![s] = <<>>]
    BY CommitFacts
  <1>3. batch'[s] = <<>> /\ \A t \in Syncers : t # s => batch'[t] = batch[t] /\ pc'[t] = pc[t]
    BY <1>1, <1>2 DEF Inv, TypeOK, Procs
  <1>4. pc'[s] # "scan"
    BY <1>1 DEF Inv, TypeOK, Procs
  <1>5. ASSUME NEW t \in Syncers, pc'[t] = "scan"
        PROVE  IF Proxy THEN n'[t] = history_num'
               ELSE \A i \in 0 .. history_num' - n'[t] - 1 :
                       DCitem_already_exists(t, Cached(i).itemid)'
    <2>1. t # s /\ pc[t] = "scan" /\ t \in Procs
      BY <1>3, <1>4, <1>5 DEF Procs
    <2>2. Filled = history_num /\ history_num \in Nat /\ n[t] \in Nat
      BY <2>1, NoFill, SizeAssumption DEF Inv, TypeOK, SizeAssumption
    <2>3. CASE ~Proxy
      <3> SUFFICES ASSUME NEW i \in 0 .. history_num - n[t] - 1
                   PROVE  DCitem_already_exists(t, Cached(i).itemid)'
        BY <1>2, <2>3
      <3>1. i \in 0 .. Filled - 1
        BY <2>2
      <3>2. Cached(i)'.itemid = Cached(i).itemid
        BY <1>2, <3>1 DEF SameRing, Named
      <3>3. DCitem_already_exists(t, Cached(i).itemid)
        BY <2>1, <2>3 DEF Scanned
      <3> QED BY <1>3, <2>1, <3>2, <3>3 DEF DCitem_already_exists
    <2>4. CASE Proxy
      BY <1>2, <2>1, <2>4 DEF Scanned
    <2> QED BY <2>3, <2>4
  <1> QED BY <1>3, <1>5 DEF Scanned

LEMMA SkipScanned ==
  ASSUME Inv, Scanned, NEW s \in Syncers, Scan(s), Skip(s)
  PROVE  Scanned'
  <1> DEFINE k == Position(s)
  <1>1. /\ SameRing /\ history_num' = history_num
        /\ ~Proxy /\ DCitem_already_exists(s, Cached(k).itemid)
        /\ n' = [n EXCEPT ![s] = @ - 1]
        /\ UNCHANGED <<pc, batch>>
    BY SkipFacts
  <1>2. /\ k \in 0 .. Filled - 1 /\ Filled = history_num /\ n[s] \in 1 .. HISTORY_SIZE
        /\ \A t \in Syncers : t # s => pc[t] # "scan"
        /\ history_num \in Nat /\ pc[s] = "scan"
    BY PositionFacts, SizeAssumption DEF Scan, Inv, TypeOK, SizeAssumption
  <1>3. n'[s] = n[s] - 1
    BY <1>1 DEF Inv, TypeOK
  <1>4. k = history_num - n[s]
    BY DEF Position
  <1> HIDE DEF k
  <1>5. ASSUME NEW i \in 0 .. history_num' - n'[s] - 1
        PROVE  DCitem_already_exists(s, Cached(i).itemid)'
    <2>1. i \in 0 .. Filled - 1 /\ (i = k \/ i \in 0 .. history_num - n[s] - 1)
      BY <1>1, <1>2, <1>3, <1>4
    <2>2. Cached(i)'.itemid = Cached(i).itemid
      BY <1>1, <2>1 DEF SameRing, Named
    <2>3. DCitem_already_exists(s, Cached(i).itemid)
      BY <1>1, <1>2, <2>1 DEF Scanned
    <2> QED BY <1>1, <2>2, <2>3 DEF DCitem_already_exists
  <1> QED BY <1>1, <1>2, <1>5 DEF Scanned

LEMMA TakeScanned ==
  ASSUME Inv, Scanned, NEW s \in Syncers, Scan(s), Take(s)
  PROVE  Scanned'
  <1> DEFINE k == Position(s)
             c == Copied(Cached(k))
  <1>1. /\ Filled' = Filled - 1 /\ history_num' = history_num - 1
        /\ \A i \in 0 .. Filled - 2 : Cached(i)' = IF i < k THEN Cached(i) ELSE Cached(i + 1)
        /\ batch' = [batch EXCEPT ![s] = Append(@, c)]
        /\ n' = [n EXCEPT ![s] = @ - 1]
        /\ UNCHANGED <<pc, added, stored>>
    BY TakeRemoves
  <1>2. /\ k \in 0 .. Filled - 1 /\ Filled \in 1 .. HISTORY_SIZE
        /\ Filled = history_num /\ n[s] \in 1 .. HISTORY_SIZE
        /\ \A t \in Syncers : t # s => pc[t] # "scan"
        /\ pc[s] = "scan"
    BY PositionFacts DEF Scan
  <1>3. n'[s] = n[s] - 1 /\ batch'[s] = Append(batch[s], c)
        /\ \A t \in Syncers : t # s => batch'[t] = batch[t]
    BY <1>1 DEF Inv, TypeOK
  <1>4. k = history_num - n[s] /\ HISTORY_SIZE \in Nat
    BY SizeAssumption DEF Position, SizeAssumption
  <1>5. batch[s] \in Seq(Copy)
    BY DEF Inv, TypeOK
  <1> HIDE DEF k, c
  <1>6. Len(batch'[s]) = Len(batch[s]) + 1 /\ \A i \in 1 .. Len(batch[s]) : batch'[s][i] = batch[s][i]
    BY <1>3, <1>5
  <1>7. ASSUME ~Proxy, NEW i \in 0 .. history_num' - n'[s] - 1
        PROVE  DCitem_already_exists(s, Cached(i).itemid)'
    <2>1. i \in 0 .. Filled - 2 /\ i < k /\ i \in 0 .. history_num - n[s] - 1
      BY <1>1, <1>2, <1>3, <1>4
    <2>2. Cached(i)' = Cached(i)
      BY <1>1, <2>1
    <2>3. DCitem_already_exists(s, Cached(i).itemid)
      BY <1>2, <1>7, <2>1 DEF Scanned
    <2>4. PICK m \in 1 .. Len(batch[s]) : batch[s][m].itemid = Cached(i).itemid
      BY <2>3 DEF DCitem_already_exists
    <2>5. Len(batch[s]) \in Nat
      BY <1>5
    <2>6. m \in 1 .. Len(batch'[s]) /\ batch'[s][m].itemid = Cached(i).itemid
      BY <1>6, <2>4, <2>5
    <2> QED BY <2>2, <2>6 DEF DCitem_already_exists
  <1>8. Proxy => n'[s] = history_num'
    BY <1>1, <1>2, <1>3 DEF Scanned
  <1> QED BY <1>1, <1>2, <1>3, <1>7, <1>8 DEF Scanned

LEMMA StepScanned == Inv /\ Scanned /\ [Next]_vars => Scanned'
  <1> SUFFICES ASSUME Inv, Scanned, [Next]_vars PROVE Scanned'
    OBVIOUS
  <1>1. CASE UNCHANGED vars
    BY <1>1 DEF vars, ring, scan, Scanned, DCitem_already_exists, Cached, Slot
  <1>2. ASSUME NEW p \in Producers, Report(p) PROVE Scanned'
    BY <1>2, BeginQuiet, QuietScanned DEF Report, Procs
  <1>3. ASSUME NEW s \in Syncers, Syslog(s) PROVE Scanned'
    BY <1>3, BeginQuiet, QuietScanned DEF Syslog, Procs
  <1>4. ASSUME NEW p \in Procs, AddStep(p) PROVE Scanned'
    BY <1>4, AddLockQuiet, GetPtrQuiet, WakeQuiet, QuietScanned, FillScanned DEF AddStep
  <1>5. ASSUME NEW s \in Syncers, SyncStep(s) PROVE Scanned'
    <2>1. s \in Procs
      BY DEF Procs
    <2>2. CASE Scan(s)
      <3>1. Take(s) \/ Skip(s)
        BY <2>2 DEF Scan
      <3> QED BY <2>2, <3>1, TakeScanned, SkipScanned
    <2>3. CASE SyncStart(s) \/ ScanEnd(s)
      BY <2>1, <2>3, SyncStartQuiet, ScanEndQuiet, QuietScanned
    <2> QED BY <1>5, <2>2, <2>3, LockScanned, CommitScanned DEF SyncStep
  <1> QED BY <1>1, <1>2, <1>3, <1>4, <1>5 DEF Next

-----------------------------------------------------------------------------
(* The refinement.                                                         *)

LEMMA RingTypeNext ==
  Inv' => /\ Filled' \in 0 .. HISTORY_SIZE
          /\ Ring' \in Seq(Name) /\ Len(Ring') = Filled'
          /\ \A i \in 1 .. Filled' : Ring'[i] = Named(Cached(i - 1)')
  <1>1. Inv => RingTyped
    BY RingType DEF RingTyped
  <1>2. Inv' => RingTyped'
    BY <1>1, PTL
  <1> QED BY <1>2 DEF RingTyped, Named

LEMMA SameRingSameQueue ==
  ASSUME Inv, SameRing
  PROVE  Ring' = Ring
  <1>1. Filled \in Nat /\ \A i \in 1 .. Filled : i - 1 \in 0 .. Filled - 1
    BY RingType, SizeAssumption DEF SizeAssumption
  <1>2. Ring' = [i \in 1 .. Filled |-> Named(Cached(i - 1)')]
    BY DEF Ring, SameRing, Named
  <1>3. \A i \in 1 .. Filled : Named(Cached(i - 1)') = Named(Cached(i - 1))
    BY <1>1 DEF SameRing
  <1> QED BY <1>2, <1>3 DEF Ring

LEMMA SameBatches ==
  ASSUME batch' = batch
  PROVE  Batches' = Batches
  BY DEF Batches, BatchOf, Named

LEMMA QuietStutters ==
  ASSUME Inv, NEW p, NEW x, Quiet(p, x)
  PROVE  UNCHANGED <<Ring, Batches, added, stored>>
  BY SameRingSameQueue, SameBatches DEF Quiet

LEMMA QueueVars ==
  ASSUME UNCHANGED <<Ring, Batches, added, stored>>
  PROVE  UNCHANGED Queue!vars
  BY DEF Queue!vars, Ring, Batches, BatchOf

LEMMA InitQueue == Init => Queue!Init
  <1> SUFFICES ASSUME Init PROVE Queue!Init
    OBVIOUS
  <1>1. Filled = 0
    <2>1. \A p \in Procs : pc[p] # "fill"
      BY DEF Init
    <2>2. history_num = 0
      BY DEF Init
    <2>3. Filled = history_num - 0
      BY <2>1, Zenon DEF Filled
    <2> QED BY <2>2, <2>3
  <1>2. Ring = <<>>
    BY <1>1 DEF Ring
  <1>3. \A s \in Syncers : BatchOf(s) = <<>>
    BY DEF Init, BatchOf
  <1>4. Batches = [s \in Syncers |-> <<>>]
    BY <1>3 DEF Batches
  <1>5. added = 0 /\ stored = {}
    BY DEF Init
  <1> QED BY <1>2, <1>4, <1>5 DEF Queue!Init, Ring, Batches, BatchOf

LEMMA FillAdds ==
  ASSUME Inv, Inv', NEW p \in Procs, Fill(p)
  PROVE  Queue!Add
  <1> DEFINE v == [id |-> added + 1, itemid |-> pend[p].itemid]
  <1>1. /\ Filled' = Filled + 1
        /\ \A i \in 0 .. Filled - 1 : Cached(i)' = Cached(i)
        /\ \A i : i = Filled => Cached(i)'.id = added + 1 /\ Cached(i)'.itemid = pend[p].itemid
        /\ pend[p].itemid \in Items
    BY FillAppends
  <1>2. /\ Filled \in Nat /\ Ring \in Seq(Name) /\ Len(Ring) = Filled
        /\ \A i \in 1 .. Filled : Ring[i] = Named(Cached(i - 1))
    BY RingType, SizeAssumption DEF SizeAssumption
  <1>3. /\ Ring' \in Seq(Name) /\ Len(Ring') = Filled'
        /\ \A i \in 1 .. Filled' : Ring'[i] = Named(Cached(i - 1)')
    BY RingTypeNext
  <1>4. v \in Name
    BY <1>1 DEF Inv, TypeOK, Name
  <1>5. /\ Append(Ring, v) \in Seq(Name) /\ Len(Append(Ring, v)) = Filled + 1
        /\ \A i \in 1 .. Filled : Append(Ring, v)[i] = Ring[i]
        /\ Append(Ring, v)[Filled + 1] = v
    BY <1>2, <1>4, AppendProperties
  <1>6. ASSUME NEW i \in 1 .. Filled + 1 PROVE Ring'[i] = Append(Ring, v)[i]
    <2>1. Ring'[i] = Named(Cached(i - 1)')
      BY <1>1, <1>3
    <2>2. CASE i \in 1 .. Filled
      <3>1. i - 1 \in 0 .. Filled - 1
        BY <1>2, <2>2
      <3> QED BY <1>1, <1>2, <1>5, <2>1, <2>2, <3>1
    <2>3. CASE i = Filled + 1
      <3>1. i - 1 = Filled
        BY <1>2, <2>3
      <3>2. Cached(i - 1)'.id = v.id /\ Cached(i - 1)'.itemid = v.itemid
        BY <1>1, <3>1
      <3> QED BY <1>5, <2>1, <2>3, <3>2 DEF Named
    <2> QED BY <1>2, <2>2, <2>3
  <1>7. Ring' = Append(Ring, v)
    <2> HIDE DEF v
    <2> QED BY <1>1, <1>3, <1>5, <1>6, SeqEqual
  <1>8. Batches' = Batches /\ added' = added + 1 /\ stored' = stored
    BY SameBatches DEF Fill, scan, db
  <1> QED BY <1>1, <1>7, <1>8 DEF Queue!Add, Ring, Batches, BatchOf

(* The value removed is the oldest of its item, and a proxy's the oldest.  *)
LEMMA TakeMay ==
  ASSUME Inv, Scanned, NEW s \in Syncers, Scan(s), Take(s)
  PROVE  /\ Position(s) + 1 \in 1 .. Len(Ring)
         /\ Ring[Position(s) + 1] = Named(Cached(Position(s)))
         /\ Queue!MayTake(s, Position(s) + 1)
  <1> DEFINE k == Position(s)
             c == Cached(k)
  <1>1. /\ k \in 0 .. Filled - 1 /\ Filled = history_num
        /\ history[f[s]] = c /\ pc[s] = "scan"
    BY PositionFacts DEF Scan
  <1>2. /\ Filled \in Nat /\ Len(Ring) = Filled
        /\ \A i \in 1 .. Filled : Ring[i] = Named(Cached(i - 1))
    BY RingType, SizeAssumption DEF SizeAssumption
  <1>3. k = history_num - n[s] /\ n[s] \in Nat /\ history_num \in Nat
    BY SizeAssumption DEF Position, Inv, TypeOK, SizeAssumption
  <1>4. /\ Len(Batches[s]) = Len(batch[s])
        /\ \A m \in 1 .. Len(batch[s]) : Batches[s][m] = Named(batch[s][m])
    BY BatchType DEF Batches
  <1>5. Proxy \/ ~DCitem_already_exists(s, c.itemid)
    BY <1>1 DEF Take
  <1> HIDE DEF k
  <1>6. k + 1 \in 1 .. Filled /\ Ring[k + 1] = Named(c)
    <2>1. k + 1 \in 1 .. Filled /\ (k + 1) - 1 = k
      BY <1>1, <1>2
    <2> QED BY <1>2, <2>1
  <1>7. Proxy => k + 1 = 1
    BY <1>1, <1>3 DEF Scanned
  <1>8. ASSUME ~Proxy, NEW j \in 1 .. (k + 1) - 1
        PROVE  Ring[j].itemid # Ring[k + 1].itemid
    <2>1. j \in 1 .. Filled /\ j - 1 \in 0 .. history_num - n[s] - 1
      BY <1>1, <1>2, <1>3
    <2>2. DCitem_already_exists(s, Cached(j - 1).itemid)
      BY <1>1, <1>8, <2>1 DEF Scanned
    <2>3. Ring[j].itemid = Cached(j - 1).itemid /\ Ring[k + 1].itemid = c.itemid
      BY <1>2, <1>6, <2>1 DEF Named
    <2> HIDE DEF c
    <2> QED BY <1>5, <1>8, <2>2, <2>3
  <1>9. ASSUME ~Proxy
        PROVE  ~(\E m \in 1 .. Len(Batches[s]) : Batches[s][m].itemid = Ring[k + 1].itemid)
    <2>1. Ring[k + 1].itemid = c.itemid
      BY <1>6 DEF Named
    <2>2. ASSUME NEW m \in 1 .. Len(batch[s]) PROVE Batches[s][m].itemid = batch[s][m].itemid
      <3>1. Batches[s][m] = Named(batch[s][m])
        BY <1>4
      <3> QED BY <3>1 DEF Named
    <2> QED BY <1>4, <1>5, <1>9, <2>1, <2>2 DEF DCitem_already_exists
  <1>10. Queue!MayTake(s, k + 1)
    BY <1>7, <1>8, <1>9 DEF Queue!MayTake, Queue!InBatch, Ring, Batches, BatchOf
  <1> QED BY <1>2, <1>6, <1>10 DEF k

LEMMA TakeTakes ==
  ASSUME Inv, Inv', Scanned, NEW s \in Syncers, Scan(s), Take(s)
  PROVE  Queue!Take(s)
  <1> DEFINE k == Position(s)
             c == Copied(Cached(k))
  <1>1. /\ Filled' = Filled - 1
        /\ \A i \in 0 .. Filled - 2 : Cached(i)' = IF i < k THEN Cached(i) ELSE Cached(i + 1)
        /\ batch' = [batch EXCEPT ![s] = Append(@, c)]
        /\ added' = added /\ stored' = stored
    BY TakeRemoves
  <1>2. /\ Filled \in Nat /\ Ring \in Seq(Name) /\ Len(Ring) = Filled
        /\ \A i \in 1 .. Filled : Ring[i] = Named(Cached(i - 1))
    BY RingType, SizeAssumption DEF SizeAssumption
  <1>3. /\ Ring' \in Seq(Name) /\ Len(Ring') = Filled'
        /\ \A i \in 1 .. Filled' : Ring'[i] = Named(Cached(i - 1)')
    BY RingTypeNext
  <1>4. /\ k + 1 \in 1 .. Len(Ring) /\ Ring[k + 1] = Named(Cached(k))
        /\ Queue!MayTake(s, k + 1)
    BY TakeMay
  <1>5. k \in 0 .. Filled - 1
    BY PositionFacts DEF Scan
  <1>6. Named(c) = Named(Cached(k))
    BY DEF Named, Copied
  <1>7. /\ batch[s] \in Seq(Copy) /\ BatchOf(s) \in Seq(Name) /\ Len(BatchOf(s)) = Len(batch[s])
        /\ \A m \in 1 .. Len(batch[s]) : BatchOf(s)[m] = Named(batch[s][m])
    BY BatchType
  <1> HIDE DEF k, c
  <1>8. Ring' = Queue!Remove(Ring, k + 1)
    <2>1. /\ Queue!Remove(Ring, k + 1) \in Seq(Name)
          /\ Len(Queue!Remove(Ring, k + 1)) = Len(Ring) - 1
          /\ \A i \in 1 .. Len(Ring) - 1 :
                Queue!Remove(Ring, k + 1)[i] = IF i < k + 1 THEN Ring[i] ELSE Ring[i + 1]
      BY <1>2, <1>4, RemoveIs
    <2>2. ASSUME NEW i \in 1 .. Filled - 1 PROVE Ring'[i] = Queue!Remove(Ring, k + 1)[i]
      <3>1. /\ i - 1 \in 0 .. Filled - 2 /\ i \in 1 .. Filled /\ i + 1 \in 1 .. Filled
            /\ (i - 1) + 1 = i /\ (i + 1) - 1 = i /\ (i - 1 < k <=> i < k + 1)
        BY <1>2, <1>5
      <3>2. Ring'[i] = Named(Cached(i - 1)')
        BY <1>1, <1>3
      <3>3. CASE i < k + 1
        <4>1. Cached(i - 1)' = Cached(i - 1)
          BY <1>1, <3>1, <3>3
        <4> QED BY <1>2, <2>1, <3>1, <3>2, <3>3, <4>1
      <3>4. CASE ~(i < k + 1)
        <4>1. Cached(i - 1)' = Cached(i)
          BY <1>1, <3>1, <3>4
        <4>2. Ring[i + 1] = Named(Cached(i))
          BY <1>2, <3>1
        <4> QED BY <1>2, <2>1, <3>1, <3>2, <3>4, <4>1, <4>2
      <3> QED BY <3>3, <3>4
    <2> QED BY <1>1, <1>2, <1>3, <2>1, <2>2, SeqEqual
  <1>9. Batches' = [Batches EXCEPT ![s] = Append(@, Ring[k + 1])]
    <2>1. \A t \in Syncers : t # s => batch'[t] = batch[t]
      BY <1>1 DEF Inv, TypeOK
    <2>2. batch'[s] = Append(batch[s], c)
      BY <1>1 DEF Inv, TypeOK
    <2>3. /\ Len(batch'[s]) = Len(batch[s]) + 1 /\ batch'[s][Len(batch[s]) + 1] = c
          /\ \A m \in 1 .. Len(batch[s]) : batch'[s][m] = batch[s][m]
          /\ Len(batch[s]) \in Nat
      BY <1>7, <2>2
    <2> DEFINE A == Append(BatchOf(s), Ring[k + 1])
    <2>4. /\ A \in Seq(Name) /\ Len(A) = Len(batch[s]) + 1
          /\ \A m \in 1 .. Len(batch[s]) : A[m] = BatchOf(s)[m]
          /\ A[Len(batch[s]) + 1] = Ring[k + 1]
      <3>1. Ring[k + 1] \in Name
        BY <1>2, <1>4
      <3> QED BY <1>7, <3>1, AppendProperties
    <2> HIDE DEF A
    <2>5. \A m \in 1 .. Len(batch[s]) + 1 : Named(batch'[s][m]) = A[m]
      <3> TAKE m \in 1 .. Len(batch[s]) + 1
      <3>1. m \in 1 .. Len(batch[s]) \/ m = Len(batch[s]) + 1
        BY <2>3
      <3> QED BY <1>4, <1>6, <1>7, <2>3, <2>4, <3>1
    <2>6. BatchOf(s)' = Append(BatchOf(s), Ring[k + 1])
      <3>1. BatchOf(s)' = [m \in 1 .. Len(batch[s]) + 1 |-> Named(batch'[s][m])]
        BY <2>3 DEF BatchOf, Named
      <3>2. A = [m \in 1 .. Len(batch[s]) + 1 |-> A[m]]
        BY <2>4, LenProperties
      <3> QED BY <2>5, <3>1, <3>2 DEF A
    <2>7. \A t \in Syncers : t # s => BatchOf(t)' = BatchOf(t)
      BY <2>1 DEF BatchOf, Named
    <2> QED BY <2>6, <2>7 DEF Batches
  <1>10. Len(Batches[s]) < SYNC_MAX
    BY <1>7 DEF Batches, Scan
  <1> QED BY <1>1, <1>4, <1>8, <1>9, <1>10 DEF Queue!Take, Ring, Batches, BatchOf

(* A transaction of an empty batch changes nothing.                        *)
LEMMA CommitStores ==
  ASSUME Inv, NEW s \in Syncers, Commit(s)
  PROVE  Queue!Store(s) \/ UNCHANGED <<Ring, Batches, added, stored>>
  <1>1. /\ SameRing /\ batch' = [batch EXCEPT ![s] = <<>>]
        /\ stored' = stored \cup Ids(batch[s]) /\ added' = added
    BY CommitFacts
  <1>2. Ring' = Ring
    BY <1>1, SameRingSameQueue
  <1>3. /\ batch[s] \in Seq(Copy) /\ BatchOf(s) \in Seq(Name) /\ Len(BatchOf(s)) = Len(batch[s])
        /\ \A m \in 1 .. Len(batch[s]) : BatchOf(s)[m] = Named(batch[s][m])
    BY BatchType
  <1>4. CASE batch[s] = <<>>
    <2>1. batch' = batch
      BY <1>1, <1>4 DEF Inv, TypeOK
    <2>2. Ids(batch[s]) = {}
      BY <1>4 DEF Ids
    <2> QED BY <1>1, <1>2, <2>1, <2>2, SameBatches
  <1>5. CASE batch[s] # <<>>
    <2>1. Batches[s] = BatchOf(s)
      BY DEF Batches
    <2>2. Batches[s] # <<>>
      BY <1>3, <1>5, <2>1
    <2>3. Ids(batch[s]) = {Batches[s][m].id : m \in 1 .. Len(Batches[s])}
      <3>1. ASSUME NEW m \in 1 .. Len(batch[s]) PROVE Batches[s][m].id = batch[s][m].id
        <4>1. Batches[s][m] = Named(batch[s][m])
          BY <1>3, <2>1
        <4> QED BY <4>1 DEF Named
      <3> QED BY <1>3, <2>1, <3>1 DEF Ids
    <2>4. Batches' = [Batches EXCEPT ![s] = <<>>]
      <3>1. /\ batch'[s] = <<>>
            /\ \A t \in Syncers : t # s => batch'[t] = batch[t]
        BY <1>1 DEF Inv, TypeOK
      <3>2. BatchOf(s)' = <<>>
        BY <3>1 DEF BatchOf
      <3>3. \A t \in Syncers : t # s => BatchOf(t)' = BatchOf(t)
        BY <3>1 DEF BatchOf, Named
      <3> QED BY <3>2, <3>3 DEF Batches
    <2> QED BY <1>1, <1>2, <2>2, <2>3, <2>4 DEF Queue!Store, Ring, Batches, BatchOf
  <1> QED BY <1>4, <1>5

LEMMA StepQueue ==
  ASSUME Inv, Inv', Scanned, [Next]_vars
  PROVE  [Queue!Next]_(Queue!vars)
  <1>1. CASE UNCHANGED vars
    <2>1. UNCHANGED <<Ring, Batches, added, stored>>
      BY <1>1 DEF vars, ring, scan, db, Ring, Batches, BatchOf, Named, Cached, Slot, Filled
    <2> QED BY <2>1, QueueVars
  <1>2. ASSUME NEW p \in Producers, Report(p) PROVE UNCHANGED Queue!vars
    BY <1>2, BeginQuiet, QuietStutters, QueueVars DEF Report, Procs
  <1>3. ASSUME NEW s \in Syncers, Syslog(s) PROVE UNCHANGED Queue!vars
    BY <1>3, BeginQuiet, QuietStutters, QueueVars DEF Syslog, Procs
  <1>4. ASSUME NEW p \in Procs, AddStep(p) PROVE [Queue!Next]_(Queue!vars)
    <2>1. CASE Fill(p)
      BY <2>1, FillAdds DEF Queue!Next
    <2>2. CASE AddLock(p) \/ DCget_history_ptr(p) \/ Wake(p)
      BY <2>2, AddLockQuiet, GetPtrQuiet, WakeQuiet, QuietStutters, QueueVars
    <2> QED BY <1>4, <2>1, <2>2 DEF AddStep
  <1>5. ASSUME NEW s \in Syncers, SyncStep(s) PROVE [Queue!Next]_(Queue!vars)
    <2>1. s \in Procs
      BY DEF Procs
    <2>2. CASE SyncStart(s) \/ ScanEnd(s)
      BY <2>2, SyncStartQuiet, ScanEndQuiet, QuietStutters, QueueVars
    <2>3. CASE SyncLock(s)
      BY <2>3, LockFacts, SameRingSameQueue, SameBatches, QueueVars
    <2>4. CASE Scan(s) /\ Take(s)
      BY <2>4, TakeTakes DEF Queue!Next
    <2>5. CASE Scan(s) /\ Skip(s)
      BY <2>5, SkipFacts, SameRingSameQueue, SameBatches, QueueVars
    <2>6. CASE Commit(s)
      BY <2>6, CommitStores, QueueVars DEF Queue!Next
    <2> QED BY <1>5, <2>2, <2>3, <2>4, <2>5, <2>6 DEF SyncStep, Scan
  <1> QED BY <1>1, <1>2, <1>3, <1>4, <1>5 DEF Next

(* The ring of dbcache.c, whose slots are shifted by every syncer that     *)
(* takes a value out of its middle, is the queue of HistoryQueue.          *)
THEOREM RingIsQueue == Spec => ImplementsQueue
  <1>1. Init => Scanned /\ Queue!Init
    BY InitScanned, InitQueue
  <1>2. Inv /\ Scanned /\ [Next]_vars => Scanned'
    BY StepScanned
  <1>3. Inv /\ Inv' /\ Scanned /\ [Next]_vars => [Queue!Next]_(Queue!vars)
    BY StepQueue
  <1> QED BY <1>1, <1>2, <1>3, Invariance, PTL DEF Spec, ImplementsQueue, Queue!Spec

-----------------------------------------------------------------------------
(* Each value is in one place.                                             *)

LEMMA SameRingIds ==
  ASSUME SameRing
  PROVE  /\ \A i \in 0 .. Filled - 1 : Cached(i)'.id = Cached(i).id
         /\ CachedIds' = CachedIds
  <1>1. ASSUME NEW i \in 0 .. Filled - 1 PROVE Cached(i)'.id = Cached(i).id
    BY DEF SameRing, Named
  <1>2. CachedIds' = {Cached(i)'.id : i \in 0 .. Filled - 1}
    BY DEF CachedIds, SameRing
  <1> QED BY <1>1, <1>2 DEF CachedIds

(* The parts of EachValueOnce.                                             *)
Batched == UNION {Ids(batch[s]) : s \in Syncers}
AllSomewhere == CachedIds \cup Batched \cup stored = 1 .. added
RingDiffers == \A i, j \in 0 .. Filled - 1 : i # j => Cached(i).id # Cached(j).id
BatchApart(s) ==
    /\ Ids(batch[s]) \cap (CachedIds \cup stored) = {}
    /\ \A t \in Syncers \ {s} : Ids(batch[s]) \cap Ids(batch[t]) = {}
    /\ \A j, k \in 1 .. Len(batch[s]) : j # k => batch[s][j].id # batch[s][k].id
Once ==
    /\ AllSomewhere
    /\ RingDiffers
    /\ CachedIds \cap stored = {}
    /\ \A s \in Syncers : BatchApart(s)

LEMMA OnceIs == Once <=> EachValueOnce
  BY DEF Once, AllSomewhere, RingDiffers, BatchApart, Batched, EachValueOnce

LEMMA InitOnce == Init => EachValueOnce
  <1> SUFFICES ASSUME Init PROVE EachValueOnce
    OBVIOUS
  <1>1. Filled = 0
    <2>1. \A p \in Procs : pc[p] # "fill"
      BY DEF Init
    <2>2. Filled = history_num - 0
      BY <2>1, Zenon DEF Filled
    <2> QED BY <2>2 DEF Init
  <1>2. CachedIds = {} /\ \A s \in Syncers : Ids(batch[s]) = {} /\ Len(batch[s]) = 0
    BY <1>1 DEF Init, CachedIds, Ids
  <1>3. Batched = {} /\ added = 0 /\ stored = {}
    BY <1>2 DEF Init, Batched
  <1>4. AllSomewhere /\ RingDiffers
    BY <1>1, <1>2, <1>3 DEF AllSomewhere, RingDiffers
  <1>5. \A s \in Syncers : BatchApart(s)
    BY <1>2 DEF BatchApart
  <1> QED BY <1>2, <1>4, <1>5, OnceIs DEF Once

LEMMA StutterOnce ==
  ASSUME EachValueOnce, SameRing, UNCHANGED <<batch, added, stored>>
  PROVE  EachValueOnce'
  <1>1. CachedIds' = CachedIds /\ Filled' = Filled
    BY SameRingIds DEF SameRing
  <1>2. \A i \in 0 .. Filled - 1 : Cached(i)'.id = Cached(i).id
    BY SameRingIds
  <1>3. Once
    BY OnceIs
  <1>4. AllSomewhere'
    BY <1>1, <1>3 DEF Once, AllSomewhere, Batched, Ids
  <1>5. RingDiffers'
    BY <1>1, <1>2, <1>3 DEF Once, RingDiffers
  <1>6. (CachedIds \cap stored = {})' /\ \A s \in Syncers : BatchApart(s)'
    <2>1. (CachedIds \cap stored = {})'
      BY <1>1, <1>3 DEF Once
    <2>2. ASSUME NEW s \in Syncers PROVE BatchApart(s)'
      <3>1. BatchApart(s)
        BY <1>3 DEF Once
      <3>2. \A t \in Syncers : Ids(batch[t])' = Ids(batch[t])
        BY DEF Ids
      <3>3. \A t \in Syncers : Ids(batch'[t]) = Ids(batch[t])
        OBVIOUS
      <3> QED BY <1>1, <3>1, <3>2, <3>3, ZenonT(30) DEF BatchApart
    <2> QED BY <2>1, <2>2
  <1>7. Once'
    BY <1>4, <1>5, <1>6 DEF Once
  <1> QED BY <1>7 DEF Once, AllSomewhere, RingDiffers, BatchApart, Batched, EachValueOnce

(* The value added has an id that no other has.                            *)
LEMMA FillOnce ==
  ASSUME Inv, EachValueOnce, NEW p \in Procs, Fill(p)
  PROVE  EachValueOnce'
  <1> DEFINE B == UNION {Ids(batch[s]) : s \in Syncers}
  <1>1. /\ Filled' = Filled + 1
        /\ \A i \in 0 .. Filled - 1 : Cached(i)' = Cached(i)
        /\ \A i : i = Filled => Cached(i)'.id = added + 1
    BY FillAppends
  <1>2. added' = added + 1 /\ UNCHANGED <<batch, stored>> /\ added \in Nat /\ Filled \in Nat
    BY RingType, SizeAssumption DEF Fill, scan, db, Inv, TypeOK, SizeAssumption
  <1>3. CachedIds \cup B \cup stored = 1 .. added
    BY DEF EachValueOnce
  <1>4. CachedIds' = CachedIds \cup {added + 1}
    <2>1. CachedIds' = {Cached(i)'.id : i \in 0 .. Filled}
      BY <1>1, <1>2 DEF CachedIds
    <2>2. 0 .. Filled = (0 .. Filled - 1) \cup {Filled}
      BY <1>2
    <2>3. CachedIds' = {Cached(i)'.id : i \in 0 .. Filled - 1} \cup {added + 1}
      BY <1>1, <2>1, <2>2
    <2> QED BY <1>1, <2>3 DEF CachedIds
  <1>5. \A s \in Syncers : Ids(batch[s])' = Ids(batch[s])
    BY <1>2 DEF Ids
  <1>6. B' = B
    BY <1>2 DEF Ids
  <1>7. added + 1 \notin CachedIds \cup B \cup stored /\ 1 .. added + 1 = (1 .. added) \cup {added + 1}
    BY <1>2, <1>3
  <1>8. CachedIds' \cup B' \cup stored' = 1 .. added'
    <2> HIDE DEF B
    <2> QED BY <1>2, <1>3, <1>4, <1>6, <1>7
  <1>9. \A s \in Syncers : Ids(batch[s]) \subseteq B
    OBVIOUS
  <1>10. ASSUME NEW i \in 0 .. Filled' - 1, NEW j \in 0 .. Filled' - 1, i # j
         PROVE  Cached(i)'.id # Cached(j)'.id
    <2>1. (i \in 0 .. Filled - 1 \/ i = Filled) /\ (j \in 0 .. Filled - 1 \/ j = Filled)
      BY <1>1, <1>2
    <2>2. \A k \in 0 .. Filled - 1 : Cached(k)'.id \in CachedIds
      BY <1>1 DEF CachedIds
    <2>3. CASE i \in 0 .. Filled - 1 /\ j \in 0 .. Filled - 1
      BY <1>1, <1>10, <2>3 DEF EachValueOnce
    <2>4. CASE i = Filled /\ j \in 0 .. Filled - 1
      BY <1>1, <1>7, <2>2, <2>4
    <2>5. CASE j = Filled /\ i \in 0 .. Filled - 1
      BY <1>1, <1>7, <2>2, <2>5
    <2> QED BY <1>10, <2>1, <2>3, <2>4, <2>5
  <1>11. CachedIds' \cap stored' = {}
    BY <1>2, <1>4, <1>7 DEF EachValueOnce
  <1>12. \A s \in Syncers : Ids(batch'[s]) \cap (CachedIds' \cup stored') = {}
    <2> HIDE DEF B
    <2> QED BY <1>2, <1>4, <1>7, <1>9 DEF EachValueOnce
  <1>13. \A s \in Syncers :
           /\ \A t \in Syncers \ {s} : Ids(batch'[s]) \cap Ids(batch'[t]) = {}
           /\ \A j, k \in 1 .. Len(batch'[s]) : j # k => batch'[s][j].id # batch'[s][k].id
    BY <1>2 DEF EachValueOnce
  <1> QED BY <1>8, <1>10, <1>11, <1>12, <1>13 DEF EachValueOnce, Ids

(* The value moves from the ring to the batch.                             *)
LEMMA TakeOnce ==
  ASSUME Inv, EachValueOnce, NEW s \in Syncers, Scan(s), Take(s)
  PROVE  EachValueOnce'
  <1> DEFINE k == Position(s)
             v == Cached(k).id
             c == Copied(Cached(k))
  <1>1. /\ Filled' = Filled - 1
        /\ \A i \in 0 .. Filled - 2 : Cached(i)' = IF i < k THEN Cached(i) ELSE Cached(i + 1)
        /\ batch' = [batch EXCEPT ![s] = Append(@, c)]
        /\ added' = added /\ stored' = stored
    BY TakeRemoves
  <1>2. k \in 0 .. Filled - 1 /\ Filled \in Nat
    BY PositionFacts, RingType, SizeAssumption DEF Scan, SizeAssumption
  <1>3. AllSomewhere /\ RingDiffers /\ CachedIds \cap stored = {} /\ \A t \in Syncers : BatchApart(t)
    BY OnceIs DEF Once
  <1>4. c.id = v
    BY DEF Copied
  <1>5. \A i \in 0 .. Filled - 1 : i # k => Cached(i).id # v
    BY <1>2, <1>3 DEF RingDiffers
  <1>6. v \in CachedIds
    BY <1>2 DEF CachedIds
  <1> HIDE DEF k, v, c
  (* Positions after the step are positions other than k before it.        *)
  <1>7. \A i \in 0 .. Filled - 2 :
           LET m == IF i < k THEN i ELSE i + 1
           IN  m \in 0 .. Filled - 1 /\ m # k /\ Cached(i)' = Cached(m)
    BY <1>1, <1>2
  <1>8. CachedIds' = {Cached(i)'.id : i \in 0 .. Filled - 2}
    <2>1. Filled' - 1 = Filled - 2
      BY <1>1, <1>2
    <2> QED BY <2>1 DEF CachedIds
  <1>9. CachedIds' = CachedIds \ {v}
    <2>1. ASSUME NEW x \in CachedIds' PROVE x \in CachedIds \ {v}
      <3>1. PICK i \in 0 .. Filled - 2 : x = Cached(i)'.id
        BY <1>8, <2>1
      <3>2. PICK m \in 0 .. Filled - 1 : m # k /\ Cached(i)' = Cached(m)
        BY <1>7
      <3> QED BY <1>5, <3>1, <3>2 DEF CachedIds
    <2>2. ASSUME NEW x \in CachedIds \ {v} PROVE x \in CachedIds'
      <3>1. PICK m \in 0 .. Filled - 1 : x = Cached(m).id
        BY <2>2 DEF CachedIds
      <3>2. m # k
        BY <2>2, <3>1 DEF v
      <3>3. CASE m < k
        <4>1. m \in 0 .. Filled - 2 /\ Cached(m)' = Cached(m)
          BY <1>1, <1>2, <3>3
        <4> QED BY <1>8, <3>1, <4>1
      <3>4. CASE k < m
        <4>1. m - 1 \in 0 .. Filled - 2 /\ ~(m - 1 < k) /\ (m - 1) + 1 = m
          BY <1>2, <3>4
        <4>2. Cached(m - 1)' = Cached(m)
          BY <1>1, <4>1
        <4> QED BY <1>8, <3>1, <4>1, <4>2
      <3> QED BY <1>2, <3>2, <3>3, <3>4
    <2> QED BY <2>1, <2>2
  <1>10. RingDiffers'
    <2> SUFFICES ASSUME NEW i \in 0 .. Filled' - 1, NEW j \in 0 .. Filled' - 1, i # j
                 PROVE  Cached(i)'.id # Cached(j)'.id
      BY DEF RingDiffers
    <2> DEFINE a == IF i < k THEN i ELSE i + 1
               b == IF j < k THEN j ELSE j + 1
    <2>1. i \in 0 .. Filled - 2 /\ j \in 0 .. Filled - 2
      BY <1>1, <1>2
    <2>2. /\ a \in 0 .. Filled - 1 /\ Cached(i)' = Cached(a)
          /\ b \in 0 .. Filled - 1 /\ Cached(j)' = Cached(b)
      BY <1>7, <2>1
    <2>3. a # b
      BY <1>2, <2>1
    <2> QED BY <1>3, <2>2, <2>3 DEF RingDiffers
  <1>11. /\ batch[s] \in Seq(Copy) /\ Len(batch[s]) \in Nat
         /\ batch'[s] = Append(batch[s], c)
         /\ \A t \in Syncers : t # s => batch'[t] = batch[t]
    BY <1>1 DEF Inv, TypeOK
  <1>12. /\ Len(batch'[s]) = Len(batch[s]) + 1 /\ batch'[s][Len(batch[s]) + 1] = c
         /\ \A m \in 1 .. Len(batch[s]) : batch'[s][m] = batch[s][m]
    BY <1>11
  <1>13. Ids(batch'[s]) = Ids(batch[s]) \cup {v} /\ \A t \in Syncers : t # s => Ids(batch'[t]) = Ids(batch[t])
    <2>1. 1 .. Len(batch'[s]) = (1 .. Len(batch[s])) \cup {Len(batch[s]) + 1}
      BY <1>11, <1>12
    <2> QED BY <1>4, <1>11, <1>12, <2>1 DEF Ids
  <1>14. Batched' = Batched \cup {v}
    <2>1. Batched' = UNION {Ids(batch'[t]) : t \in Syncers}
      BY DEF Batched, Ids
    <2> QED BY <1>13, <2>1 DEF Batched
  <1>15. AllSomewhere'
    BY <1>1, <1>3, <1>6, <1>9, <1>14 DEF AllSomewhere
  <1>16. ASSUME NEW t \in Syncers
         PROVE  /\ Ids(batch'[t]) \cap (CachedIds' \cup stored') = {}
                /\ \A u \in Syncers \ {t} : Ids(batch'[t]) \cap Ids(batch'[u]) = {}
    <2>1. v \notin stored /\ \A u \in Syncers : v \notin Ids(batch[u])
      BY <1>3, <1>6 DEF BatchApart
    <2>2. BatchApart(t)
      BY <1>3
    <2> QED BY <1>1, <1>9, <1>13, <2>1, <2>2 DEF BatchApart
  <1>17. ASSUME NEW t \in Syncers, NEW i \in 1 .. Len(batch'[t]), NEW j \in 1 .. Len(batch'[t]), i # j
         PROVE  batch'[t][i].id # batch'[t][j].id
    <2>1. CASE t # s
      BY <1>3, <1>11, <1>17, <2>1 DEF BatchApart
    <2>2. CASE t = s
      <3>1. \A m \in 1 .. Len(batch[s]) : batch'[s][m].id # v
        <4>1. v \notin Ids(batch[s])
          BY <1>3, <1>6 DEF BatchApart
        <4> QED BY <1>12, <4>1 DEF Ids
      <3>2. /\ i \in 1 .. Len(batch[s]) \/ i = Len(batch[s]) + 1
            /\ j \in 1 .. Len(batch[s]) \/ j = Len(batch[s]) + 1
        BY <1>11, <1>12, <2>2
      <3>3. CASE i \in 1 .. Len(batch[s]) /\ j \in 1 .. Len(batch[s])
        BY <1>3, <1>12, <1>17, <2>2, <3>3 DEF BatchApart
      <3>4. CASE i = Len(batch[s]) + 1 /\ j \in 1 .. Len(batch[s])
        BY <1>4, <1>12, <2>2, <3>1, <3>4
      <3>5. CASE j = Len(batch[s]) + 1 /\ i \in 1 .. Len(batch[s])
        BY <1>4, <1>12, <2>2, <3>1, <3>5
      <3> QED BY <1>17, <3>2, <3>3, <3>4, <3>5
    <2> QED BY <2>1, <2>2
  <1>18. \A t \in Syncers : BatchApart(t)'
    BY <1>16, <1>17 DEF BatchApart, Ids
  <1>19. Once'
    BY <1>1, <1>3, <1>9, <1>10, <1>15, <1>18 DEF Once
  <1> QED BY <1>19 DEF Once, AllSomewhere, RingDiffers, BatchApart, Batched, EachValueOnce

(* The values of the batch move to the database.                           *)
LEMMA CommitOnce ==
  ASSUME Inv, EachValueOnce, NEW s \in Syncers, Commit(s)
  PROVE  EachValueOnce'
  <1>1. /\ SameRing /\ batch' = [batch EXCEPT ![s] = <<>>]
        /\ stored' = stored \cup Ids(batch[s]) /\ added' = added
    BY CommitFacts
  <1>2. AllSomewhere /\ RingDiffers /\ CachedIds \cap stored = {} /\ \A t \in Syncers : BatchApart(t)
    BY OnceIs DEF Once
  <1>3. CachedIds' = CachedIds /\ Filled' = Filled /\ \A i \in 0 .. Filled - 1 : Cached(i)'.id = Cached(i).id
    BY <1>1, SameRingIds DEF SameRing
  <1>4. batch'[s] = <<>> /\ \A t \in Syncers : t # s => batch'[t] = batch[t]
    BY <1>1 DEF Inv, TypeOK
  <1>5. Ids(batch'[s]) = {} /\ \A t \in Syncers : t # s => Ids(batch'[t]) = Ids(batch[t])
    BY <1>4 DEF Ids
  <1>6. Batched = Batched' \cup Ids(batch[s])
    <2>1. Batched' = UNION {Ids(batch'[t]) : t \in Syncers}
      BY DEF Batched, Ids
    <2> QED BY <1>5, <2>1 DEF Batched
  <1>7. AllSomewhere'
    BY <1>1, <1>2, <1>3, <1>6 DEF AllSomewhere
  <1>8. RingDiffers'
    BY <1>2, <1>3 DEF RingDiffers
  <1>9. CachedIds' \cap stored' = {}
    BY <1>1, <1>2, <1>3 DEF BatchApart
  <1>10. ASSUME NEW t \in Syncers
         PROVE  /\ Ids(batch'[t]) \cap (CachedIds' \cup stored') = {}
                /\ \A u \in Syncers \ {t} : Ids(batch'[t]) \cap Ids(batch'[u]) = {}
                /\ \A i, j \in 1 .. Len(batch'[t]) : i # j => batch'[t][i].id # batch'[t][j].id
    <2>1. CASE t = s
      BY <1>4, <1>5, <2>1
    <2>2. CASE t # s
      <3>1. BatchApart(t)
        BY <1>2
      <3> QED BY <1>1, <1>3, <1>4, <1>5, <2>2, <3>1 DEF BatchApart
    <2> QED BY <2>1, <2>2
  <1>11. \A t \in Syncers : BatchApart(t)'
    BY <1>10 DEF BatchApart, Ids
  <1>12. Once'
    BY <1>7, <1>8, <1>9, <1>11 DEF Once
  <1> QED BY <1>12 DEF Once, AllSomewhere, RingDiffers, BatchApart, Batched, EachValueOnce

LEMMA StepOnce ==
  ASSUME Inv, Scanned, EachValueOnce, [Next]_vars
  PROVE  EachValueOnce'
  <1>1. CASE UNCHANGED vars
    <2>1. SameRing
      BY <1>1 DEF vars, ring, SameRing, Filled, Cached, Slot
    <2> QED BY <1>1, <2>1, StutterOnce DEF vars, scan, db
  <1>2. \A p \in Procs : \A x : Quiet(p, x) => EachValueOnce'
    BY StutterOnce DEF Quiet
  <1>3. ASSUME NEW p \in Producers, Report(p) PROVE EachValueOnce'
    BY <1>2, <1>3, BeginQuiet DEF Report, Procs
  <1>4. ASSUME NEW s \in Syncers, Syslog(s) PROVE EachValueOnce'
    BY <1>2, <1>4, BeginQuiet DEF Syslog, Procs
  <1>5. ASSUME NEW p \in Procs, AddStep(p) PROVE EachValueOnce'
    BY <1>2, <1>5, AddLockQuiet, GetPtrQuiet, WakeQuiet, FillOnce DEF AddStep
  <1>6. ASSUME NEW s \in Syncers, SyncStep(s) PROVE EachValueOnce'
    <2>1. s \in Procs
      BY DEF Procs
    <2>2. CASE SyncStart(s) \/ ScanEnd(s)
      BY <1>2, <2>1, <2>2, SyncStartQuiet, ScanEndQuiet
    <2>3. CASE SyncLock(s)
      BY <2>3, LockFacts, StutterOnce
    <2>4. CASE Scan(s)
      <3>1. Take(s) \/ Skip(s)
        BY <2>4 DEF Scan
      <3> QED BY <2>4, <3>1, TakeOnce, SkipFacts, StutterOnce
    <2> QED BY <1>6, <2>2, <2>3, <2>4, CommitOnce DEF SyncStep
  <1> QED BY <1>1, <1>3, <1>4, <1>5, <1>6 DEF Next

(* No value that entered the cache is lost, duplicated or stored twice,    *)
(* whatever DCsync_history takes out of the middle of the ring.            *)
THEOREM NothingLost == Spec => []EachValueOnce
  <1>1. Init => Scanned /\ EachValueOnce
    BY InitScanned, InitOnce
  <1>2. Inv /\ Scanned /\ [Next]_vars => Scanned'
    BY StepScanned
  <1>3. Inv /\ Scanned /\ EachValueOnce /\ [Next]_vars => EachValueOnce'
    BY StepOnce
  <1> QED BY <1>1, <1>2, <1>3, Invariance, PTL DEF Spec
-----------------------------------------------------------------------------
(* The stop of the server, wherever its children are when they are stopped. *)

(* What a child leaves behind is as it was: the invariants of the cache    *)
(* still hold of it.                                                       *)
CacheInv == Inv /\ Scanned /\ EachValueOnce

(* The main process uses the cache alone, and not before the children are  *)
(* gone.                                                                   *)
ParentAlone ==
    IF pc[Parent] = "off" THEN batch[Parent] = <<>>
    ELSE Children \subseteq dead /\ server # "up"

(* Its scan has taken the first value that it came to, so a scan that ends *)
(* with an empty batch has found an empty ring.                            *)
ScansAll == pc[Parent] = "scan" /\ batch[Parent] = <<>> => n[Parent] = history_num

RingEmptied == pc[Parent] = "done" => history_num = 0 /\ batch[Parent] = <<>>

StoppedLast == server = "stopped" => pc[Parent] = "done"

StopInv == CacheInv /\ ParentAlone /\ ScansAll /\ RingEmptied /\ StoppedLast /\ dead \subseteq Children

LEMMA ParentFacts ==
  /\ Parent \in FullSyncers /\ Parent \in Syncers /\ Parent \in Procs
  /\ Parent \notin Producers /\ Procs = Children \cup {Parent} /\ Parent \notin Children
  BY ShutdownAssumption, ProcessAssumption
     DEF ShutdownAssumption, ProcessAssumption, Procs, Children

LEMMA InitStop == ShutdownInit => StopInv
  <1> SUFFICES ASSUME ShutdownInit PROVE StopInv
    OBVIOUS
  <1>1. CacheInv
    BY InitInv, InitScanned, InitOnce DEF ShutdownInit, CacheInv
  <1>2. pc[Parent] = "off" /\ batch[Parent] = <<>>
    BY ParentFacts DEF ShutdownInit, Init
  <1>3. server = "up" /\ dead = {}
    BY DEF ShutdownInit
  <1> QED BY <1>1, <1>2, <1>3 DEF StopInv, ParentAlone, ScansAll, RingEmptied, StoppedLast

(* A step of a process is one of HistoryCache.                             *)
LEMMA StepIsNext ==
  ASSUME NEW p \in Procs, ProcessStep(p)
  PROVE  [Next]_vars
  BY DEF ProcessStep, Next

LEMMA NextCache ==
  ASSUME CacheInv, [Next]_vars
  PROVE  CacheInv'
  <1>1. Inv' /\ Scanned'
    BY StepInv, StepScanned DEF CacheInv
  <1>2. EachValueOnce'
    BY StepOnce DEF CacheInv
  <1> QED BY <1>1, <1>2 DEF CacheInv

(* A step of a child leaves the main process as it is.                     *)
LEMMA ChildStep ==
  ASSUME StopInv, NEW p \in Children, ProcessStep(p)
  PROVE  pc[Parent] = "off" /\ pc'[Parent] = "off" /\ batch'[Parent] = <<>>
  <1>1. p # Parent /\ p \in Procs /\ Parent \in Procs
    BY ParentFacts DEF Children
  <1>2. pc[Parent] = "off"
    BY DEF StopInv, ParentAlone, ProcessStep
  <1>3. \/ \E x : pc' = [pc EXCEPT ![p] = x]
        \/ pc' = pc
    <2>1. CASE Report(p) \/ Syslog(p)
      BY <2>1 DEF Report, Syslog, Begin
    <2>2. CASE AddStep(p)
      BY <2>2 DEF AddStep, AddLock, DCget_history_ptr, Wake, Fill, Reserve, SleepUnlocked
    <2>3. CASE SyncStep(p)
      BY <2>3 DEF SyncStep, SyncStart, SyncLock, Scan, ScanEnd, Commit
    <2> QED BY <2>1, <2>2, <2>3 DEF ProcessStep
  <1>4. pc'[Parent] = pc[Parent]
    BY <1>1, <1>3 DEF StopInv, CacheInv, Inv, TypeOK
  <1>5. batch'[Parent] = batch[Parent]
    <2>1. CASE Report(p) \/ Syslog(p)
      BY <2>1 DEF Report, Syslog, Begin, scan
    <2>2. CASE AddStep(p)
      BY <2>2 DEF AddStep, AddLock, DCget_history_ptr, Wake, Fill, scan
    <2>3. CASE SyncStep(p)
      <3>1. batch' = batch \/ \E q : batch' = [batch EXCEPT ![p] = q]
        BY <2>3, Zenon DEF SyncStep, SyncStart, SyncLock, Scan, Take, Skip, ScanEnd, Commit, scan
      <3>2. batch \in [Syncers -> Seq(Copy)]
        BY DEF StopInv, CacheInv, Inv, TypeOK
      <3> QED BY <1>1, <3>1, <3>2, ParentFacts
    <2> QED BY <2>1, <2>2, <2>3 DEF ProcessStep
  <1> QED BY <1>2, <1>4, <1>5 DEF StopInv, ParentAlone

(* The main process steps alone, and no more when its sync is done.        *)
LEMMA ParentStep ==
  ASSUME StopInv, ProcessStep(Parent)
  PROVE  /\ Children \subseteq dead /\ server \notin {"up", "stopped"}
         /\ pc'[Parent] # "off" /\ ScansAll' /\ RingEmptied'
  <1> USE ParentFacts
  <1>1. TypeOK /\ Scanned /\ ParentAlone /\ ScansAll /\ StoppedLast
    BY DEF StopInv, CacheInv, Inv
  <1>2. pc[Parent] \notin {"off", "done"}
    BY ZenonT(30) DEF ProcessStep, Syslog, AddStep, AddLock, DCget_history_ptr, Wake, Fill,
       SyncStep, SyncStart, SyncLock, Scan, ScanEnd, Commit
  <1>3. Children \subseteq dead /\ server \notin {"up", "stopped"}
    BY <1>1, <1>2 DEF ParentAlone, StoppedLast
  <1>4. CASE Syslog(Parent) \/ AddStep(Parent)
    <2>1. PICK x \in {"add_lock", "get_ptr", "sleep", "fill", "txn"} : pc' = [pc EXCEPT ![Parent] = x]
      BY <1>4 DEF Syslog, Begin, AddStep, AddLock, DCget_history_ptr, Wake, Fill, Reserve,
         SleepUnlocked
    <2>2. pc'[Parent] \notin {"off", "scan", "done"}
      BY <1>1, <2>1 DEF TypeOK
    <2> QED BY <1>3, <2>2 DEF ScansAll, RingEmptied
  <1>5. CASE SyncStart(Parent)
    <2>1. pc'[Parent] = IF history_num = 0 THEN "done" ELSE "sync_lock"
      BY <1>1, <1>5 DEF SyncStart, SyncReturn, TypeOK
    <2>2. batch'[Parent] = <<>> /\ history_num' = history_num
      BY <1>1, <1>5 DEF SyncStart, Scanned, ring
    <2> QED BY <1>3, <2>1, <2>2 DEF ScansAll, RingEmptied
  <1>6. CASE SyncLock(Parent)
    <2>1. pc'[Parent] = "scan" /\ n'[Parent] = history_num /\ history_num' = history_num
      BY <1>1, <1>6 DEF SyncLock, TypeOK, ring
    <2> QED BY <1>3, <2>1 DEF ScansAll, RingEmptied
  <1>7. CASE Scan(Parent)
    <2>1. pc'[Parent] = "scan" /\ batch[Parent] \in Seq(Copy)
      BY <1>1, <1>7 DEF Scan, TypeOK
    <2>2. batch'[Parent] # <<>>
      <3>1. CASE Take(Parent)
        <4>1. batch'[Parent] = Append(batch[Parent], Copied(history[f[Parent]]))
          BY <1>1, <3>1 DEF Take, TypeOK
        <4>2. Len(batch'[Parent]) = Len(batch[Parent]) + 1 /\ Len(batch[Parent]) \in Nat
          BY <2>1, <4>1
        <4> QED BY <4>2
      <3>2. CASE Skip(Parent)
        <4>1. batch'[Parent] = batch[Parent] /\ Len(batch[Parent]) # 0
          BY <3>2, <2>1 DEF Skip, DCitem_already_exists
        <4> QED BY <4>1
      <3> QED BY <1>7, <3>1, <3>2 DEF Scan
    <2> QED BY <1>3, <2>1, <2>2 DEF ScansAll, RingEmptied
  <1>8. CASE ScanEnd(Parent)
    <2>1. pc'[Parent] = IF batch[Parent] = <<>> THEN "done" ELSE "txn"
      BY <1>1, <1>8 DEF ScanEnd, SyncReturn, TypeOK
    <2>2. batch' = batch /\ history_num' = history_num
      BY <1>8 DEF ScanEnd, ring, scan
    <2>3. batch[Parent] = <<>> => history_num = 0
      <3>1. Len(batch[Parent]) >= SYNC_MAX => batch[Parent] # <<>>
        BY SizeAssumption DEF SizeAssumption
      <3> QED BY <1>1, <1>8, <3>1 DEF ScanEnd, ScansAll
    <2> QED BY <1>3, <2>1, <2>2, <2>3 DEF ScansAll, RingEmptied
  <1>9. CASE Commit(Parent)
    <2>1. pc'[Parent] = "sync_lock"
      BY <1>1, <1>9 DEF Commit, MoreToSync, TypeOK
    <2> QED BY <1>3, <2>1 DEF ScansAll, RingEmptied
  <1> QED BY <1>4, <1>5, <1>6, <1>7, <1>8, <1>9 DEF ProcessStep, SyncStep

LEMMA ProcessKeeps ==
  ASSUME StopInv, NEW p \in Procs, ProcessStep(p)
  PROVE  StopInv'
  <1>1. CacheInv'
    BY StepIsNext, NextCache DEF StopInv
  <1>2. server' = server /\ dead' = dead
    BY DEF ProcessStep
  <1>3. CASE p = Parent
    BY <1>1, <1>2, <1>3, ParentStep DEF StopInv, ParentAlone, StoppedLast, Children, Procs
  <1>4. CASE p # Parent
    <2>1. pc[Parent] = "off" /\ pc'[Parent] = "off" /\ batch'[Parent] = <<>>
      BY <1>4, ChildStep, ParentFacts
    <2>2. server # "stopped"
      BY <2>1 DEF StopInv, StoppedLast
    <2> QED BY <1>1, <1>2, <2>1, <2>2
            DEF StopInv, ParentAlone, ScansAll, RingEmptied, StoppedLast, Children, Procs
  <1> QED BY <1>3, <1>4

(* The parent begins its sync: the cache is as it was.                     *)
LEMMA SyncAllKeeps ==
  ASSUME StopInv, DCsync_all
  PROVE  StopInv'
  <1> USE ParentFacts
  <1>1. Inv /\ Scanned /\ EachValueOnce /\ TypeOK /\ pc[Parent] = "off" /\ batch[Parent] = <<>>
    BY DEF StopInv, CacheInv, Inv, ParentAlone, DCsync_all
  <1>2. /\ pc' = [pc EXCEPT ![Parent] = "sync_start"]
        /\ UNCHANGED <<ring, arena, cache_lock, pend, scan, added, db>>
    BY DEF DCsync_all
  <1>3. pc'[Parent] = "sync_start" /\ \A p \in Procs : p # Parent => pc'[p] = pc[p]
    BY <1>1, <1>2 DEF TypeOK
  <1>4. Inv'
    <2> USE <1>1, <1>2
    <2>1. TypeOK'
      BY DEF TypeOK, ring, arena, scan, db
    <2>2. LockHeld'
      BY DEF Inv, LockHeld, TypeOK, InSection
    <2>3. PendOK' /\ FillOK' /\ ScanOK'
      BY DEF Inv, PendOK, FillOK, ScanOK, TypeOK, TextLen, Slot, ring, arena, scan, Procs
    <2>4. TextsOK' /\ TextsOrdered'
      BY TextsSame DEF Inv
    <2>5. BatchesOwn' /\ OneValuePerItem'
      BY ZenonT(60) DEF Inv, BatchesOwn, OneValuePerItem, OwnText, scan
    <2> QED BY <2>1, <2>2, <2>3, <2>4, <2>5 DEF Inv
  <1>5. Quiet(Parent, "sync_start")
    <2>1. SameRing
      BY <1>1, <1>2, RingUnchanged
    <2> QED BY <1>1, <1>2, <2>1 DEF Quiet, ring, scan, db
  <1>6. Scanned' /\ EachValueOnce'
    BY <1>1, <1>5, QuietScanned, StutterOnce DEF Quiet
  <1> QED BY <1>3, <1>4, <1>6
          DEF CacheInv, StopInv, ParentAlone, ScansAll, RingEmptied, StoppedLast, Children, Procs, DCsync_all

LEMMA NextStop == StopInv /\ [ShutdownNext]_allVars => StopInv'
  <1> SUFFICES ASSUME StopInv, [ShutdownNext]_allVars PROVE StopInv'
    OBVIOUS
  <1>1. UNCHANGED vars => CacheInv' /\ pc' = pc /\ batch' = batch /\ n' = n /\ history_num' = history_num
    BY NextCache DEF StopInv, vars, scan, ring
  <1>2. CASE UNCHANGED allVars
    BY <1>1, <1>2 DEF allVars, StopInv, ParentAlone, ScansAll, RingEmptied, StoppedLast, Children, Procs
  <1>3. ASSUME NEW p \in Procs, ProcessStep(p) PROVE StopInv'
    BY <1>3, ProcessKeeps
  <1>4. CASE Stop
    BY <1>1, <1>4 DEF Stop, StopInv, ParentAlone, ScansAll, RingEmptied, StoppedLast, Children, Procs
  <1>5. ASSUME NEW p \in Children, Terminate(p) PROVE StopInv'
    BY <1>1, <1>5 DEF Terminate, StopInv, ParentAlone, ScansAll, RingEmptied, StoppedLast, Children, Procs
  <1>6. CASE DCsync_all
    BY <1>6, SyncAllKeeps
  <1>7. CASE free_database_cache
    BY <1>1, <1>7 DEF free_database_cache, StopInv, ParentAlone, ScansAll, RingEmptied, StoppedLast,
       Children, Procs
  <1> QED BY <1>2, <1>3, <1>4, <1>5, <1>6, <1>7 DEF ShutdownNext

(* With an empty ring, and no batch but those of syncers that have exited, *)
(* every value is stored or lost with its syncer.                          *)
LEMMA EmptyIsDrained == StopInv => DrainedWhenStopped
  <1> SUFFICES ASSUME StopInv, server = "stopped"
               PROVE  stored \cup Lost = 1 .. added /\ stored \cap Lost = {}
    BY DEF DrainedWhenStopped
  <1>1. Inv /\ EachValueOnce /\ history_num = 0 /\ batch[Parent] = <<>> /\ Children \subseteq dead
    BY DEF StopInv, CacheInv, StoppedLast, RingEmptied, ParentAlone
  <1>2. CachedIds = {}
    <2>1. \A p \in Procs : pc[p] # "fill"
      BY <1>1 DEF Inv, FillOK
    <2>2. Filled = 0
      <3>1. Filled = history_num - 0
        BY <2>1, Zenon DEF Filled
      <3> QED BY <1>1, <3>1
    <2> QED BY <2>2 DEF CachedIds
  <1>3. UNION {Ids(batch[s]) : s \in Syncers} = Lost
    <2>1. Ids(batch[Parent]) = {}
      BY <1>1 DEF Ids
    <2>2. \A s \in Syncers : s = Parent \/ s \in dead
      BY <1>1 DEF Children, Procs
    <2> QED BY <2>1, <2>2 DEF Lost
  <1>4. stored \cap Lost = {}
    BY <1>1 DEF EachValueOnce, Lost
  <1> QED BY <1>1, <1>2, <1>3, <1>4 DEF EachValueOnce

(* DCsync_all writes all that the children have left in the cache, in the  *)
(* middle of whatever they were stopped: when the server has stopped, each *)
(* value is in the database, or was in the transaction of a db syncer that *)
(* was rolled back when it exited.                                         *)
THEOREM DrainedAtEnd == ShutdownSpec => []DrainedWhenStopped
  BY InitStop, NextStop, EmptyIsDrained, PTL DEF ShutdownSpec
=============================================================================
