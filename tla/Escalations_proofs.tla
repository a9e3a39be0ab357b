------------------------- MODULE Escalations_proofs -------------------------
(***************************************************************************)
(* Proofs about Escalations and the TriggerEvents it extends, for any      *)
(* triggers, actions, operations, users and media and any number of events *)
(* and restarts.                                                           *)
(***************************************************************************)
EXTENDS Escalations, SequenceTheorems, FiniteSetTheorems, TLAPS

(* The actions have the condition "Trigger value = PROBLEM".               *)
ProblemActions == \A a \in Actions : Conditions[a] \subseteq {TRUEVALUE}

Event == [objectid: Triggers, value: Values]

Update == [triggerid: Triggers, old: Values, new: Values, last: Values \cup {None}]

EscalationRow ==
    [actionid: Actions, triggerid: Triggers, eventid: Nat, r_eventid: Nat, esc_step: Nat,
     status: {"active", "recovery", "sleep"}, due: BOOLEAN]

AllMedia == UNION {Media[u] : u \in Users}

MsgRow == [userid: Users, msg: Msgs \cup {None}]

AlertRow ==
    [actionid: Actions, eventid: Nat, userid: Users, msg: Msgs \cup {None},
     mediatypeid: AllMedia \cup {None},
     esc_step: Nat, retries: Nat, status: {"not_sent", "sent", "failed"}]

EventTypes ==
    /\ value \in [Triggers -> Values]
    /\ events \in Seq(Event)
    /\ DOMAIN upd = Updaters
    /\ \A u \in Updaters : upd[u] # None => upd[u] \in Update

AlertTypes ==
    /\ escalations \in SUBSET EscalationRow
    /\ todo \in SUBSET EscalationRow
    /\ alerts \in Seq(AlertRow)
    /\ outbox \in SUBSET [alertid: Nat, retries: Nat]
    /\ tried \in [alertid: Nat, retries: Nat, sent: BOOLEAN] \cup {None}

(* The last event that an updater has read is the last one, unless it was  *)
(* overtaken.                                                              *)
ReadsCurrent ==
    \A u \in Updaters \ overtaken :
        upd[u] # None /\ upd[u].last # None => upd[u].last = last_status(upd[u].triggerid)

EventInv == EventTypes /\ ReadsCurrent /\ TriggerMatchesEvents

(* An escalation is started by a problem and recovers with a later event   *)
(* of the trigger.                                                         *)
OfItsEvents(e) ==
    /\ e.eventid \in 1 .. Len(events)
    /\ events[e.eventid].objectid = e.triggerid
    /\ events[e.eventid].value = TRUEVALUE
    /\ TRUEVALUE \in Conditions[e.actionid]
    /\ e.status = "recovery" =>
          /\ e.r_eventid \in 1 .. Len(events)
          /\ events[e.r_eventid].objectid = e.triggerid
          /\ events[e.r_eventid].value # TRUEVALUE

SameKey(x, y) == x.actionid = y.actionid /\ x.eventid = y.eventid

OneRow(S) == \A x, y \in S : SameKey(x, y) => x = y

AlertsOfEvents == \A k \in 1 .. Len(alerts) : alerts[k].eventid \in 1 .. Len(events)

(* No alert of an escalation is ahead of its row.                          *)
NotAhead(a, x) ==
    SameKey(a, x) => IF x.actionid \in EscPeriod THEN a.esc_step <= x.esc_step ELSE x.status # "active"

StepsBehind == \A x \in escalations \cup todo : \A k \in 1 .. Len(alerts) : NotAhead(alerts[k], x)

Differ(a, b) ==
    \/ a.actionid # b.actionid \/ a.eventid # b.eventid \/ a.esc_step # b.esc_step
    \/ a.userid # b.userid \/ a.mediatypeid # b.mediatypeid \/ a.msg # b.msg

(* The escalator writes the message of a step once.                        *)
RowsOnce ==
    \A i, k \in 1 .. Len(alerts) : i < k /\ Problem(alerts[i]) => Differ(alerts[i], alerts[k])

EscalationInv ==
    /\ EventTypes /\ AlertTypes
    /\ \A e \in escalations \cup todo : OfItsEvents(e)
    /\ OneRow(escalations) /\ OneRow(todo)
    /\ AlertsOfEvents
    /\ StepsBehind
    /\ RowsOnce
    /\ RecoveryToTheTold

Delivery == [alertid: Nat, start: Nat]

SentNow(id) == \E i \in 1 .. Len(delivered) : delivered[i].alertid = id /\ delivered[i].start = restarts

(* What went out since the last start is stored as sent, or about to be,   *)
(* and is not in the alerter's list.                                       *)
AlerterInv ==
    /\ delivered \in Seq(Delivery)
    /\ restarts \in Nat
    /\ \A i \in 1 .. Len(delivered) :
          delivered[i].alertid \in 1 .. Len(alerts) /\ delivered[i].start <= restarts
    /\ \A i, k \in 1 .. Len(delivered) :
          i < k /\ delivered[i].alertid = delivered[k].alertid => delivered[i].start # delivered[k].start
    /\ \A k \in 1 .. Len(alerts) : SentNow(k) =>
          alerts[k].status = "sent" \/ (tried # None /\ tried.alertid = k /\ tried.sent)
    /\ \A a \in outbox : a.alertid \in 1 .. Len(alerts) /\ ~SentNow(a.alertid)
    /\ \A a, b \in outbox : a.alertid = b.alertid => a = b
    /\ tried # None =>
          /\ \A a \in outbox : a.alertid # tried.alertid
          /\ tried.alertid \in 1 .. Len(alerts)
          /\ ~tried.sent => ~SentNow(tried.alertid)

SendInv == EscalationInv /\ AlerterInv

-----------------------------------------------------------------------------
(* Lemmas about the events.                                                *)

LEMMA EventsOfFinite ==
  ASSUME EventTypes, NEW t, NEW k
  PROVE  IsFiniteSet({m \in EventsOf(t) : m > k})
  <1>1. Len(events) \in Nat
    BY DEF EventTypes
  <1>2. IsFiniteSet(1 .. Len(events))
    BY <1>1, FS_Interval
  <1>3. {m \in EventsOf(t) : m > k} \subseteq 1 .. Len(events)
    BY DEF EventsOf
  <1> QED BY <1>2, <1>3, FS_Subset

LEMMA LastStatusUnchanged ==
  ASSUME NEW x, EventsOf(x)' = EventsOf(x), \A k \in EventsOf(x) : events'[k] = events[k]
  PROVE  last_status(x)' = last_status(x)
  <1> DEFINE K == {i \in EventsOf(x) : Cardinality({m \in EventsOf(x) : m > i}) = 0}
             c == CHOOSE i \in K : TRUE
  <1>1. last_status(x) = IF K = {} THEN UNKNOWN ELSE events[c].value
    BY DEF last_status, Latest
  <1>2. last_status(x)' = IF K = {} THEN UNKNOWN ELSE events'[c].value
    BY DEF last_status, Latest
  <1>3. K # {} => c \in EventsOf(x)
    OBVIOUS
  <1> HIDE DEF K, c
  <1>4. CASE K = {}
    BY <1>1, <1>2, <1>4, Zenon
  <1>5. CASE K # {}
    BY <1>1, <1>2, <1>3, <1>5, Zenon
  <1> QED BY <1>4, <1>5

LEMMA NoEvents ==
  ASSUME NEW t, EventsOf(t) = {}
  PROVE  last_status(t) = UNKNOWN
  BY DEF last_status, Latest

LEMMA LastStatusType ==
  ASSUME EventTypes, NEW t \in Triggers
  PROVE  last_status(t) \in Values
  <1> DEFINE K == {i \in EventsOf(t) : Cardinality({m \in EventsOf(t) : m > i}) = 0}
  <1>1. last_status(t) = IF K = {} THEN UNKNOWN ELSE events[CHOOSE i \in K : TRUE].value
    BY DEF last_status, Latest
  <1>2. ASSUME NEW k \in K PROVE events[k].value \in Values
    <2>1. k \in 1 .. Len(events)
      BY DEF EventsOf
    <2>2. events[k] \in Event
      BY <2>1 DEF EventTypes
    <2> QED BY <2>2 DEF Event
  <1>3. K # {} => (CHOOSE i \in K : TRUE) \in K
    OBVIOUS
  <1>4. UNKNOWN \in Values
    BY DEF Values
  <1> QED BY <1>1, <1>2, <1>3, <1>4

(* A new event is the last one of its trigger and leaves the others alone. *)
LEMMA EventAppended ==
  ASSUME EventTypes, NEW t \in Triggers, NEW v \in Values,
         events' = Append(events, [objectid |-> t, value |-> v])
  PROVE  /\ events' \in Seq(Event)
         /\ Len(events') = Len(events) + 1
         /\ \A k \in 1 .. Len(events) : events'[k] = events[k]
         /\ events'[Len(events) + 1] = [objectid |-> t, value |-> v]
         /\ EventsOf(t)' = EventsOf(t) \cup {Len(events) + 1}
         /\ \A x : x # t => EventsOf(x)' = EventsOf(x)
  <1> DEFINE e == [objectid |-> t, value |-> v]
  <1>1. e \in Event
    BY DEF Event
  <1>2. events \in Seq(Event) /\ Len(events) \in Nat
    BY DEF EventTypes
  <1>3. /\ events' \in Seq(Event)
        /\ Len(events') = Len(events) + 1
        /\ \A k \in 1 .. Len(events) : events'[k] = events[k]
        /\ events'[Len(events) + 1] = e
    BY <1>1, <1>2, AppendProperties
  <1>4. 1 .. Len(events') = 1 .. Len(events) \cup {Len(events) + 1}
    BY <1>2, <1>3
  <1>5. e.objectid = t
    OBVIOUS
  <1> HIDE DEF e
  <1>6. ASSUME NEW x PROVE EventsOf(x)' = {k \in 1 .. Len(events') : events'[k].objectid = x}
    BY DEF EventsOf
  <1>7. ASSUME NEW x PROVE EventsOf(x) = {k \in 1 .. Len(events) : events[k].objectid = x}
    BY DEF EventsOf
  <1>8. Len(events) + 1 \notin 1 .. Len(events)
    BY <1>2
  <1>9. EventsOf(t)' = EventsOf(t) \cup {Len(events) + 1}
    BY <1>3, <1>4, <1>5, <1>6, <1>7, Zenon
  <1>10. ASSUME NEW x, x # t PROVE EventsOf(x)' = EventsOf(x)
    BY <1>3, <1>4, <1>5, <1>6, <1>7, <1>10, Zenon
  <1> QED BY <1>3, <1>9, <1>10 DEF e

LEMMA LastStatusAppended ==
  ASSUME EventTypes, NEW t \in Triggers, NEW v \in Values,
         events' = Append(events, [objectid |-> t, value |-> v])
  PROVE  /\ last_status(t)' = v
         /\ \A x : x # t => last_status(x)' = last_status(x)
  <1>1. Len(events) \in Nat
    BY DEF EventTypes
  <1>2. ASSUME NEW x, x # t PROVE last_status(x)' = last_status(x)
    <2>1. EventsOf(x)' = EventsOf(x)
      BY <1>2, EventAppended
    <2>2. \A k \in EventsOf(x) : events'[k] = events[k]
      BY EventAppended DEF EventsOf
    <2> QED BY <2>1, <2>2, LastStatusUnchanged
  <1>3. last_status(t)' = v
    <2> DEFINE n == Len(events) + 1
               E == EventsOf(t)'
               K == {i \in E : Cardinality({m \in E : m > i}) = 0}
    <2>1. E = EventsOf(t) \cup {n}
      BY EventAppended
    <2>2. E \subseteq 1 .. n
      BY <1>1, <2>1 DEF EventsOf
    <2>3. ASSUME NEW i \in E PROVE IsFiniteSet({m \in E : m > i})
      <3>1. IsFiniteSet(1 .. n)
        BY <1>1, FS_Interval
      <3> HIDE DEF E, n
      <3> QED BY <3>1, <2>2, FS_Subset
    <2>4. ASSUME NEW i \in E PROVE i \in K <=> {m \in E : m > i} = {}
      <3> HIDE DEF E
      <3> QED BY <2>3, <2>4, FS_EmptySet
    <2>5. n \in E
      BY <2>1
    <2>6. {m \in E : m > n} = {}
      <3>1. n \in Nat
        BY <1>1
      <3> HIDE DEF E, n
      <3>2. \A m \in 1 .. n : ~(m > n)
        BY <3>1
      <3> QED BY <3>2, <2>2, Zenon
    <2>7. n \in K
      BY <2>4, <2>5, <2>6
    <2>8. ASSUME NEW i \in K PROVE i = n
      <3> HIDE DEF E
      <3>1. i \in E /\ {m \in E : m > i} = {}
        BY <2>4
      <3>2. ~(n > i)
        BY <2>5, <3>1
      <3> QED BY <1>1, <2>2, <3>1, <3>2
    <2>9. K = {n}
      <3> HIDE DEF K
      <3> QED BY <2>7, <2>8
    <2>10. (CHOOSE i \in K : TRUE) = n
      BY <2>9
    <2>11. last_status(t)' = IF K = {} THEN UNKNOWN ELSE events'[CHOOSE i \in K : TRUE].value
      BY DEF last_status, Latest
    <2>12. events'[n].value = v
      BY EventAppended
    <2> HIDE DEF K, n
    <2> QED BY <2>9, <2>10, <2>11, <2>12
  <1> QED BY <1>2, <1>3

-----------------------------------------------------------------------------
(* The steps of the updaters.                                              *)

LEMMA EvaluateTypes ==
  ASSUME EventTypes, NEW u \in Updaters, Evaluate(u)
  PROVE  EventTypes'
  <1> USE DEF Evaluate, EventTypes
  <1>1. PICK t \in Triggers, v \in Values :
           upd' = [upd EXCEPT ![u] = [triggerid |-> t, old |-> value[t], new |-> v, last |-> None]]
    OBVIOUS
  <1>2. [triggerid |-> t, old |-> value[t], new |-> v, last |-> None] \in Update
    BY DEF Update
  <1>3. DOMAIN upd' = Updaters /\ \A w \in Updaters : upd'[w] # None => upd'[w] \in Update
    BY <1>1, <1>2
  <1> QED BY <1>3

LEMMA CheckTriggerTypes ==
  ASSUME EventTypes, NEW u \in Updaters, CheckTrigger(u)
  PROVE  /\ EventTypes'
         /\ upd'[u] = None \/ /\ upd'[u].triggerid = upd[u].triggerid
                              /\ upd'[u].last = last_status(upd[u].triggerid)
         /\ \A w \in Updaters : w # u => upd'[w] = upd[w]
  <1> DEFINE t == upd[u].triggerid
             r == [upd[u] EXCEPT !.last = last_status(t)]
  <1>1. upd[u] \in Update
    BY DEF CheckTrigger, EventTypes
  <1>2. t \in Triggers
    BY <1>1 DEF Update
  <1>3. last_status(t) \in Values
    BY <1>2, LastStatusType
  <1>4. r \in Update /\ r.triggerid = t /\ r.last = last_status(t)
    BY <1>1, <1>3 DEF Update
  <1>5. /\ UNCHANGED <<value, events>>
        /\ DOMAIN upd' = Updaters
        /\ upd'[u] = None \/ upd'[u] = r
        /\ \A w \in Updaters : w # u => upd'[w] = upd[w]
    BY DEF CheckTrigger, EventTypes
  <1> HIDE DEF r, t
  <1>6. EventTypes'
    BY <1>4, <1>5 DEF EventTypes
  <1> QED BY <1>4, <1>5, <1>6 DEF t

LEMMA UpdateTypes ==
  ASSUME EventTypes, NEW u \in Updaters, DBupdate_trigger_value(u)
  PROVE  /\ EventTypes'
         /\ upd[u] \in Update
         /\ value' = [value EXCEPT ![upd[u].triggerid] = upd[u].new]
         /\ \A w \in Updaters : upd'[w] # None => w # u /\ upd'[w] = upd[w]
         /\ UNCHANGED <<events, escalations>> \/ process_event(upd[u].triggerid, upd[u].new)
  <1>1. upd[u] \in Update
    BY DEF DBupdate_trigger_value, EventTypes
  <1> DEFINE t == upd[u].triggerid
             v == upd[u].new
  <1>2. t \in Triggers /\ v \in Values
    BY <1>1 DEF Update
  <1>3. UNCHANGED <<events, escalations>> \/ process_event(t, v)
    BY DEF DBupdate_trigger_value
  <1>4. events' \in Seq(Event)
    <2>1. CASE UNCHANGED events
      BY <2>1 DEF EventTypes
    <2>2. CASE process_event(t, v)
      BY <1>2, <2>2, EventAppended DEF process_event
    <2> QED BY <1>3, <2>1, <2>2
  <1>5. /\ value' = [value EXCEPT ![t] = v]
        /\ upd' = [upd EXCEPT ![u] = None]
    BY DEF DBupdate_trigger_value
  <1>6. value' \in [Triggers -> Values]
    BY <1>2, <1>5 DEF EventTypes
  <1>7. /\ DOMAIN upd' = Updaters
        /\ \A w \in Updaters : upd'[w] # None => w # u /\ upd'[w] = upd[w] /\ upd'[w] \in Update
    BY <1>5 DEF EventTypes
  <1> QED BY <1>1, <1>3, <1>4, <1>5, <1>6, <1>7 DEF EventTypes

LEMMA EventInvInit == Init => EventInv
  <1> SUFFICES ASSUME Init PROVE EventInv
    OBVIOUS
  <1> USE DEF Init, EventsInit
  <1>1. EventTypes
    BY DEF EventTypes, Values
  <1>2. \A t : EventsOf(t) = {}
    BY DEF EventsOf
  <1>3. TriggerMatchesEvents
    BY <1>2, NoEvents DEF TriggerMatchesEvents
  <1>5. ReadsCurrent
    BY DEF ReadsCurrent
  <1> QED BY <1>1, <1>3, <1>5 DEF EventInv

(* What is unchanged when no event is made and no value written.           *)
LEMMA EventsUnchanged ==
  ASSUME EventInv, UNCHANGED <<value, events, raced>>, EventTypes',
         \A u \in Updaters \ overtaken' : upd'[u] # None /\ upd'[u].last # None =>
             upd'[u].last = last_status(upd'[u].triggerid)
  PROVE  EventInv'
  <1>1. \A x : EventsOf(x)' = EventsOf(x)
    BY DEF EventsOf
  <1>2. \A x : last_status(x)' = last_status(x)
    BY <1>1, LastStatusUnchanged
  <1>3. TriggerMatchesEvents'
    BY <1>2 DEF EventInv, TriggerMatchesEvents
  <1>4. ReadsCurrent'
    BY <1>2 DEF ReadsCurrent
  <1> QED BY <1>3, <1>4 DEF EventInv

LEMMA EvaluateEvents ==
  ASSUME EventInv, NEW u \in Updaters, Evaluate(u)
  PROVE  EventInv'
  <1>1. EventTypes'
    BY EvaluateTypes DEF EventInv
  <1>2. PICK t \in Triggers, v \in Values :
           upd' = [upd EXCEPT ![u] = [triggerid |-> t, old |-> value[t], new |-> v, last |-> None]]
    BY DEF Evaluate
  <1>3. UNCHANGED <<value, events, raced, overtaken>>
    BY DEF Evaluate, history
  <1>4. ASSUME NEW w \in Updaters \ overtaken', upd'[w] # None, upd'[w].last # None
        PROVE  upd'[w].last = last_status(upd'[w].triggerid)
    <2>1. w # u
      BY <1>2, <1>4 DEF EventInv, EventTypes
    <2>2. upd'[w] = upd[w]
      BY <1>2, <2>1 DEF EventInv, EventTypes
    <2> QED BY <1>3, <1>4, <2>2 DEF EventInv, ReadsCurrent
  <1> QED BY <1>1, <1>3, <1>4, EventsUnchanged

LEMMA CheckTriggerEvents ==
  ASSUME EventInv, NEW u \in Updaters, CheckTrigger(u)
  PROVE  EventInv'
  <1>1. UNCHANGED <<value, events, raced, overtaken>>
    BY DEF CheckTrigger, history
  <1>2. EventTypes
    BY DEF EventInv
  <1>3. ASSUME NEW w \in Updaters \ overtaken', upd'[w] # None, upd'[w].last # None
        PROVE  upd'[w].last = last_status(upd'[w].triggerid)
    <2>1. CASE w = u
      BY <1>2, <1>3, <2>1, CheckTriggerTypes
    <2>2. CASE w # u
      <3>1. upd'[w] = upd[w]
        BY <1>2, <2>2, CheckTriggerTypes
      <3> QED BY <1>1, <1>3, <3>1 DEF EventInv, ReadsCurrent
    <2> QED BY <2>1, <2>2
  <1>4. EventTypes'
    BY <1>2, CheckTriggerTypes
  <1> QED BY <1>1, <1>3, <1>4, EventsUnchanged

(* The value is that of the last event again, if the last event was still  *)
(* what the updater had read; and who has read another one is overtaken.   *)
LEMMA UpdateEvents ==
  ASSUME EventInv, NEW u \in Updaters, DBupdate_trigger_value(u)
  PROVE  EventInv'
  <1> PICK t, v : t = upd[u].triggerid /\ v = upd[u].new
    OBVIOUS
  <1>0. EventTypes
    BY DEF EventInv
  <1>1. /\ EventTypes'
        /\ t \in Triggers /\ v \in Values
        /\ value' = [value EXCEPT ![t] = v]
        /\ \A w \in Updaters : upd'[w] # None => w # u /\ upd'[w] = upd[w]
    BY <1>0, UpdateTypes DEF Update
  <1>2. /\ upd[u] # None /\ upd[u].last # None
        /\ overtaken' = (overtaken \ {u}) \cup Overtakes(u)
        /\ raced' = IF u \in overtaken THEN raced \cup {t} ELSE raced \ {t}
    BY DEF DBupdate_trigger_value
  <1>3. \A x : x # t => last_status(x)' = last_status(x)
    <2>1. CASE NewEvent(upd[u])
      <3>1. events' = Append(events, [objectid |-> t, value |-> v])
        BY <2>1 DEF DBupdate_trigger_value, process_event
      <3> QED BY <1>0, <1>1, <3>1, LastStatusAppended
    <2>2. CASE ~NewEvent(upd[u])
      <3>1. UNCHANGED events
        BY <2>2 DEF DBupdate_trigger_value
      <3>2. \A x : EventsOf(x)' = EventsOf(x)
        BY <3>1 DEF EventsOf
      <3> QED BY <3>1, <3>2, LastStatusUnchanged
    <2> QED BY <2>1, <2>2
  <1>4. ASSUME u \notin overtaken PROVE last_status(t)' = v
    <2>1. CASE NewEvent(upd[u])
      <3>1. events' = Append(events, [objectid |-> t, value |-> v])
        BY <2>1 DEF DBupdate_trigger_value, process_event
      <3> QED BY <1>0, <1>1, <3>1, LastStatusAppended
    <2>2. CASE ~NewEvent(upd[u])
      <3>1. UNCHANGED events
        BY <2>2 DEF DBupdate_trigger_value
      <3>2. EventsOf(t)' = EventsOf(t)
        BY <3>1 DEF EventsOf
      <3>3. last_status(t)' = last_status(t)
        BY <3>1, <3>2, LastStatusUnchanged
      <3>4. upd[u].last = last_status(t)
        BY <1>2, <1>4 DEF EventInv, ReadsCurrent
      <3>5. upd[u].last = v
        BY <2>2 DEF NewEvent
      <3> QED BY <3>3, <3>4, <3>5
    <2> QED BY <2>1, <2>2
  <1>5. TriggerMatchesEvents'
    <2> SUFFICES ASSUME NEW x \in Triggers, x \notin raced' PROVE value'[x] = last_status(x)'
      BY DEF TriggerMatchesEvents
    <2>1. CASE x = t
      BY <1>0, <1>1, <1>2, <1>4, <2>1 DEF EventTypes
    <2>2. CASE x # t
      BY <1>0, <1>1, <1>2, <1>3, <2>2 DEF EventTypes, EventInv, TriggerMatchesEvents
    <2> QED BY <2>1, <2>2
  <1>6. ReadsCurrent'
    <2> SUFFICES ASSUME NEW w \in Updaters, w \notin overtaken', upd'[w] # None, upd'[w].last # None
                 PROVE  (upd[w].last = last_status(upd[w].triggerid))'
      BY DEF ReadsCurrent
    <2>1. w # u /\ upd'[w] = upd[w]
      BY <1>1
    <2>2. w \notin overtaken /\ w \notin Overtakes(u)
      BY <1>2, <2>1
    <2>3. upd[w].triggerid # t
      BY <2>1, <2>2 DEF Overtakes
    <2>4. upd[w].last = last_status(upd[w].triggerid)
      BY <2>1, <2>2 DEF EventInv, ReadsCurrent
    <2> QED BY <1>3, <2>1, <2>3, <2>4
  <1> QED BY <1>1, <1>5, <1>6 DEF EventInv

(* All other steps leave the triggers, the events and the updaters alone,  *)
(* but that a restart forgets what an updater has read.                    *)
LEMMA OtherEventTypes ==
  ASSUME EventTypes, UNCHANGED <<value, events>>,
         UNCHANGED upd \/ upd' = [u \in Updaters |-> None]
  PROVE  EventTypes'
  BY DEF EventTypes

LEMMA OtherEvents ==
  ASSUME EventInv, UNCHANGED <<value, events, raced>>,
         UNCHANGED <<upd, overtaken>> \/ upd' = [u \in Updaters |-> None]
  PROVE  EventInv'
  <1>1. EventTypes'
    BY OtherEventTypes DEF EventInv
  <1>2. \A u \in Updaters \ overtaken' : upd'[u] # None /\ upd'[u].last # None =>
             upd'[u].last = last_status(upd'[u].triggerid)
    BY DEF EventInv, ReadsCurrent
  <1> QED BY <1>1, <1>2, EventsUnchanged

LEMMA OtherSteps ==
  ASSUME \/ Configure \/ Escalate \/ Send \/ Restart \/ UNCHANGED vars
  PROVE  /\ UNCHANGED <<value, events, raced>>
         /\ UNCHANGED <<upd, overtaken>> \/ upd' = [u \in Updaters |-> None]
  BY DEF history, Configure, Escalate, SelectEscalations, ExecuteActive, ExecuteRecovery,
         Send, SelectAlerts, execute_action, UpdateAlert, Restart, vars, eventvars

LEMMA EventInvStep == EventInv /\ [Next]_vars => EventInv'
  <1> SUFFICES ASSUME EventInv, [Next]_vars PROVE EventInv'
    OBVIOUS
  <1>1. ASSUME NEW u \in Updaters, Evaluate(u) PROVE EventInv'
    BY <1>1, EvaluateEvents
  <1>2. ASSUME NEW u \in Updaters, CheckTrigger(u) PROVE EventInv'
    BY <1>2, CheckTriggerEvents
  <1>3. ASSUME NEW u \in Updaters, DBupdate_trigger_value(u) PROVE EventInv'
    BY <1>3, UpdateEvents
  <1>4. ASSUME Configure \/ Escalate \/ Send \/ Restart \/ UNCHANGED vars PROVE EventInv'
    BY <1>4, OtherSteps, OtherEvents
  <1> QED BY <1>1, <1>2, <1>3, <1>4 DEF Next, EventsNext

(* However many processes update a trigger, the value that it has in the   *)
(* frontend is that of its last event: neither the return of               *)
(* DBupdate_trigger_value before the event, for an equal status, nor a     *)
(* restart between the reading of the trigger and the commit leaves a      *)
(* value that no action has been told of.  It may be another only since a  *)
(* write by a process that another one had overtaken after db.c:595, and   *)
(* until the next write by one that was not.                               *)
THEOREM ValueIsLastEvent == Spec => []TriggerMatchesEvents
  <1>1. EventInv => TriggerMatchesEvents
    BY DEF EventInv
  <1> QED BY <1>1, EventInvInit, EventInvStep, PTL DEF Spec

-----------------------------------------------------------------------------
(* Lemmas about the rows and the alerts.                                   *)

LEMMA StartedRow ==
  ASSUME NEW a \in Actions, NEW t \in Triggers, NEW id \in Nat
  PROVE  LET r == DBstart_escalation(a, t, id)
         IN  /\ r \in EscalationRow
             /\ r.actionid = a /\ r.triggerid = t /\ r.eventid = id
             /\ r.esc_step = 0 /\ r.status = "active"
  BY DEF DBstart_escalation, EscalationRow

LEMMA StoppedRow ==
  ASSUME NEW e \in EscalationRow, NEW id \in Nat
  PROVE  LET r == DBstop_escalation(e, id)
         IN  /\ r \in EscalationRow
             /\ r.actionid = e.actionid /\ r.triggerid = e.triggerid /\ r.eventid = e.eventid
             /\ r.esc_step = e.esc_step /\ r.status = "recovery" /\ r.r_eventid = id
  BY DEF DBstop_escalation, EscalationRow

LEMMA AlertRowMade ==
  ASSUME NEW e \in EscalationRow, NEW eventid \in Nat, NEW step \in Nat,
         NEW p \in MsgRow, NEW m \in AllMedia \cup {None}
  PROVE  /\ Alert(e, eventid, step, p, m) \in AlertRow
         /\ Alert(e, eventid, step, p, m).actionid = e.actionid
         /\ Alert(e, eventid, step, p, m).eventid = eventid
         /\ Alert(e, eventid, step, p, m).userid = p.userid
         /\ Alert(e, eventid, step, p, m).msg = p.msg
         /\ Alert(e, eventid, step, p, m).mediatypeid = m
         /\ Alert(e, eventid, step, p, m).esc_step = step
  BY EscalationsAssumption DEF EscalationsAssumption, Alert, AlertRow, EscalationRow, MsgRow

LEMMA AlertFields ==
  ASSUME alerts \in Seq(AlertRow), NEW k \in 1 .. Len(alerts)
  PROVE  alerts[k].esc_step \in Nat /\ alerts[k].userid \in Users
  <1>1. alerts[k] \in AlertRow
    OBVIOUS
  <1> QED BY <1>1 DEF AlertRow

LEMMA MsgsFinite == IsFiniteSet(MsgRow)
  <1> DEFINE P == Users \X (Msgs \cup {None})
             f == [x \in P |-> [userid |-> x[1], msg |-> x[2]]]
  <1>1. IsFiniteSet(Users) /\ IsFiniteSet(Msgs \cup {None})
    BY FS_AddElement, EscalationsAssumption DEF EscalationsAssumption
  <1>2. IsFiniteSet(P)
    BY <1>1, FS_Product
  <1>3. f \in Surjection(P, MsgRow)
    <2>1. f \in [P -> MsgRow]
      BY DEF MsgRow
    <2>2. ASSUME NEW r \in MsgRow PROVE \E x \in P : f[x] = r
      <3>1. <<r.userid, r.msg>> \in P
        BY DEF MsgRow
      <3>2. f[<<r.userid, r.msg>>] = r
        BY <3>1 DEF MsgRow
      <3> QED BY <3>1, <3>2
    <2> HIDE DEF f, P
    <2> QED BY <2>1, <2>2 DEF Surjection
  <1> HIDE DEF P, f
  <1> QED BY <1>2, <1>3, FS_Surjection

LEMMA AlertsFinite ==
  ASSUME NEW e, NEW eventid, NEW step, NEW msgs \in SUBSET MsgRow,
         NEW S,
         \A a \in S : \E p \in msgs, m \in AllMedia \cup {None} : a = Alert(e, eventid, step, p, m)
  PROVE  IsFiniteSet(S)
  <1> DEFINE P == msgs \X (AllMedia \cup {None})
             T == {Alert(e, eventid, step, x[1], x[2]) : x \in P}
             f == [x \in P |-> Alert(e, eventid, step, x[1], x[2])]
             mf == [u \in Users |-> Media[u]]
             MM == {Media[u] : u \in Users}
  <1>1. IsFiniteSet(MM)
    <2>1. mf \in Surjection(Users, MM)
      BY DEF Surjection
    <2> HIDE DEF mf, MM
    <2> QED BY <2>1, FS_Surjection, EscalationsAssumption DEF EscalationsAssumption
  <1>2. \A M \in MM : IsFiniteSet(M)
    BY EscalationsAssumption DEF EscalationsAssumption
  <1>3. IsFiniteSet(UNION MM)
    <2> HIDE DEF MM
    <2> QED BY <1>1, <1>2, FS_UNION
  <1>4. IsFiniteSet(AllMedia \cup {None})
    BY <1>3, FS_AddElement DEF AllMedia
  <1>5. IsFiniteSet(msgs)
    BY MsgsFinite, FS_Subset
  <1>6. IsFiniteSet(P)
    BY <1>4, <1>5, FS_Product
  <1>7. f \in Surjection(P, T)
    <2> HIDE DEF P
    <2> QED BY DEF Surjection
  <1>8. IsFiniteSet(T)
    <2> HIDE DEF P, f, T
    <2> QED BY <1>6, <1>7, FS_Surjection
  <1>9. ASSUME NEW a \in S PROVE a \in T
    <2>1. PICK p \in msgs, m \in AllMedia \cup {None} : a = Alert(e, eventid, step, p, m)
      OBVIOUS
    <2>2. <<p, m>> \in P /\ <<p, m>>[1] = p /\ <<p, m>>[2] = m
      OBVIOUS
    <2> HIDE DEF P
    <2> QED BY <2>1, <2>2
  <1> HIDE DEF T
  <1> QED BY <1>8, <1>9, FS_Subset

(* add_message_alerts only appends, and what it appends is of one event    *)
(* and step and differs in the user, the message or the medium.            *)
LEMMA AlertsAdded ==
  ASSUME alerts \in Seq(AlertRow), NEW e \in EscalationRow, NEW eventid \in Nat, NEW step \in Nat,
         NEW msgs \in SUBSET MsgRow, add_message_alerts(e, eventid, step, msgs)
  PROVE  /\ alerts' \in Seq(AlertRow)
         /\ Len(alerts) \in Nat /\ Len(alerts') \in Nat /\ Len(alerts) <= Len(alerts')
         /\ \A k \in 1 .. Len(alerts) : alerts'[k] = alerts[k]
         /\ \A k \in 1 .. Len(alerts') : k > Len(alerts) =>
               /\ alerts'[k].actionid = e.actionid /\ alerts'[k].eventid = eventid
               /\ alerts'[k].esc_step = step /\ \E p \in msgs : alerts'[k].userid = p.userid
         /\ \A i, k \in 1 .. Len(alerts') : i > Len(alerts) /\ i < k => Differ(alerts'[i], alerts'[k])
  <1>1. PICK used \in SUBSET (UNION {Media[p.userid] : p \in msgs}) :
           LET Accepting(u) == IF Media[u] = {} THEN {None} ELSE Media[u] \cap used
               new == UNION {{Alert(e, eventid, step, p, m) : m \in Accepting(p.userid)} : p \in msgs}
           IN  \E s \in [1 .. Cardinality(new) -> new] :
                   /\ \A i, k \in DOMAIN s : i # k => s[i] # s[k]
                   /\ alerts' = alerts \o s
    BY DEF add_message_alerts
  <1> DEFINE MediaOf(u) == IF Media[u] = {} THEN {None} ELSE Media[u] \cap used
             new == UNION {{Alert(e, eventid, step, p, m) : m \in MediaOf(p.userid)} : p \in msgs}
  <1>2. PICK s \in [1 .. Cardinality(new) -> new] :
           /\ \A i, k \in DOMAIN s : i # k => s[i] # s[k]
           /\ alerts' = alerts \o s
    BY <1>1
  <1>3. ASSUME NEW a \in new
        PROVE  \E p \in msgs, m \in AllMedia \cup {None} : a = Alert(e, eventid, step, p, m)
    <2>1. PICK p \in msgs : \E m \in MediaOf(p.userid) : a = Alert(e, eventid, step, p, m)
      OBVIOUS
    <2>2. PICK m \in MediaOf(p.userid) : a = Alert(e, eventid, step, p, m)
      BY <2>1
    <2>3. m \in AllMedia \cup {None}
      BY DEF AllMedia, MsgRow
    <2> QED BY <2>2, <2>3
  <1>4. IsFiniteSet(new)
    <2> HIDE DEF new
    <2> QED BY <1>3, AlertsFinite
  <1> HIDE DEF new
  <1> DEFINE n == Cardinality(new)
             l == Len(alerts)
  <1>5. n \in Nat
    BY <1>4, FS_CardinalityType
  <1>6. ASSUME NEW a \in new
        PROVE  /\ a \in AlertRow /\ a.actionid = e.actionid /\ a.eventid = eventid
               /\ a.esc_step = step /\ \E p \in msgs : a.userid = p.userid
    BY <1>3, AlertRowMade
  <1>7. ASSUME NEW a \in new, NEW b \in new, a # b PROVE Differ(a, b)
    <2>1. PICK p \in msgs, m \in AllMedia \cup {None} : a = Alert(e, eventid, step, p, m)
      BY <1>3
    <2>2. PICK q \in msgs, w \in AllMedia \cup {None} : b = Alert(e, eventid, step, q, w)
      BY <1>3
    <2>3. p # q \/ m # w
      BY <1>7, <2>1, <2>2
    <2>4. p # q => p.userid # q.userid \/ p.msg # q.msg
      BY DEF MsgRow
    <2> QED BY <2>1, <2>2, <2>3, <2>4, AlertRowMade DEF Differ
  <1>8. s \in Seq(AlertRow) /\ Len(s) = n /\ DOMAIN s = 1 .. n
    <2>1. s \in [1 .. n -> AlertRow]
      BY <1>6
    <2> HIDE DEF n
    <2> QED BY <1>5, <2>1
  <1>9. l \in Nat
    OBVIOUS
  <1>10. /\ alerts' \in Seq(AlertRow) /\ Len(alerts') = l + n
         /\ \A k \in 1 .. l + n : alerts'[k] = IF k <= l THEN alerts[k] ELSE s[k - l]
    <2>1. /\ alerts \o s \in Seq(AlertRow) /\ Len(alerts \o s) = l + Len(s)
          /\ \A k \in 1 .. l + Len(s) : (alerts \o s)[k] = IF k <= l THEN alerts[k] ELSE s[k - l]
      BY <1>8, ConcatProperties
    <2> HIDE DEF n, l
    <2> QED BY <1>2, <1>8, <2>1
  <1> HIDE DEF n, l
  <1>11. \A k \in 1 .. l : alerts'[k] = alerts[k]
    BY <1>5, <1>9, <1>10
  <1>12. ASSUME NEW k \in 1 .. l + n, k > l
         PROVE  alerts'[k] = s[k - l] /\ k - l \in 1 .. n /\ s[k - l] \in new
    <2>1. k - l \in 1 .. n /\ ~(k <= l)
      BY <1>5, <1>9, <1>12
    <2>2. s[k - l] \in new
      BY <1>2, <2>1 DEF n
    <2> QED BY <1>10, <2>1, <2>2
  <1>13. ASSUME NEW k \in 1 .. l + n, k > l
         PROVE  /\ alerts'[k].actionid = e.actionid /\ alerts'[k].eventid = eventid
                /\ alerts'[k].esc_step = step /\ \E p \in msgs : alerts'[k].userid = p.userid
    BY <1>6, <1>12, <1>13
  <1>14. ASSUME NEW i \in 1 .. l + n, NEW k \in 1 .. l + n, i > l, i < k
         PROVE  Differ(alerts'[i], alerts'[k])
    <2>1. k > l /\ i - l # k - l
      BY <1>5, <1>9, <1>14
    <2>2. s[i - l] # s[k - l]
      BY <1>2, <1>8, <1>12, <1>14, <2>1
    <2> QED BY <1>7, <1>12, <1>14, <2>1, <2>2
  <1>15. l + n \in Nat /\ l <= l + n
    BY <1>5, <1>9
  <1> QED BY <1>9, <1>10, <1>11, <1>13, <1>14, <1>15 DEF l

(* The alerts stay what they are when events are added and when the        *)
(* alerter updates their status.                                           *)
LEMMA AlertsKept ==
  ASSUME AlertsOfEvents, RowsOnce, RecoveryToTheTold,
         Len(events) \in Nat, Len(events') \in Nat, Len(events) <= Len(events'),
         \A k \in 1 .. Len(events) : events'[k] = events[k],
         Len(alerts') = Len(alerts),
         \A k \in 1 .. Len(alerts) : ~Differ(alerts[k], alerts'[k])
  PROVE  AlertsOfEvents' /\ RowsOnce' /\ RecoveryToTheTold'
  <1> USE DEF Differ
  <1>1. \A k \in 1 .. Len(alerts) :
           /\ alerts[k].eventid \in 1 .. Len(events)
           /\ alerts'[k].eventid = alerts[k].eventid
           /\ events'[alerts[k].eventid] = events[alerts[k].eventid]
    BY DEF AlertsOfEvents
  <1>2. \A k \in 1 .. Len(alerts) : events'[alerts'[k].eventid].value = events[alerts[k].eventid].value
    BY <1>1
  <1>3. AlertsOfEvents'
    BY <1>1 DEF AlertsOfEvents
  <1>4. \A i, k \in 1 .. Len(alerts) : i < k /\ events[alerts[i].eventid].value = TRUEVALUE
            => Differ(alerts[i], alerts[k])
    BY DEF RowsOnce, Problem
  <1>5. \A i, k \in 1 .. Len(alerts') : i < k /\ events'[alerts'[i].eventid].value = TRUEVALUE
            => Differ(alerts'[i], alerts'[k])
    BY <1>2, <1>4
  <1>6. RowsOnce'
    BY <1>5 DEF RowsOnce, Problem
  <1>7. ASSUME NEW k \in 1 .. Len(alerts'), events'[alerts'[k].eventid].value # TRUEVALUE
        PROVE  \E i \in 1 .. k - 1 :
                  /\ events'[alerts'[i].eventid].value = TRUEVALUE
                  /\ alerts'[i].actionid = alerts'[k].actionid /\ alerts'[i].userid = alerts'[k].userid
                  /\ events'[alerts'[i].eventid].objectid = events'[alerts'[k].eventid].objectid
    <2>1. PICK i \in 1 .. k - 1 :
             /\ events[alerts[i].eventid].value = TRUEVALUE
             /\ alerts[i].actionid = alerts[k].actionid /\ alerts[i].userid = alerts[k].userid
             /\ events[alerts[i].eventid].objectid = events[alerts[k].eventid].objectid
      BY <1>2, <1>7 DEF RecoveryToTheTold, Problem
    <2>2. i \in 1 .. Len(alerts) /\ k \in 1 .. Len(alerts)
      BY <1>7
    <2>3. /\ events'[alerts'[i].eventid] = events[alerts[i].eventid]
          /\ events'[alerts'[k].eventid] = events[alerts[k].eventid]
      BY <1>1, <2>2
    <2>4. /\ alerts'[i].actionid = alerts[i].actionid /\ alerts'[i].userid = alerts[i].userid
          /\ alerts'[k].actionid = alerts[k].actionid /\ alerts'[k].userid = alerts[k].userid
      BY <2>2
    <2> QED BY <2>1, <2>3, <2>4
  <1>8. RecoveryToTheTold'
    BY <1>7 DEF RecoveryToTheTold, Problem
  <1> QED BY <1>3, <1>6, <1>8

(* New alerts of an event and a step that the action has had none of, and  *)
(* for a recovery only to users that it has told of the problem.           *)
LEMMA AlertsExtended ==
  ASSUME AlertsOfEvents, RowsOnce, RecoveryToTheTold,
         alerts \in Seq(AlertRow), NEW e \in EscalationRow, NEW eventid \in Nat, NEW step \in Nat,
         NEW msgs \in SUBSET MsgRow, add_message_alerts(e, eventid, step, msgs),
         UNCHANGED events, eventid \in 1 .. Len(events),
         \A k \in 1 .. Len(alerts) :
             alerts[k].actionid = e.actionid /\ alerts[k].eventid = eventid
             /\ events[eventid].value = TRUEVALUE => alerts[k].esc_step # step,
         events[eventid].value = TRUEVALUE \/ \A p \in msgs : \E i \in 1 .. Len(alerts) :
             /\ events[alerts[i].eventid].value = TRUEVALUE
             /\ alerts[i].actionid = e.actionid /\ alerts[i].userid = p.userid
             /\ events[alerts[i].eventid].objectid = events[eventid].objectid
  PROVE  AlertsOfEvents' /\ RowsOnce' /\ RecoveryToTheTold'
  <1>1. /\ Len(alerts) \in Nat /\ Len(alerts') \in Nat /\ Len(alerts) <= Len(alerts')
        /\ \A k \in 1 .. Len(alerts) : alerts'[k] = alerts[k]
        /\ \A k \in 1 .. Len(alerts') : k > Len(alerts) =>
              /\ alerts'[k].actionid = e.actionid /\ alerts'[k].eventid = eventid
              /\ alerts'[k].esc_step = step /\ \E p \in msgs : alerts'[k].userid = p.userid
        /\ \A i, k \in 1 .. Len(alerts') : i > Len(alerts) /\ i < k => Differ(alerts'[i], alerts'[k])
    BY AlertsAdded
  <1>2. \A k \in 1 .. Len(alerts') : k \in 1 .. Len(alerts) \/ k > Len(alerts)
    BY <1>1
  <1>3. AlertsOfEvents'
    BY <1>1, <1>2 DEF AlertsOfEvents
  <1>4. \A i, k \in 1 .. Len(alerts) : i < k /\ events[alerts[i].eventid].value = TRUEVALUE
            => Differ(alerts[i], alerts[k])
    BY DEF RowsOnce, Problem
  <1>5. ASSUME NEW i \in 1 .. Len(alerts'), NEW k \in 1 .. Len(alerts'), i < k,
               events'[alerts'[i].eventid].value = TRUEVALUE
        PROVE  Differ(alerts'[i], alerts'[k])
    <2>1. CASE i > Len(alerts)
      BY <1>1, <1>5, <2>1
    <2>2. CASE i \in 1 .. Len(alerts) /\ k \in 1 .. Len(alerts)
      <3>1. alerts'[i] = alerts[i] /\ alerts'[k] = alerts[k]
        BY <1>1, <2>2
      <3> QED BY <1>4, <1>5, <2>2, <3>1
    <2>3. CASE i \in 1 .. Len(alerts) /\ k > Len(alerts)
      <3>1. alerts'[i] = alerts[i]
        BY <1>1, <2>3
      <3>2. alerts'[k].actionid = e.actionid /\ alerts'[k].eventid = eventid /\ alerts'[k].esc_step = step
        BY <1>1, <1>5, <2>3
      <3> QED BY <1>5, <2>3, <3>1, <3>2 DEF Differ
    <2> QED BY <1>2, <2>1, <2>2, <2>3
  <1>6. RowsOnce'
    BY <1>5 DEF RowsOnce, Problem
  <1>7. ASSUME NEW k \in 1 .. Len(alerts'), events'[alerts'[k].eventid].value # TRUEVALUE
        PROVE  \E i \in 1 .. k - 1 :
                  /\ events'[alerts'[i].eventid].value = TRUEVALUE
                  /\ alerts'[i].actionid = alerts'[k].actionid /\ alerts'[i].userid = alerts'[k].userid
                  /\ events'[alerts'[i].eventid].objectid = events'[alerts'[k].eventid].objectid
    <2>1. CASE k \in 1 .. Len(alerts)
      <3>1. alerts'[k] = alerts[k]
        BY <1>1, <2>1
      <3>2. PICK i \in 1 .. k - 1 :
               /\ events[alerts[i].eventid].value = TRUEVALUE
               /\ alerts[i].actionid = alerts[k].actionid /\ alerts[i].userid = alerts[k].userid
               /\ events[alerts[i].eventid].objectid = events[alerts[k].eventid].objectid
        BY <1>7, <2>1, <3>1 DEF RecoveryToTheTold, Problem
      <3>3. alerts'[i] = alerts[i]
        BY <1>1, <2>1
      <3> QED BY <3>1, <3>2, <3>3
    <2>2. CASE k > Len(alerts)
      <3>1. /\ alerts'[k].actionid = e.actionid /\ alerts'[k].eventid = eventid
            /\ \E p \in msgs : alerts'[k].userid = p.userid
        BY <1>1, <2>2
      <3>2. PICK i \in 1 .. Len(alerts) :
               /\ events[alerts[i].eventid].value = TRUEVALUE
               /\ alerts[i].actionid = e.actionid /\ alerts[i].userid = alerts'[k].userid
               /\ events[alerts[i].eventid].objectid = events[eventid].objectid
        BY <1>7, <3>1
      <3>3. alerts'[i] = alerts[i] /\ i \in 1 .. k - 1
        BY <1>1, <2>2
      <3> QED BY <3>1, <3>2, <3>3
    <2> QED BY <1>2, <2>1, <2>2
  <1>8. RecoveryToTheTold'
    BY <1>7 DEF RecoveryToTheTold, Problem
  <1> QED BY <1>3, <1>6, <1>8

(* What the escalator writes back changes the row of that escalation only. *)
LEMMA WrittenBack ==
  ASSUME escalations \in SUBSET EscalationRow, OneRow(escalations),
         \A x \in escalations : OfItsEvents(x), UNCHANGED events,
         NEW e, NEW step \in Nat, NEW status \in {"active", "sleep", "completed"},
         \E due \in BOOLEAN : WriteBack(e, step, status, due)
  PROVE  /\ escalations' \in SUBSET EscalationRow
         /\ \A x, y \in escalations' : SameKey(x, y) => x = y
         /\ \A x \in escalations' : OfItsEvents(x)'
         /\ \A x \in escalations' : SameKey(x, e) => x.esc_step = step
         /\ \A x \in escalations' : SameKey(x, e) => x.status = status
  <1> PICK due \in BOOLEAN : WriteBack(e, step, status, due)
    OBVIOUS
  <1> DEFINE Rewrite(x) == [x EXCEPT !.esc_step = step, !.status = status, !.due = due]
  <1>1. ASSUME NEW y \in escalations'
        PROVE  \/ y \in escalations /\ ~SameKey(y, e)
               \/ /\ status # "completed"
                  /\ \E x \in escalations : SameKey(x, e) /\ y = Rewrite(x)
    BY DEF WriteBack, Row, SameKey
  <1>2. ASSUME NEW x \in escalations, status # "completed"
        PROVE  /\ Rewrite(x) \in EscalationRow
               /\ Rewrite(x).actionid = x.actionid /\ Rewrite(x).triggerid = x.triggerid
               /\ Rewrite(x).eventid = x.eventid /\ Rewrite(x).r_eventid = x.r_eventid
               /\ Rewrite(x).esc_step = step /\ Rewrite(x).status = status
    <2>1. x \in EscalationRow /\ status \in {"active", "recovery", "sleep"}
      BY <1>2
    <2> QED BY <2>1 DEF EscalationRow
  <1> HIDE DEF Rewrite
  <1>3. escalations' \in SUBSET EscalationRow
    BY <1>1, <1>2
  <1>4. ASSUME NEW x \in escalations', NEW y \in escalations', SameKey(x, y) PROVE x = y
    <2>1. CASE ~SameKey(x, e)
      <3>1. ~SameKey(y, e)
        BY <1>4, <2>1 DEF SameKey
      <3>2. x \in escalations /\ y \in escalations
        BY <1>1, <1>2, <2>1, <3>1 DEF SameKey
      <3> QED BY <1>4, <3>2 DEF OneRow
    <2>2. CASE SameKey(x, e)
      <3>1. SameKey(y, e)
        BY <1>4, <2>2 DEF SameKey
      <3>2. PICK r \in escalations : SameKey(r, e) /\ x = Rewrite(r)
        BY <1>1, <2>2
      <3>3. PICK q \in escalations : SameKey(q, e) /\ y = Rewrite(q)
        BY <1>1, <3>1
      <3>4. r = q
        BY <3>2, <3>3 DEF OneRow, SameKey
      <3> QED BY <3>2, <3>3, <3>4
    <2> QED BY <2>1, <2>2
  <1>5. ASSUME NEW y \in escalations' PROVE OfItsEvents(y)'
    <2>1. CASE y \in escalations
      BY <2>1 DEF OfItsEvents
    <2>2. CASE status # "completed" /\ \E x \in escalations : SameKey(x, e) /\ y = Rewrite(x)
      <3>1. PICK x \in escalations : y = Rewrite(x)
        BY <2>2
      <3> QED BY <1>2, <2>2, <3>1 DEF OfItsEvents
    <2> QED BY <1>1, <2>1, <2>2
  <1>6. ASSUME NEW y \in escalations', SameKey(y, e)
        PROVE  y.esc_step = step /\ y.status = status
    BY <1>1, <1>2, <1>6 DEF SameKey
  <1> QED BY <1>3, <1>4, <1>5, <1>6

(* The escalations after a new event of a trigger.                         *)
LEMMA StartedAndStopped ==
  ASSUME ProblemActions, EscalationInv, NEW t \in Triggers, NEW v \in Values, process_event(t, v)
  PROVE  /\ escalations' \in SUBSET EscalationRow
         /\ \A x, y \in escalations' : SameKey(x, y) => x = y
         /\ \A x \in escalations' : OfItsEvents(x)'
         /\ \A x \in escalations' :
               \/ x.eventid = Len(events) + 1 /\ x.esc_step = 0
               \/ \E e \in escalations : SameKey(x, e) /\ x.esc_step = e.esc_step
                                         /\ (x.status = "active" => e.status = "active")
  <1> DEFINE id == Len(events) + 1
             starts == {a \in Actions \ disabled : v \in Conditions[a]}
             Stops(e) == e.actionid \in (Actions \ disabled) \ starts /\ e.triggerid = t
             Made(x) == \E a \in starts : x = DBstart_escalation(a, t, id)
             Kept(x, e) == x = IF Stops(e) THEN DBstop_escalation(e, id) ELSE e
  <1>1. /\ Len(events) \in Nat
        /\ Len(events') = id
        /\ \A k \in 1 .. Len(events) : events'[k] = events[k]
        /\ events'[id] = [objectid |-> t, value |-> v]
    BY EventAppended DEF EscalationInv, EventTypes, process_event
  <1>2. /\ escalations \in SUBSET EscalationRow /\ OneRow(escalations)
        /\ \A e \in escalations : OfItsEvents(e)
    BY DEF EscalationInv, AlertTypes
  <1>3. CASE UNCHANGED escalations
    <2>1. ASSUME NEW x \in escalations PROVE OfItsEvents(x)'
      BY <1>1, <1>2 DEF OfItsEvents
    <2>2. \A x \in escalations : SameKey(x, x)
      BY DEF SameKey
    <2> QED BY <1>2, <1>3, <2>1, <2>2 DEF OneRow
  <1>4. CASE escalations' = process_actions(t, id, v)
    <2>1. ASSUME NEW x \in escalations' PROVE Made(x) \/ \E e \in escalations : Kept(x, e)
      BY <1>4 DEF process_actions
    <2>2. ASSUME NEW x, Made(x)
          PROVE  /\ x \in EscalationRow
                 /\ x.actionid \in starts /\ x.eventid = id /\ x.triggerid = t
                 /\ x.esc_step = 0 /\ x.status = "active"
      <3>1. PICK a \in starts : x = DBstart_escalation(a, t, id)
        BY <2>2
      <3> QED BY <1>1, <3>1, StartedRow
    <2>3. ASSUME NEW x, NEW e \in escalations, Kept(x, e)
          PROVE  /\ x \in EscalationRow
                 /\ x.actionid = e.actionid /\ x.eventid = e.eventid /\ x.triggerid = e.triggerid
                 /\ x.esc_step = e.esc_step
                 /\ \/ x = e
                    \/ x.status = "recovery" /\ x.r_eventid = id /\ Stops(e)
      <3>1. CASE Stops(e)
        <4>1. x = DBstop_escalation(e, id)
          BY <2>3, <3>1
        <4>2. e \in EscalationRow /\ id \in Nat
          BY <1>1, <1>2
        <4> HIDE DEF id
        <4>3. /\ x \in EscalationRow
              /\ x.actionid = e.actionid /\ x.eventid = e.eventid /\ x.triggerid = e.triggerid
              /\ x.esc_step = e.esc_step /\ x.status = "recovery" /\ x.r_eventid = id
          BY <4>1, <4>2, StoppedRow
        <4> QED BY <3>1, <4>3
      <3>2. CASE ~Stops(e)
        BY <1>2, <2>3, <3>2
      <3> QED BY <3>1, <3>2
    <2> HIDE DEF Made, Kept
    <2>4. \A e \in escalations : e.eventid # id
      BY <1>1, <1>2 DEF OfItsEvents
    <2>5. ASSUME NEW x \in escalations', NEW y \in escalations', SameKey(x, y) PROVE x = y
      <3>1. CASE Made(x)
        <4>1. Made(y)
          BY <2>1, <2>2, <2>3, <2>4, <2>5, <3>1 DEF SameKey
        <4> QED BY <2>2, <2>5, <3>1, <4>1 DEF SameKey, Made, DBstart_escalation
      <3>2. CASE \E e \in escalations : Kept(x, e)
        <4>1. PICK e \in escalations : Kept(x, e)
          BY <3>2
        <4>2. PICK g \in escalations : Kept(y, g)
          BY <2>1, <2>2, <2>3, <2>4, <2>5, <4>1 DEF SameKey
        <4>3. e = g
          BY <1>2, <2>3, <2>5, <4>1, <4>2 DEF OneRow, SameKey
        <4> QED BY <4>1, <4>2, <4>3 DEF Kept
      <3> QED BY <2>1, <3>1, <3>2
    <2>6. ASSUME NEW x \in escalations' PROVE OfItsEvents(x)'
      <3>1. CASE Made(x)
        <4>1. x.actionid \in Actions /\ v \in Conditions[x.actionid]
          BY <2>2, <3>1
        <4>2. v = TRUEVALUE
          BY <4>1 DEF ProblemActions
        <4>3. x.eventid = id /\ x.triggerid = t /\ x.status = "active"
          BY <2>2, <3>1
        <4>4. id \in 1 .. Len(events') /\ events'[id].objectid = t /\ events'[id].value = v
          BY <1>1
        <4> HIDE DEF id
        <4> QED BY <4>1, <4>2, <4>3, <4>4 DEF OfItsEvents
      <3>2. CASE \E e \in escalations : Kept(x, e)
        <4>1. PICK e \in escalations : Kept(x, e)
          BY <3>2
        <4>2. OfItsEvents(e)'
          BY <1>1, <1>2 DEF OfItsEvents
        <4>3. CASE x = e
          BY <4>2, <4>3
        <4>4. CASE x.status = "recovery" /\ x.r_eventid = id /\ Stops(e)
          <5>1. id \in 1 .. Len(events') /\ events'[id].objectid = t /\ events'[id].value = v
            BY <1>1
          <5>2. e.actionid \in Actions \ disabled /\ v \notin Conditions[e.actionid] /\ e.triggerid = t
            BY <4>4
          <5>3. v # TRUEVALUE
            BY <1>2, <5>2 DEF OfItsEvents
          <5>4. /\ x.actionid = e.actionid /\ x.eventid = e.eventid /\ x.triggerid = e.triggerid
            BY <2>3, <4>1
          <5> HIDE DEF id
          <5> QED BY <4>2, <4>4, <5>1, <5>2, <5>3, <5>4 DEF OfItsEvents
        <4> QED BY <2>3, <4>1, <4>3, <4>4
      <3> QED BY <2>1, <3>1, <3>2
    <2>7. ASSUME NEW x \in escalations'
          PROVE  \/ x.eventid = id /\ x.esc_step = 0
                 \/ \E e \in escalations : SameKey(x, e) /\ x.esc_step = e.esc_step
                                           /\ (x.status = "active" => e.status = "active")
      <3>1. CASE Made(x)
        BY <2>2, <3>1
      <3>2. CASE \E e \in escalations : Kept(x, e)
        <4>1. PICK e \in escalations : Kept(x, e)
          BY <3>2
        <4>2. /\ x.actionid = e.actionid /\ x.eventid = e.eventid /\ x.esc_step = e.esc_step
              /\ x = e \/ x.status = "recovery"
          BY <2>3, <4>1
        <4> QED BY <4>2 DEF SameKey
      <3> QED BY <2>1, <3>1, <3>2
    <2>8. escalations' \in SUBSET EscalationRow
      BY <2>1, <2>2, <2>3
    <2> QED BY <2>5, <2>6, <2>7, <2>8
  <1> QED BY <1>3, <1>4 DEF process_event

-----------------------------------------------------------------------------
(* The invariant of the escalations, step by step.                         *)

LEMMA EscalationInvInit == Init => EscalationInv
  <1> SUFFICES ASSUME Init PROVE EscalationInv
    OBVIOUS
  <1>1. EventTypes
    BY EventInvInit DEF EventInv
  <1>2. AlertTypes
    BY DEF Init, EventsInit, AlertTypes
  <1>3. escalations = {} /\ todo = {} /\ Len(alerts) = 0
    BY DEF Init, EventsInit
  <1> QED BY <1>1, <1>2, <1>3 DEF EscalationInv, OneRow, AlertsOfEvents, StepsBehind, RowsOnce,
                                   RecoveryToTheTold

LEMMA OtherTables ==
  ASSUME EscalationInv, EventTypes', UNCHANGED <<events, escalations, todo, alerts, outbox, tried>>
  PROVE  EscalationInv'
  BY DEF EscalationInv, AlertTypes, OfItsEvents, OneRow, AlertsOfEvents, StepsBehind, NotAhead,
         RowsOnce, RecoveryToTheTold, Problem, SameKey

LEMMA EventEscalations ==
  ASSUME ProblemActions, EscalationInv, EventTypes', NEW t \in Triggers, NEW v \in Values,
         process_event(t, v), UNCHANGED <<todo, alerts, outbox, tried>>
  PROVE  EscalationInv'
  <1>1. /\ escalations' \in SUBSET EscalationRow
        /\ OneRow(escalations)'
        /\ \A x \in escalations' : OfItsEvents(x)'
        /\ \A x \in escalations' :
               \/ x.eventid = Len(events) + 1 /\ x.esc_step = 0
               \/ \E e \in escalations : SameKey(x, e) /\ x.esc_step = e.esc_step
                                         /\ (x.status = "active" => e.status = "active")
    BY StartedAndStopped DEF OneRow
  <1>2. /\ Len(events) \in Nat
        /\ Len(events') = Len(events) + 1
        /\ \A k \in 1 .. Len(events) : events'[k] = events[k]
    BY EventAppended DEF EscalationInv, EventTypes, process_event
  <1>3. AlertTypes' /\ OneRow(todo)'
    BY <1>1 DEF EscalationInv, AlertTypes, OneRow
  <1>4. ASSUME NEW e \in todo' PROVE OfItsEvents(e)'
    BY <1>2 DEF OfItsEvents, EscalationInv
  <1>5. AlertsOfEvents' /\ RowsOnce' /\ RecoveryToTheTold'
    BY <1>2, AlertsKept DEF EscalationInv, Differ
  <1>6. StepsBehind'
    <2> SUFFICES ASSUME NEW x \in escalations' \cup todo', NEW k \in 1 .. Len(alerts)
                 PROVE  NotAhead(alerts[k], x)
      BY DEF StepsBehind
    <2>1. alerts[k].eventid \in 1 .. Len(events)
      BY DEF EscalationInv, AlertsOfEvents
    <2>2. CASE x \in todo'
      BY <2>2 DEF EscalationInv, StepsBehind
    <2>3. CASE x.eventid = Len(events) + 1
      BY <1>2, <2>1, <2>3 DEF NotAhead, SameKey
    <2>4. CASE \E e \in escalations : SameKey(x, e) /\ x.esc_step = e.esc_step
                                      /\ (x.status = "active" => e.status = "active")
      BY <2>4 DEF EscalationInv, StepsBehind, NotAhead, SameKey
    <2> QED BY <1>1, <2>2, <2>3, <2>4
  <1> QED BY <1>1, <1>3, <1>4, <1>5, <1>6 DEF EscalationInv

LEMMA SelectEscalationsInv ==
  ASSUME EscalationInv, EventTypes', SelectEscalations
  PROVE  EscalationInv'
  <1>1. todo' \in SUBSET escalations /\ UNCHANGED <<events, escalations, alerts, outbox, tried>>
    BY DEF SelectEscalations, alerter, eventvars
  <1>2. AlertTypes' /\ OneRow(todo)' /\ OneRow(escalations)'
    BY <1>1 DEF EscalationInv, AlertTypes, OneRow
  <1>3. ASSUME NEW e \in escalations' \cup todo' PROVE OfItsEvents(e)'
    BY <1>1 DEF EscalationInv, OfItsEvents
  <1>4. AlertsOfEvents' /\ RowsOnce' /\ RecoveryToTheTold'
    BY <1>1 DEF EscalationInv, AlertsOfEvents, RowsOnce, RecoveryToTheTold, Problem
  <1>5. StepsBehind'
    BY <1>1 DEF EscalationInv, StepsBehind
  <1> QED BY <1>2, <1>3, <1>4, <1>5 DEF EscalationInv

(* Rows that were not worked on are not ahead after new alerts of another  *)
(* event or escalation.                                                    *)
LEMMA OthersNotAhead ==
  ASSUME EscalationInv, NEW x \in escalations \cup todo, NEW e \in EscalationRow, NEW eventid \in Nat,
         NEW step \in Nat, NEW msgs \in SUBSET MsgRow, add_message_alerts(e, eventid, step, msgs),
         ~(x.actionid = e.actionid /\ x.eventid = eventid),
         NEW k \in 1 .. Len(alerts')
  PROVE  NotAhead(alerts'[k], x)
  <1>0. alerts \in Seq(AlertRow)
    BY DEF EscalationInv, AlertTypes
  <1>1. CASE k \in 1 .. Len(alerts)
    <2>1. alerts'[k] = alerts[k]
      BY <1>0, <1>1, AlertsAdded
    <2> QED BY <1>1, <2>1 DEF EscalationInv, StepsBehind
  <1>2. CASE k > Len(alerts)
    <2>0. \A i \in 1 .. Len(alerts') : i > Len(alerts) =>
             alerts'[i].actionid = e.actionid /\ alerts'[i].eventid = eventid
      BY <1>0, AlertsAdded
    <2>1. alerts'[k].actionid = e.actionid /\ alerts'[k].eventid = eventid
      BY <1>2, <2>0
    <2> QED BY <2>1 DEF NotAhead, SameKey
  <1>3. Len(alerts) \in Nat /\ Len(alerts') \in Nat
    BY <1>0, AlertsAdded
  <1> QED BY <1>1, <1>2, <1>3

LEMMA ExecuteActiveInv ==
  ASSUME EscalationInv, EventTypes', NEW e \in todo, ExecuteActive(e)
  PROVE  EscalationInv'
  <1> PICK step : step = NextStep(e)
    OBVIOUS
  <1> PICK msgs : msgs = UserMsgs(OperationsOf(e.actionid, step))
    OBVIOUS
  <1>1. /\ e \in EscalationRow /\ e.status = "active" /\ OfItsEvents(e)
        /\ escalations \in SUBSET EscalationRow /\ OneRow(escalations) /\ OneRow(todo)
        /\ \A x \in escalations \cup todo : OfItsEvents(x)
        /\ alerts \in Seq(AlertRow) /\ todo \in SUBSET EscalationRow
        /\ AlertsOfEvents /\ RowsOnce /\ RecoveryToTheTold
    BY DEF EscalationInv, AlertTypes, ExecuteActive
  <1>2. /\ step \in Nat /\ e.esc_step \in Nat /\ e.eventid \in Nat
        /\ step = IF e.actionid \in EscPeriod THEN e.esc_step + 1 ELSE e.esc_step
    BY <1>1 DEF NextStep, EscalationRow
  <1>3. msgs \in SUBSET MsgRow
    BY EscalationsAssumption DEF EscalationsAssumption, OperationsOf, UserMsgs, MsgRow
  <1>4. /\ UNCHANGED <<events, outbox, tried>>
        /\ todo' = todo \ {e}
        /\ add_message_alerts(e, e.eventid, step, msgs)
    BY DEF ExecuteActive, eventvars, alerter
  <1>5. PICK status \in {"active", "sleep", "completed"} :
           /\ \E due \in BOOLEAN : WriteBack(e, step, status, due)
           /\ status = "active" => e.actionid \in EscPeriod
    BY DEF ExecuteActive, Finished
  <1>6. /\ escalations' \in SUBSET EscalationRow
        /\ OneRow(escalations)'
        /\ \A x \in escalations' : OfItsEvents(x)'
        /\ \A x \in escalations' : \/ x \in escalations /\ ~SameKey(x, e)
                                   \/ SameKey(x, e) /\ x.esc_step = step /\ x.status = status
    <2>1. \A x \in escalations : OfItsEvents(x)
      BY <1>1
    <2>2. /\ escalations' \in SUBSET EscalationRow
          /\ \A x, y \in escalations' : SameKey(x, y) => x = y
          /\ \A x \in escalations' : OfItsEvents(x)'
          /\ \A x \in escalations' : \/ x \in escalations /\ ~SameKey(x, e)
                                     \/ SameKey(x, e) /\ x.esc_step = step /\ x.status = status
      <3>1. UNCHANGED events /\ step \in Nat /\ escalations \in SUBSET EscalationRow /\ OneRow(escalations)
        BY <1>1, <1>2, <1>4
      <3>2. \E due \in BOOLEAN : WriteBack(e, step, status, due)
        BY <1>5
      <3>3. status \in {"active", "sleep", "completed"}
        OBVIOUS
      <3>4. escalations' \in SUBSET EscalationRow
        BY <2>1, <3>1, <3>2, <3>3, WrittenBack
      <3>5. \A x, y \in escalations' : SameKey(x, y) => x = y
        BY <2>1, <3>1, <3>2, <3>3, WrittenBack
      <3>6. \A x \in escalations' : OfItsEvents(x)'
        BY <2>1, <3>1, <3>2, <3>3, WrittenBack
      <3>7. \A x \in escalations' : SameKey(x, e) \/ x \in escalations
        BY <3>1, <3>2 DEF WriteBack, Row, SameKey, EscalationRow
      <3>8. \A x \in escalations' : SameKey(x, e) => x.esc_step = step
        BY <2>1, <3>1, <3>2, <3>3, WrittenBack
      <3>9. \A x \in escalations' : SameKey(x, e) => x.status = status
        BY <2>1, <3>1, <3>2, <3>3, WrittenBack
      <3> QED BY <3>4, <3>5, <3>6, <3>7, <3>8, <3>9
    <2> QED BY <2>2 DEF OneRow
  <1>7. alerts' \in Seq(AlertRow)
    BY <1>1, <1>2, <1>3, <1>4, AlertsAdded
  <1>8. AlertTypes' /\ OneRow(todo)'
    BY <1>1, <1>4, <1>6, <1>7 DEF EscalationInv, AlertTypes, OneRow
  <1>9. ASSUME NEW x \in todo' PROVE OfItsEvents(x)'
    BY <1>1, <1>4 DEF OfItsEvents
  <1>10. AlertsOfEvents' /\ RowsOnce' /\ RecoveryToTheTold'
    <2>1. e.eventid \in 1 .. Len(events) /\ events[e.eventid].value = TRUEVALUE
      BY <1>1 DEF OfItsEvents
    <2>2. ASSUME NEW k \in 1 .. Len(alerts), alerts[k].actionid = e.actionid, alerts[k].eventid = e.eventid
          PROVE  alerts[k].esc_step # step
      <3>1. NotAhead(alerts[k], e)
        BY DEF EscalationInv, StepsBehind
      <3>2. alerts[k].esc_step \in Nat
        BY <1>1, AlertFields
      <3> QED BY <1>1, <1>2, <2>2, <3>1, <3>2 DEF NotAhead, SameKey
    <2> QED BY <1>1, <1>2, <1>3, <1>4, <2>1, <2>2, AlertsExtended
  <1>11. StepsBehind'
    <2> SUFFICES ASSUME NEW x \in escalations' \cup todo', NEW k \in 1 .. Len(alerts')
                 PROVE  NotAhead(alerts'[k], x)
      BY DEF StepsBehind
    <2>1. CASE x \in todo'
      <3>1. x \in todo /\ ~(x.actionid = e.actionid /\ x.eventid = e.eventid)
        BY <1>1, <1>4, <2>1 DEF OneRow, SameKey
      <3> QED BY <1>1, <1>2, <1>3, <1>4, <3>1, OthersNotAhead
    <2>2. CASE x \in escalations /\ ~SameKey(x, e)
      <3>1. ~(x.actionid = e.actionid /\ x.eventid = e.eventid)
        BY <2>2 DEF SameKey
      <3> QED BY <1>1, <1>2, <1>3, <1>4, <2>2, <3>1, OthersNotAhead
    <2>3. CASE SameKey(x, e) /\ x.esc_step = step /\ x.status = status
      <3>1. CASE e.actionid \in EscPeriod
        <4>1. Len(alerts) \in Nat /\ Len(alerts') \in Nat
          BY <1>1, <1>2, <1>3, <1>4, AlertsAdded
        <4>2. CASE k > Len(alerts)
          <5>1. alerts'[k].esc_step = step
            BY <1>1, <1>2, <1>3, <1>4, <4>2, AlertsAdded
          <5> QED BY <1>2, <2>3, <3>1, <5>1 DEF NotAhead, SameKey
        <4>3. CASE k \in 1 .. Len(alerts)
          <5>1. alerts'[k] = alerts[k]
            BY <1>1, <1>2, <1>3, <1>4, <4>3, AlertsAdded
          <5>2. NotAhead(alerts[k], e)
            BY <4>3 DEF EscalationInv, StepsBehind
          <5>3. alerts[k].esc_step \in Nat
            BY <1>1, <4>3, AlertFields
          <5> QED BY <1>2, <2>3, <3>1, <5>1, <5>2, <5>3 DEF NotAhead, SameKey
        <4> QED BY <4>1, <4>2, <4>3
      <3>2. CASE e.actionid \notin EscPeriod
        BY <1>5, <2>3, <3>2 DEF NotAhead, SameKey
      <3> QED BY <3>1, <3>2
    <2> QED BY <1>6, <2>1, <2>2, <2>3
  <1> QED BY <1>6, <1>8, <1>9, <1>10, <1>11 DEF EscalationInv

LEMMA ExecuteRecoveryInv ==
  ASSUME EscalationInv, EventTypes', NEW e \in todo, ExecuteRecovery(e)
  PROVE  EscalationInv'
  <1> PICK msgs : msgs = [userid: Recipients(e), msg: {None}]
    OBVIOUS
  <1>1. /\ e \in EscalationRow /\ e.status = "recovery" /\ OfItsEvents(e)
        /\ escalations \in SUBSET EscalationRow /\ OneRow(escalations) /\ OneRow(todo)
        /\ \A x \in escalations \cup todo : OfItsEvents(x)
        /\ alerts \in Seq(AlertRow) /\ todo \in SUBSET EscalationRow
        /\ AlertsOfEvents /\ RowsOnce /\ RecoveryToTheTold
    BY DEF EscalationInv, AlertTypes, ExecuteRecovery
  <1>2. ASSUME NEW p \in msgs
        PROVE  /\ p = [userid |-> p.userid, msg |-> None]
               /\ \E i \in 1 .. Len(alerts) :
                     /\ alerts[i].actionid = e.actionid /\ alerts[i].eventid = e.eventid
                     /\ alerts[i].userid = p.userid
    BY DEF Recipients, Told
  <1>3. msgs \in SUBSET MsgRow
    <2> SUFFICES ASSUME NEW p \in msgs PROVE p \in MsgRow
      OBVIOUS
    <2>1. PICK i \in 1 .. Len(alerts) : alerts[i].userid = p.userid
      BY <1>2
    <2>2. p.userid \in Users
      BY <1>1, <2>1, AlertFields
    <2> QED BY <1>2, <2>2 DEF MsgRow
  <1>4. /\ UNCHANGED <<events, outbox, tried>>
        /\ todo' = todo \ {e}
        /\ UNCHANGED alerts \/ add_message_alerts(e, e.r_eventid, 0, msgs)
        /\ WriteBack(e, 0, "completed", TRUE)
    BY DEF ExecuteRecovery, eventvars, alerter
  <1>5. /\ escalations' \in SUBSET EscalationRow
        /\ OneRow(escalations)'
        /\ \A x \in escalations' : OfItsEvents(x)'
        /\ escalations' \subseteq escalations
    BY <1>1, <1>4, WrittenBack DEF OneRow, WriteBack
  <1>6. OneRow(todo)'
    BY <1>1, <1>4 DEF OneRow
  <1>7. ASSUME NEW x \in todo' PROVE OfItsEvents(x)'
    BY <1>1, <1>4 DEF OfItsEvents
  <1>8. CASE UNCHANGED alerts
    <2>1. AlertTypes'
      BY <1>1, <1>4, <1>5, <1>8 DEF EscalationInv, AlertTypes
    <2>2. AlertsOfEvents' /\ RowsOnce' /\ RecoveryToTheTold'
      BY <1>4, <1>8 DEF EscalationInv, AlertsOfEvents, RowsOnce, RecoveryToTheTold, Problem
    <2>3. StepsBehind'
      BY <1>4, <1>5, <1>8 DEF EscalationInv, StepsBehind
    <2> QED BY <1>5, <1>6, <1>7, <2>1, <2>2, <2>3 DEF EscalationInv
  <1>9. CASE add_message_alerts(e, e.r_eventid, 0, msgs)
    <2>1. /\ e.r_eventid \in 1 .. Len(events)
          /\ events[e.r_eventid].value # TRUEVALUE
          /\ events[e.r_eventid].objectid = events[e.eventid].objectid
          /\ events[e.eventid].value = TRUEVALUE
      BY <1>1 DEF OfItsEvents
    <2>2. e.r_eventid \in Nat
      BY <1>1 DEF EscalationRow
    <2>3. alerts' \in Seq(AlertRow)
      BY <1>1, <1>3, <1>9, <2>2, AlertsAdded
    <2>4. AlertTypes'
      BY <1>1, <1>4, <1>5, <2>3 DEF EscalationInv, AlertTypes
    <2>5. \A p \in msgs : \E i \in 1 .. Len(alerts) :
              /\ events[alerts[i].eventid].value = TRUEVALUE
              /\ alerts[i].actionid = e.actionid /\ alerts[i].userid = p.userid
              /\ events[alerts[i].eventid].objectid = events[e.r_eventid].objectid
      BY <1>2, <2>1
    <2>6. AlertsOfEvents' /\ RowsOnce' /\ RecoveryToTheTold'
      BY <1>1, <1>3, <1>4, <1>9, <2>1, <2>2, <2>5, AlertsExtended
    <2>7. StepsBehind'
      <3> SUFFICES ASSUME NEW x \in escalations' \cup todo', NEW k \in 1 .. Len(alerts')
                   PROVE  NotAhead(alerts'[k], x)
        BY DEF StepsBehind
      <3>1. x \in escalations \cup todo
        BY <1>4, <1>5
      <3>2. x.eventid # e.r_eventid
        BY <1>1, <2>1, <3>1 DEF OfItsEvents
      <3> QED BY <1>1, <1>3, <1>9, <2>2, <3>1, <3>2, OthersNotAhead
    <2> QED BY <1>5, <1>6, <1>7, <2>4, <2>6, <2>7 DEF EscalationInv
  <1> QED BY <1>4, <1>8, <1>9

LEMMA UpdateAlertInv ==
  ASSUME EscalationInv, EventTypes', UpdateAlert
  PROVE  EscalationInv'
  <1>1. /\ tried \in [alertid: Nat, retries: Nat, sent: BOOLEAN]
        /\ alerts \in Seq(AlertRow)
        /\ UNCHANGED <<events, escalations, todo, outbox>> /\ tried' = None
        /\ alerts' = [alerts EXCEPT ![tried.alertid] =
                         IF tried.sent THEN [@ EXCEPT !.status = "sent"] ELSE AfterFailure(tried)]
    BY DEF UpdateAlert, EscalationInv, AlertTypes, eventvars, escalator
  <1>2. PICK id \in Nat, retries \in Nat : id = tried.alertid /\ retries = tried.retries
    BY <1>1
  <1>3. ASSUME NEW a \in AlertRow
        PROVE  /\ [a EXCEPT !.status = "sent"] \in AlertRow
               /\ ~Differ(a, [a EXCEPT !.status = "sent"])
    BY DEF AlertRow, Differ
  <1>4. ASSUME NEW a \in AlertRow, NEW b,
               b = [a EXCEPT !.retries = retries + 1,
                        !.status = IF retries + 1 < ALERT_MAX_RETRIES THEN @ ELSE "failed"]
        PROVE  b \in AlertRow /\ ~Differ(a, b)
    <2>1. PICK status : status = IF retries + 1 < ALERT_MAX_RETRIES THEN a.status ELSE "failed"
      OBVIOUS
    <2>2. status \in {"not_sent", "sent", "failed"}
      BY <2>1 DEF AlertRow
    <2> PICK n \in Nat : n = retries + 1
      OBVIOUS
    <2>3. b = [a EXCEPT !.retries = n, !.status = status]
      BY <1>4, <2>1 DEF AlertRow
    <2>4. b \in AlertRow
      BY <2>2, <2>3 DEF AlertRow
    <2>5. ~Differ(a, b)
      BY <2>3 DEF AlertRow, Differ
    <2> QED BY <2>4, <2>5
  <1>5. ASSUME NEW k \in 1 .. Len(alerts)
        PROVE  alerts'[k] \in AlertRow /\ ~Differ(alerts[k], alerts'[k])
    <2>0. alerts[k] \in AlertRow
      BY <1>1
    <2>1. CASE k # id
      BY <1>1, <1>2, <2>0, <2>1 DEF Differ
    <2>2. CASE k = id /\ tried.sent
      <3>1. alerts'[k] = [alerts[k] EXCEPT !.status = "sent"]
        BY <1>1, <1>2, <2>2
      <3> QED BY <1>3, <2>0, <3>1
    <2>3. CASE k = id /\ ~tried.sent
      <3>1. alerts'[k] = AfterFailure(tried)
        BY <1>1, <1>2, <2>3
      <3>2. AfterFailure(tried) =
               [alerts[k] EXCEPT !.retries = retries + 1,
                    !.status = IF retries + 1 < ALERT_MAX_RETRIES THEN @ ELSE "failed"]
        BY <1>2, <2>3 DEF AfterFailure
      <3> QED BY <1>4, <2>0, <3>1, <3>2
    <2> QED BY <2>1, <2>2, <2>3
  <1>6. alerts' \in Seq(AlertRow) /\ Len(alerts') = Len(alerts)
    <2>1. DOMAIN alerts' = 1 .. Len(alerts) /\ Len(alerts) \in Nat
      BY <1>1
    <2>2. PICK r : alerts' = [alerts EXCEPT ![id] = r]
      BY <1>1, <1>2
    <2>3. alerts \in [1 .. Len(alerts) -> AlertRow]
      BY <1>1
    <2>4. alerts' \in [1 .. Len(alerts) -> AlertRow]
      <3>1. CASE id \in 1 .. Len(alerts)
        <4>1. r \in AlertRow
          BY <1>5, <2>2, <2>3, <3>1
        <4> QED BY <2>2, <2>3, <4>1
      <3>2. CASE id \notin 1 .. Len(alerts)
        BY <2>2, <2>3, <3>2
      <3> QED BY <3>1, <3>2
    <2> QED BY <2>1, <2>4
  <1>7. AlertTypes'
    BY <1>1, <1>6 DEF EscalationInv, AlertTypes
  <1>8. AlertsOfEvents' /\ RowsOnce' /\ RecoveryToTheTold'
    <2>1. Len(events) \in Nat
      BY DEF EscalationInv, EventTypes
    <2>2. AlertsOfEvents /\ RowsOnce /\ RecoveryToTheTold
      BY DEF EscalationInv
    <2> QED BY <1>1, <1>5, <1>6, <2>1, <2>2, AlertsKept
  <1>9. StepsBehind'
    BY <1>1, <1>5, <1>6 DEF EscalationInv, StepsBehind, NotAhead, SameKey, Differ
  <1> QED BY <1>1, <1>7, <1>8, <1>9 DEF EscalationInv, OfItsEvents, OneRow

(* The alerter's list and its last attempt, and a restart.                 *)
LEMMA OtherLists ==
  ASSUME EscalationInv, EventTypes', UNCHANGED <<events, escalations, alerts>>,
         UNCHANGED todo \/ todo' = {},
         outbox' \in SUBSET [alertid: Nat, retries: Nat],
         tried' \in [alertid: Nat, retries: Nat, sent: BOOLEAN] \cup {None}
  PROVE  EscalationInv'
  <1>1. todo' \subseteq todo
    OBVIOUS
  <1>2. AlertTypes' /\ OneRow(todo)'
    BY <1>1 DEF EscalationInv, AlertTypes, OneRow
  <1>3. ASSUME NEW e \in escalations' \cup todo' PROVE OfItsEvents(e)'
    BY <1>1 DEF EscalationInv, OfItsEvents
  <1>4. AlertsOfEvents' /\ RowsOnce' /\ RecoveryToTheTold'
    BY DEF EscalationInv, AlertsOfEvents, RowsOnce, RecoveryToTheTold, Problem
  <1>5. StepsBehind'
    BY <1>1 DEF EscalationInv, StepsBehind
  <1>6. OneRow(escalations)'
    BY DEF EscalationInv, OneRow
  <1> QED BY <1>2, <1>3, <1>4, <1>5, <1>6 DEF EscalationInv

LEMMA SelectAlertsInv ==
  ASSUME EscalationInv, EventTypes', SelectAlerts
  PROVE  EscalationInv'
  <1>1. /\ UNCHANGED <<events, escalations, alerts, todo, tried>>
        /\ outbox' = {[alertid |-> k, retries |-> alerts[k].retries] : k \in Unsent}
    BY DEF SelectAlerts, eventvars, escalator
  <1>2. ASSUME NEW k \in Unsent PROVE k \in Nat /\ alerts[k].retries \in Nat
    <2>1. k \in 1 .. Len(alerts)
      BY DEF Unsent
    <2>2. alerts[k] \in AlertRow
      BY <2>1 DEF EscalationInv, AlertTypes
    <2> QED BY <2>1, <2>2 DEF AlertRow
  <1>3. outbox' \in SUBSET [alertid: Nat, retries: Nat]
    BY <1>1, <1>2
  <1>4. tried' \in [alertid: Nat, retries: Nat, sent: BOOLEAN] \cup {None}
    BY <1>1 DEF EscalationInv, AlertTypes
  <1> QED BY <1>1, <1>3, <1>4, OtherLists

LEMMA execute_actionInv ==
  ASSUME EscalationInv, EventTypes', execute_action
  PROVE  EscalationInv'
  <1>1. UNCHANGED <<events, escalations, alerts, todo>>
    BY DEF execute_action, eventvars, escalator
  <1>2. PICK a \in outbox, ok \in BOOLEAN :
           outbox' = outbox \ {a} /\ tried' = [alertid |-> a.alertid, retries |-> a.retries, sent |-> ok]
    BY DEF execute_action
  <1>3. outbox \in SUBSET [alertid: Nat, retries: Nat]
    BY DEF EscalationInv, AlertTypes
  <1>4. outbox' \in SUBSET [alertid: Nat, retries: Nat]
    BY <1>2, <1>3
  <1>5. tried' \in [alertid: Nat, retries: Nat, sent: BOOLEAN] \cup {None}
    BY <1>2, <1>3
  <1> QED BY <1>1, <1>4, <1>5, OtherLists

LEMMA EscalationInvStep == ProblemActions /\ EscalationInv /\ [Next]_vars => EscalationInv'
  <1> SUFFICES ASSUME ProblemActions, EscalationInv, [Next]_vars PROVE EscalationInv'
    OBVIOUS
  <1>0. EventTypes
    BY DEF EscalationInv
  <1>1. CASE EventsNext /\ UNCHANGED <<escalator, alerts, alerter, restarts>>
    <2>0. UNCHANGED <<todo, alerts, outbox, tried>>
      BY <1>1 DEF escalator, alerter
    <2>1. ASSUME NEW u \in Updaters, Evaluate(u) PROVE EscalationInv'
      <3>1. UNCHANGED <<events, escalations>>
        BY <2>1 DEF Evaluate
      <3> QED BY <1>0, <2>0, <2>1, <3>1, EvaluateTypes, OtherTables
    <2>2. ASSUME NEW u \in Updaters, CheckTrigger(u) PROVE EscalationInv'
      <3>1. UNCHANGED <<events, escalations>>
        BY <2>2 DEF CheckTrigger
      <3> QED BY <1>0, <2>0, <2>2, <3>1, CheckTriggerTypes, OtherTables
    <2>3. ASSUME NEW u \in Updaters, DBupdate_trigger_value(u) PROVE EscalationInv'
      <3> PICK t, v : t = upd[u].triggerid /\ v = upd[u].new
        OBVIOUS
      <3>1. /\ EventTypes'
            /\ t \in Triggers /\ v \in Values
            /\ UNCHANGED <<events, escalations>> \/ process_event(t, v)
        BY <1>0, <2>3, UpdateTypes DEF Update
      <3>2. CASE UNCHANGED <<events, escalations>>
        BY <2>0, <3>1, <3>2, OtherTables
      <3>3. CASE process_event(t, v)
        BY <2>0, <3>1, <3>3, EventEscalations
      <3> QED BY <3>1, <3>2, <3>3
    <2>4. ASSUME Configure PROVE EscalationInv'
      <3>1. EventTypes'
        BY <1>0, <2>4, OtherSteps, OtherEventTypes
      <3>2. UNCHANGED <<events, escalations>>
        BY <2>4 DEF Configure, eventvars
      <3> QED BY <2>0, <3>1, <3>2, OtherTables
    <2> QED BY <1>1, <2>1, <2>2, <2>3, <2>4 DEF EventsNext
  <1>2. CASE Escalate \/ Send \/ Restart \/ UNCHANGED vars
    <2>1. EventTypes'
      BY <1>0, <1>2, OtherSteps, OtherEventTypes
    <2>2. CASE SelectEscalations
      BY <2>1, <2>2, SelectEscalationsInv
    <2>3. ASSUME NEW e \in todo, ExecuteActive(e) PROVE EscalationInv'
      BY <2>1, <2>3, ExecuteActiveInv
    <2>4. ASSUME NEW e \in todo, ExecuteRecovery(e) PROVE EscalationInv'
      BY <2>1, <2>4, ExecuteRecoveryInv
    <2>5. CASE SelectAlerts
      BY <2>1, <2>5, SelectAlertsInv
    <2>6. CASE execute_action
      BY <2>1, <2>6, execute_actionInv
    <2>7. CASE UpdateAlert
      BY <2>1, <2>7, UpdateAlertInv
    <2>8. CASE Restart
      BY <2>1, <2>8, OtherLists DEF Restart
    <2>9. CASE UNCHANGED vars
      BY <2>1, <2>9, OtherTables DEF vars, eventvars, escalator, alerter
    <2> QED BY <1>2, <2>2, <2>3, <2>4, <2>5, <2>6, <2>7, <2>8, <2>9 DEF Escalate, Send
  <1> QED BY <1>1, <1>2 DEF Next

-----------------------------------------------------------------------------
(* The invariant of the alerter.                                           *)

LEMMA SendInvInit == Init => SendInv
  BY EscalationInvInit DEF Init, SendInv, AlerterInv, SentNow

(* The escalator only appends to the alerts.                               *)
LEMMA AlertsGrow ==
  ASSUME EscalationInv, NEW e \in todo, ExecuteActive(e) \/ ExecuteRecovery(e)
  PROVE  /\ Len(alerts) \in Nat /\ Len(alerts') \in Nat /\ Len(alerts) <= Len(alerts')
         /\ \A k \in 1 .. Len(alerts) : alerts'[k] = alerts[k]
  <1>1. e \in EscalationRow /\ alerts \in Seq(AlertRow) /\ OfItsEvents(e)
    BY DEF EscalationInv, AlertTypes
  <1>2. CASE ExecuteActive(e)
    <2> PICK step : step = NextStep(e)
      OBVIOUS
    <2>1. step \in Nat /\ e.eventid \in Nat
      BY <1>1 DEF NextStep, EscalationRow
    <2> PICK msgs : msgs = UserMsgs(OperationsOf(e.actionid, step))
      OBVIOUS
    <2>2. msgs \in SUBSET MsgRow
      BY EscalationsAssumption DEF EscalationsAssumption, OperationsOf, UserMsgs, MsgRow
    <2>3. add_message_alerts(e, e.eventid, step, msgs)
      BY <1>2 DEF ExecuteActive
    <2> QED BY <1>1, <2>1, <2>2, <2>3, AlertsAdded
  <1>3. CASE ExecuteRecovery(e)
    <2> PICK msgs : msgs = [userid: Recipients(e), msg: {None}]
      OBVIOUS
    <2>1. Recipients(e) \in SUBSET Users
      BY <1>1, AlertFields DEF Recipients, Told
    <2>2. msgs \in SUBSET MsgRow
      BY <2>1 DEF MsgRow
    <2>3. e.r_eventid \in Nat /\ 0 \in Nat
      BY <1>1 DEF EscalationRow
    <2>4. UNCHANGED alerts \/ add_message_alerts(e, e.r_eventid, 0, msgs)
      BY <1>3 DEF ExecuteRecovery
    <2>5. CASE UNCHANGED alerts
      BY <1>1, <2>5
    <2>6. CASE add_message_alerts(e, e.r_eventid, 0, msgs)
      BY <1>1, <2>2, <2>3, <2>6, AlertsAdded
    <2> QED BY <2>4, <2>5, <2>6
  <1> QED BY <1>2, <1>3

(* The steps of the others.                                                *)
LEMMA OthersAlerter ==
  ASSUME AlerterInv, UNCHANGED <<outbox, tried, delivered, restarts>>,
         Len(alerts) \in Nat, Len(alerts') \in Nat, Len(alerts) <= Len(alerts'),
         \A k \in 1 .. Len(alerts) : alerts'[k] = alerts[k]
  PROVE  AlerterInv'
  <1>1. \A k : SentNow(k)' = SentNow(k)
    BY DEF SentNow
  <1>2. \A k : SentNow(k) => k \in 1 .. Len(alerts)
    BY DEF AlerterInv, SentNow
  <1> QED BY <1>1, <1>2 DEF AlerterInv

LEMMA SelectAlertsAlerter ==
  ASSUME AlerterInv, SelectAlerts
  PROVE  AlerterInv'
  <1>1. /\ UNCHANGED <<alerts, tried, delivered, restarts>> /\ tried = None
        /\ outbox' = {[alertid |-> k, retries |-> alerts[k].retries] : k \in Unsent}
    BY DEF SelectAlerts
  <1>2. \A k : SentNow(k)' = SentNow(k)
    BY <1>1 DEF SentNow
  <1>3. \A k \in Unsent : k \in 1 .. Len(alerts) /\ ~SentNow(k)
    BY <1>1 DEF Unsent, AlerterInv
  <1>4. \A a \in outbox' : a.alertid \in Unsent /\ a.retries = alerts[a.alertid].retries
                             /\ a = [alertid |-> a.alertid, retries |-> a.retries]
    BY <1>1
  <1> HIDE DEF SentNow
  <1> QED BY <1>1, <1>2, <1>3, <1>4 DEF AlerterInv

LEMMA execute_actionAlerter ==
  ASSUME AlertTypes, AlerterInv, execute_action
  PROVE  AlerterInv'
  <1>1. PICK a \in outbox, ok \in BOOLEAN :
           /\ outbox' = outbox \ {a}
           /\ tried' = [alertid |-> a.alertid, retries |-> a.retries, sent |-> ok]
           /\ delivered' = IF ok THEN Append(delivered, [alertid |-> a.alertid, start |-> restarts])
                                 ELSE delivered
    BY DEF execute_action
  <1>2. tried = None /\ UNCHANGED <<alerts, restarts>>
    BY DEF execute_action
  <1>3. a \in [alertid: Nat, retries: Nat] /\ tried' # None
    <2>1. a \in [alertid: Nat, retries: Nat]
      BY DEF AlertTypes
    <2>2. tried' # None
      BY <1>1, <2>1, EscalationsAssumption DEF EscalationsAssumption
    <2> QED BY <2>1, <2>2
  <1> PICK id : id = a.alertid
    OBVIOUS
  <1>4. /\ tried'.alertid = id /\ tried'.sent = ok
        /\ id \in 1 .. Len(alerts) /\ ~SentNow(id)
        /\ \A b \in outbox' : b \in outbox /\ b.alertid # id
    BY <1>1 DEF AlerterInv
  <1>5. /\ delivered \in Seq(Delivery) /\ restarts \in Nat
        /\ \A i \in 1 .. Len(delivered) :
              delivered[i].alertid \in 1 .. Len(alerts) /\ delivered[i].start <= restarts
        /\ \A i, k \in 1 .. Len(delivered) : i < k /\ delivered[i].alertid = delivered[k].alertid
              => delivered[i].start # delivered[k].start
    BY DEF AlerterInv
  <1>6. CASE ~ok
    <2>1. delivered' = delivered
      BY <1>1, <1>6
    <2>2. \A k : SentNow(k)' = SentNow(k)
      BY <1>2, <2>1 DEF SentNow
    <2> HIDE DEF SentNow
    <2> QED BY <1>2, <1>4, <1>6, <2>1, <2>2 DEF AlerterInv
  <1>7. CASE ok
    <2> DEFINE d == [alertid |-> id, start |-> restarts]
               n == Len(delivered)
    <2>1. d \in Delivery /\ n \in Nat
      BY <1>3, <1>5 DEF Delivery
    <2>2. delivered' = Append(delivered, d)
      BY <1>1, <1>7
    <2>3. d.alertid = id /\ d.start = restarts
      OBVIOUS
    <2> HIDE DEF d
    <2>4. /\ delivered' \in Seq(Delivery)
          /\ Len(delivered') = n + 1
          /\ \A i \in 1 .. n : delivered'[i] = delivered[i]
          /\ delivered'[n + 1] = d
      BY <1>5, <2>1, <2>2, AppendProperties
    <2>5. \A i \in 1 .. Len(delivered') : i \in 1 .. n \/ i = n + 1
      BY <2>1, <2>4
    <2>6. \A k : SentNow(k)' => SentNow(k) \/ k = id
      BY <1>2, <2>3, <2>4, <2>5 DEF SentNow
    <2>7. \A i \in 1 .. n : delivered[i].alertid = id => delivered[i].start # restarts
      BY <1>4 DEF SentNow
    <2>8. \A i \in 1 .. Len(delivered') :
             delivered'[i].alertid \in 1 .. Len(alerts) /\ delivered'[i].start <= restarts
      <3> SUFFICES ASSUME NEW i \in 1 .. Len(delivered')
                   PROVE  delivered'[i].alertid \in 1 .. Len(alerts) /\ delivered'[i].start <= restarts
        OBVIOUS
      <3>1. CASE i \in 1 .. n
        BY <1>5, <2>4, <3>1
      <3>2. CASE i = n + 1
        BY <1>4, <1>5, <2>3, <2>4, <3>2
      <3> QED BY <2>5, <3>1, <3>2
    <2>9. ASSUME NEW i \in 1 .. Len(delivered'), NEW k \in 1 .. Len(delivered'),
                 i < k, delivered'[i].alertid = delivered'[k].alertid
          PROVE  delivered'[i].start # delivered'[k].start
      <3>1. i \in 1 .. n /\ delivered'[i] = delivered[i]
        BY <2>1, <2>4, <2>5, <2>9
      <3>2. CASE k \in 1 .. n
        BY <1>5, <2>4, <2>9, <3>1, <3>2
      <3>3. CASE k = n + 1
        BY <2>3, <2>4, <2>7, <2>9, <3>1, <3>3
      <3> QED BY <2>5, <3>2, <3>3
    <2> HIDE DEF SentNow
    <2>10. \A k \in 1 .. Len(alerts) : SentNow(k)' =>
              alerts[k].status = "sent" \/ (tried'.alertid = k /\ tried'.sent)
      BY <1>2, <1>4, <1>7, <2>6 DEF AlerterInv
    <2>11. \A b \in outbox' : b.alertid \in 1 .. Len(alerts) /\ ~SentNow(b.alertid)'
      BY <1>4, <2>6 DEF AlerterInv
    <2>12. \A b, c \in outbox' : b.alertid = c.alertid => b = c
      BY <1>4 DEF AlerterInv
    <2> QED BY <1>2, <1>3, <1>4, <1>5, <1>7, <2>4, <2>8, <2>9, <2>10, <2>11, <2>12 DEF AlerterInv
  <1> QED BY <1>6, <1>7

LEMMA UpdateAlertAlerter ==
  ASSUME AlertTypes, AlerterInv, UpdateAlert
  PROVE  AlerterInv'
  <1>1. /\ tried # None /\ tried' = None
        /\ UNCHANGED <<outbox, delivered, restarts>>
        /\ alerts' = [alerts EXCEPT ![tried.alertid] =
                         IF tried.sent THEN [@ EXCEPT !.status = "sent"] ELSE AfterFailure(tried)]
    BY DEF UpdateAlert
  <1> PICK id : id = tried.alertid
    OBVIOUS
  <1>2. id \in 1 .. Len(alerts) /\ alerts \in Seq(AlertRow)
    BY <1>1 DEF AlerterInv, AlertTypes
  <1>3. Len(alerts') = Len(alerts) /\ \A k \in 1 .. Len(alerts) : k # id => alerts'[k] = alerts[k]
    BY <1>1, <1>2
  <1>4. \A k : SentNow(k)' = SentNow(k)
    BY <1>1 DEF SentNow
  <1>5. ASSUME tried.sent PROVE alerts'[id].status = "sent"
    <2>1. alerts[id] \in AlertRow
      BY <1>2
    <2>2. alerts'[id] = [alerts[id] EXCEPT !.status = "sent"]
      BY <1>1, <1>2, <1>5
    <2> QED BY <2>1, <2>2 DEF AlertRow
  <1> HIDE DEF SentNow
  <1>6. \A k \in 1 .. Len(alerts) : SentNow(k) => alerts'[k].status = "sent"
    BY <1>1, <1>3, <1>5 DEF AlerterInv
  <1> QED BY <1>1, <1>3, <1>4, <1>6 DEF AlerterInv

LEMMA RestartAlerter ==
  ASSUME AlerterInv, Restart
  PROVE  AlerterInv'
  <1>1. /\ restarts' = restarts + 1 /\ outbox' = {} /\ tried' = None
        /\ UNCHANGED <<alerts, delivered>>
    BY DEF Restart
  <1>2. /\ delivered \in Seq(Delivery) /\ restarts \in Nat
        /\ \A i \in 1 .. Len(delivered) :
              delivered[i].alertid \in 1 .. Len(alerts) /\ delivered[i].start <= restarts
    BY DEF AlerterInv
  <1>3. \A i \in 1 .. Len(delivered) : delivered[i].start <= restarts' /\ delivered[i].start # restarts'
    <2> SUFFICES ASSUME NEW i \in 1 .. Len(delivered)
                 PROVE  delivered[i].start <= restarts' /\ delivered[i].start # restarts'
      OBVIOUS
    <2>1. delivered[i] \in Delivery
      BY <1>2
    <2>2. delivered[i].start \in Nat
      BY <2>1 DEF Delivery
    <2> QED BY <1>1, <1>2, <2>2
  <1>4. \A k : ~SentNow(k)'
    BY <1>1, <1>3 DEF SentNow
  <1> HIDE DEF SentNow
  <1> QED BY <1>1, <1>2, <1>3, <1>4 DEF AlerterInv

LEMMA SendInvStep == ProblemActions /\ SendInv /\ [Next]_vars => SendInv'
  <1> SUFFICES ASSUME ProblemActions, SendInv, [Next]_vars PROVE AlerterInv'
    BY EscalationInvStep DEF SendInv
  <1>0. EscalationInv /\ AlerterInv /\ AlertTypes
    BY DEF SendInv, EscalationInv
  <1>1. Len(alerts) \in Nat
    BY <1>0 DEF AlertTypes
  <1>2. ASSUME UNCHANGED <<alerts, outbox, tried, delivered, restarts>> PROVE AlerterInv'
    BY <1>0, <1>1, <1>2, OthersAlerter
  <1>3. CASE EventsNext /\ UNCHANGED <<escalator, alerts, alerter, restarts>>
    BY <1>2, <1>3 DEF alerter
  <1>4. CASE SelectEscalations
    BY <1>2, <1>4 DEF SelectEscalations, alerter
  <1>5. ASSUME NEW e \in todo, ExecuteActive(e) \/ ExecuteRecovery(e) PROVE AlerterInv'
    <2>1. UNCHANGED <<outbox, tried, delivered, restarts>>
      BY <1>5 DEF ExecuteActive, ExecuteRecovery, alerter
    <2> QED BY <1>0, <1>5, <2>1, AlertsGrow, OthersAlerter
  <1>6. CASE SelectAlerts
    BY <1>0, <1>6, SelectAlertsAlerter
  <1>7. CASE execute_action
    BY <1>0, <1>7, execute_actionAlerter
  <1>8. CASE UpdateAlert
    BY <1>0, <1>8, UpdateAlertAlerter
  <1>9. CASE Restart
    BY <1>0, <1>9, RestartAlerter
  <1>10. CASE UNCHANGED vars
    BY <1>2, <1>10 DEF vars, alerter
  <1> QED BY <1>3, <1>4, <1>5, <1>6, <1>7, <1>8, <1>9, <1>10 DEF Next, Escalate, Send

(* Equal messages are of one row, or of two rows that the escalator does   *)
(* not write; and a row is sent once between two starts.                   *)
LEMMA OnceBetweenStarts == SendInv => StepsOnce
  <1> SUFFICES ASSUME SendInv, NEW i \in 1 .. Len(delivered), NEW k \in 1 .. Len(delivered), i < k,
                      Problem(alerts[delivered[i].alertid]),
                      Message(alerts[delivered[i].alertid]) = Message(alerts[delivered[k].alertid])
               PROVE  delivered[i].start # delivered[k].start
    BY DEF StepsOnce
  <1> PICK x, y : x = delivered[i].alertid /\ y = delivered[k].alertid
    OBVIOUS
  <1>1. x \in 1 .. Len(alerts) /\ y \in 1 .. Len(alerts)
    BY DEF SendInv, AlerterInv
  <1>2. ~Differ(alerts[x], alerts[y]) /\ ~Differ(alerts[y], alerts[x])
    BY DEF Message, Differ
  <1>3. Problem(alerts[x]) /\ Problem(alerts[y])
    BY <1>2 DEF Problem, Differ
  <1>4. x = y
    BY <1>1, <1>2, <1>3 DEF SendInv, EscalationInv, RowsOnce
  <1> QED BY <1>4 DEF SendInv, AlerterInv

(* With actions for problems, a message of a step of an escalation goes    *)
(* out once between two starts of the server: neither rows that were read  *)
(* and not written back when it stopped, nor a recovery that               *)
(* escalator.c:execute_operations writes over, nor a second list of the    *)
(* alerter repeats it.  A stop between alerter.c:execute_action and the    *)
(* update of the alert does, after the next start.                         *)
THEOREM NoStepTwice == ASSUME ProblemActions PROVE Spec => []StepsOnce
  <1> QED BY OnceBetweenStarts, SendInvInit, SendInvStep, PTL DEF Spec

(* With actions for problems, process_recovery_msg sends a recovery only   *)
(* to a user who has an earlier message of the same action about a problem *)
(* of the same trigger.                                                    *)
THEOREM ToldBefore == ASSUME ProblemActions PROVE Spec => []RecoveryToTheTold
  <1>1. EscalationInv => RecoveryToTheTold
    BY DEF EscalationInv
  <1> QED BY <1>1, EscalationInvInit, EscalationInvStep, PTL DEF Spec
=============================================================================
