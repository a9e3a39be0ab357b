--------------------------- MODULE TriggerEvents ---------------------------
(***************************************************************************)
(* From a new value of a trigger to events and escalations: db syncers,    *)
(* timer and pollers evaluate triggers and call DBupdate_trigger_value     *)
(* (src/libs/zbxdbhigh/db.c), which writes the trigger and passes an event *)
(* on to process_event (src/zabbix_server/events.c) and process_actions    *)
(* (src/zabbix_server/actions.c); a matching action starts an escalation,  *)
(* any other stops those that it has for the trigger.                      *)
(*                                                                         *)
(* An updater reads the trigger, later the last event, and then writes in  *)
(* one transaction, which others see when it commits.  The row of the      *)
(* trigger is locked from the write on, so the ids of a trigger's events   *)
(* have the order of the commits.  Nothing is locked before: another       *)
(* updater may write the trigger between the reads and the write of one.   *)
(***************************************************************************)
EXTENDS Integers, Sequences, FiniteSets

CONSTANTS
    Updaters,           \* processes that change trigger values
    Triggers,
    Multiple,           \* the triggers that make an event of each TRUE
    Depends,            \* trigger_depends: pairs <<down, up>>
    Actions,
    Conditions,         \* the event values that satisfy each action
    Switched,           \* the triggers and actions that are disabled and enabled
    MaxEvents,          \* bound
    None

VARIABLES
    value,              \* triggers.value
    events,             \* the table events, in the order of eventid
    upd,                \* each updater: what it has read, None when idle
    disabled,           \* disabled triggers and actions
    escalations,        \* the table escalations
    overtaken,          \* history: the updaters whose last event is an old one
    raced               \* history: the triggers last written by such an updater

history == <<overtaken, raced>>
eventvars == <<value, events, upd, history>>

FALSEVALUE == 0
TRUEVALUE == 1
UNKNOWN == 2
Values == {FALSEVALUE, TRUEVALUE, UNKNOWN}

EventsInit ==
    /\ value = [t \in Triggers |-> UNKNOWN]
    /\ events = <<>>
    /\ upd = [u \in Updaters |-> None]
    /\ disabled = {}
    /\ escalations = {}
    /\ overtaken = {} /\ raced = {}

-----------------------------------------------------------------------------
(* trigger_dependent: a trigger above it, over any number of levels, is    *)
(* TRUE.                                                                   *)
Above(t) ==
    LET Ups(S) == {d[2] : d \in {e \in Depends : e[1] \in S}}
        Level[n \in Nat] == IF n = 0 THEN Ups({t}) ELSE Level[n - 1] \cup Ups(Level[n - 1])
    IN  Level[Cardinality(Triggers)]

trigger_dependent(t) == \E u \in Above(t) : value[u] = TRUEVALUE

EventsOf(t) == {k \in 1 .. Len(events) : events[k].objectid = t}

(* get_latest_event_status: the n-th last event of a trigger.              *)
Latest(t, n) ==
    LET K == {k \in EventsOf(t) : Cardinality({m \in EventsOf(t) : m > k}) = n}
    IN  IF K = {} THEN UNKNOWN ELSE events[CHOOSE k \in K : TRUE].value

last_status(t) == Latest(t, 0)
prev_status(t) == Latest(t, 1)

update_status(t, old, new) ==
    /\ old # new \/ (t \in Multiple /\ new = TRUEVALUE)
    /\ ~trigger_dependent(t)

(* Mutant: compares with the event before the last one.                    *)
NewEventPrev(u) == prev_status(u.triggerid) # u.new \/ (u.triggerid \in Multiple /\ u.new = TRUEVALUE)

(* "The lastest event has the same status, do not generate new one".       *)
NewEvent(u) == u.last # u.new \/ (u.triggerid \in Multiple /\ u.new = TRUEVALUE)

(* add_trigger_info: the actions that a return from UNKNOWN does not need. *)
skip_actions(t, new) ==
    \/ new = UNKNOWN
    \/ /\ last_status(t) = UNKNOWN
       /\ \/ new = FALSEVALUE /\ prev_status(t) \in {FALSEVALUE, UNKNOWN}
          \/ new = TRUEVALUE /\ prev_status(t) = TRUEVALUE /\ t \notin Multiple

DBstart_escalation(a, t, eventid) ==
    [actionid |-> a, triggerid |-> t, eventid |-> eventid, r_eventid |-> 0,
     esc_step |-> 0, status |-> "active", due |-> TRUE]

DBstop_escalation(e, eventid) ==
    [e EXCEPT !.r_eventid = eventid, !.status = "recovery", !.due = TRUE]

(* What the enabled actions make of an event.                              *)
process_actions(t, eventid, new) ==
    LET on == Actions \ disabled
        starts == {a \in on : new \in Conditions[a]}
        Stops(e) == e.actionid \in on \ starts /\ e.triggerid = t
    IN  {IF Stops(e) THEN DBstop_escalation(e, eventid) ELSE e : e \in escalations}
            \cup {DBstart_escalation(a, t, eventid) : a \in starts}

process_event(t, new) ==
    /\ events' = Append(events, [objectid |-> t, value |-> new])
    /\ escalations' = IF skip_actions(t, new) THEN escalations
                      ELSE process_actions(t, Len(events) + 1, new)

-----------------------------------------------------------------------------
(* DCmass_update_triggers and update_triggers evaluate enabled triggers;   *)
(* DBupdate_item_status_to_notsupported and                                *)
(* update_triggers_status_to_unknown set any trigger of an item or a host. *)
Evaluate(u) ==
    /\ upd[u] = None
    /\ Len(events) + Cardinality({w \in Updaters : upd[w] # None}) < MaxEvents
    /\ \E t \in Triggers, v \in Values :
          /\ v # UNKNOWN => t \notin disabled
          /\ upd' = [upd EXCEPT ![u] = [triggerid |-> t, old |-> value[t], new |-> v, last |-> None]]
    /\ UNCHANGED <<value, events, disabled, escalations, history>>

(* DBupdate_trigger_value up to get_latest_event_status.                   *)
CheckTrigger(u) ==
    /\ upd[u] # None
    /\ upd[u].last = None
    /\ LET t == upd[u].triggerid
       IN  upd' = [upd EXCEPT ![u] = IF update_status(t, upd[u].old, upd[u].new)
                                     THEN [@ EXCEPT !.last = last_status(t)] ELSE None]
    /\ UNCHANGED <<value, events, disabled, escalations, history>>

(* The others that have read the last event of this trigger before.        *)
Overtakes(u) ==
    {w \in Updaters \ {u} : /\ upd[w] # None
                            /\ upd[w].last # None
                            /\ upd[w].triggerid = upd[u].triggerid}

(* The rest of it, and the commit.                                         *)
DBupdate_trigger_value(u) ==
    /\ upd[u] # None
    /\ upd[u].last # None
    /\ value' = [value EXCEPT ![upd[u].triggerid] = upd[u].new]
    /\ IF NewEvent(upd[u]) THEN process_event(upd[u].triggerid, upd[u].new)
                           ELSE UNCHANGED <<events, escalations>>
    /\ upd' = [upd EXCEPT ![u] = None]
    /\ overtaken' = (overtaken \ {u}) \cup Overtakes(u)
    /\ raced' = IF u \in overtaken THEN raced \cup {upd[u].triggerid}
                                  ELSE raced \ {upd[u].triggerid}
    /\ UNCHANGED disabled

(* A user disables or enables a trigger or an action in the frontend.      *)
Configure ==
    /\ \E x \in Switched :
          disabled' = IF x \in disabled THEN disabled \ {x} ELSE disabled \cup {x}
    /\ UNCHANGED <<eventvars, escalations>>

EventsNext ==
    \/ \E u \in Updaters : Evaluate(u) \/ CheckTrigger(u) \/ DBupdate_trigger_value(u)
    \/ Configure

-----------------------------------------------------------------------------
(* Properties.                                                             *)

(* The value of a trigger is that of its last event, so what the user sees *)
(* and what the actions have seen is the same: however the updaters        *)
(* interleave and whatever a stop rolls back.  The one exception is a      *)
(* trigger whose last writer had read the last event before another one    *)
(* wrote the trigger; the next write that is not overtaken repairs it.     *)
TriggerMatchesEvents == \A t \in Triggers \ raced : value[t] = last_status(t)
=============================================================================
