---------------------------- MODULE Escalations ----------------------------
(***************************************************************************)
(* The escalator (src/zabbix_server/escalator/escalator.c) works through   *)
(* the escalations that TriggerEvents starts and stops and writes alerts;  *)
(* the alerter (src/zabbix_server/alerter/alerter.c) sends them.           *)
(*                                                                         *)
(* Both work on a list that they have read before: a recovery may arrive   *)
(* while the escalator is at work, and the server may be restarted between *)
(* the sending of a message and its update.                                *)
(***************************************************************************)
EXTENDS TriggerEvents

CONSTANTS
    Users,
    Media,              \* the active media of each user
    Operations,         \* messages, with the steps in which they are sent
    EscPeriod,          \* the actions that escalate in steps
    Msgs,               \* subjects and texts of the operations
    RecoveryMsg,        \* the actions with a recovery message
    ALERT_MAX_RETRIES,
    MaxRestarts, MaxAlerts  \* bounds

ASSUME EscalationsAssumption ==
    /\ IsFiniteSet(Users)
    /\ IsFiniteSet(Msgs)
    /\ \A u \in Users : IsFiniteSet(Media[u])
    /\ Operations \subseteq [operationid: Nat, actionid: Actions, userid: Users, msg: Msgs,
                             from: Nat, to: Nat]
    /\ ALERT_MAX_RETRIES \in Nat
    /\ None \notin [alertid: Nat, retries: Nat, sent: BOOLEAN]

VARIABLES
    todo,               \* rows the escalator has read and not worked on yet
    alerts,             \* the table alerts, in the order of alertid
    outbox,             \* alerts the alerter has read and not tried yet
    tried,              \* its last attempt: [alertid, retries, sent], or None
    delivered,          \* history: messages that went out: [alertid, start]
    restarts

escalator == <<todo>>
alerter == <<outbox, tried, delivered>>
vars == <<eventvars, disabled, escalations, escalator, alerts, alerter, restarts>>

Init ==
    /\ EventsInit
    /\ todo = {}
    /\ alerts = <<>>
    /\ outbox = {} /\ tried = None /\ delivered = <<>>
    /\ restarts = 0

-----------------------------------------------------------------------------
(* The escalator.                                                          *)

(* Mutant: a recovery waits for the time of the next step.                 *)
SelectableActive(e) == e.status = "active"

Selectable(e) == e.status \in {"active", "recovery"}

(* process_escalations: the rows that are due.  When the time of the next  *)
(* step comes is left open.                                                *)
SelectEscalations ==
    /\ todo = {}
    /\ \E S \in SUBSET escalations :
          /\ S # {}
          /\ \A e \in S : Selectable(e)
          /\ \A e \in escalations : Selectable(e) /\ e.due => e \in S
          /\ todo' = S
    /\ UNCHANGED <<eventvars, disabled, escalations, alerts, alerter, restarts>>

(* add_message_alert for each message to a user: a row for each medium     *)
(* that accepts the severity at this time, or a failed one when the user   *)
(* has none.                                                               *)
Alert(e, eventid, step, p, m) ==
    [actionid |-> e.actionid, eventid |-> eventid, userid |-> p.userid, msg |-> p.msg,
     mediatypeid |-> m, esc_step |-> step, retries |-> IF m = None THEN ALERT_MAX_RETRIES ELSE 0,
     status |-> IF m = None THEN "failed" ELSE "not_sent"]

add_message_alerts(e, eventid, step, msgs) ==
    \E used \in SUBSET (UNION {Media[p.userid] : p \in msgs}) :
        LET Accepting(u) == IF Media[u] = {} THEN {None} ELSE Media[u] \cap used
            new == UNION {{Alert(e, eventid, step, p, m) : m \in Accepting(p.userid)} : p \in msgs}
        IN  \E s \in [1 .. Cardinality(new) -> new] :
                /\ \A i, k \in DOMAIN s : i # k => s[i] # s[k]
                /\ alerts' = alerts \o s

OperationsOf(a, step) ==
    {o \in Operations : o.actionid = a /\ (a \in EscPeriod => o.from <= step /\ (o.to = 0 \/ o.to >= step))}

LaterOperations(a, step) == {o \in Operations : o.actionid = a /\ o.from > step}

(* add_user_msg: two operations with the same message to a user are one.   *)
UserMsgs(ops) == {[userid |-> o.userid, msg |-> o.msg] : o \in ops}

(* Its row again in the table: whatever is there now gets the status, step *)
(* and time that the escalator has computed.                               *)
Row(e) == {x \in escalations : x.actionid = e.actionid /\ x.eventid = e.eventid}

(* Mutant: the step is not stored.                                         *)
WriteBackWithoutStep(e, step, status, due) ==
    escalations' = (escalations \ Row(e)) \cup
        IF status = "completed" THEN {}
        ELSE {[x EXCEPT !.status = status, !.due = due] : x \in Row(e)}

WriteBack(e, step, status, due) ==
    escalations' = (escalations \ Row(e)) \cup
        IF status = "completed" THEN {}
        ELSE {[x EXCEPT !.esc_step = step, !.status = status, !.due = due] : x \in Row(e)}

Cancelled(e) == e.triggerid \in disabled \/ e.actionid \in disabled

(* After the last step.                                                    *)
Finished(e) == IF e.actionid \in RecoveryMsg THEN "sleep" ELSE "completed"

NextStep(e) == IF e.actionid \in EscPeriod THEN e.esc_step + 1 ELSE e.esc_step

(* execute_operations.                                                     *)
ExecuteActive(e) ==
    /\ e \in todo
    /\ e.status = "active"
    /\ LET step == NextStep(e)
           ops == OperationsOf(e.actionid, step)
           more == e.actionid \in EscPeriod /\ (ops # {} \/ LaterOperations(e.actionid, step) # {})
       IN  /\ add_message_alerts(e, e.eventid, step, UserMsgs(ops))
           /\ IF Cancelled(e) THEN WriteBack(e, step, "completed", FALSE)
              ELSE IF more    THEN WriteBack(e, step, "active", FALSE)
              ELSE                 WriteBack(e, step, Finished(e), TRUE)
    /\ todo' = todo \ {e}
    /\ UNCHANGED <<eventvars, disabled, alerter, restarts>>

Told(e) == {alerts[k].userid : k \in {i \in 1 .. Len(alerts) :
                alerts[i].actionid = e.actionid /\ alerts[i].eventid = e.eventid}}

(* Mutant: the recovery goes to every user of the action.                  *)
RecipientsAll(e) == {o.userid : o \in {p \in Operations : p.actionid = e.actionid}}

Recipients(e) == Told(e)

(* process_recovery_msg; None is the action's recovery message.            *)
ExecuteRecovery(e) ==
    /\ e \in todo
    /\ e.status = "recovery"
    /\ IF e.actionid \in RecoveryMsg
       THEN add_message_alerts(e, e.r_eventid, 0, [userid: Recipients(e), msg: {None}])
       ELSE UNCHANGED alerts
    /\ WriteBack(e, 0, "completed", TRUE)
    /\ todo' = todo \ {e}
    /\ UNCHANGED <<eventvars, disabled, alerter, restarts>>

-----------------------------------------------------------------------------
(* The alerter.                                                            *)

Unsent == {k \in 1 .. Len(alerts) : alerts[k].status = "not_sent"}

SelectAlerts ==
    /\ outbox = {} /\ tried = None
    /\ Unsent # {}
    /\ outbox' = {[alertid |-> k, retries |-> alerts[k].retries] : k \in Unsent}
    /\ UNCHANGED <<eventvars, disabled, escalations, escalator, alerts, tried, delivered, restarts>>

(* execute_action, in the order of the alerts.                             *)
execute_action ==
    /\ tried = None
    /\ \E a \in outbox, ok \in BOOLEAN :
          /\ \A b \in outbox : a.alertid <= b.alertid
          /\ outbox' = outbox \ {a}
          /\ tried' = [alertid |-> a.alertid, retries |-> a.retries, sent |-> ok]
          /\ delivered' = IF ok THEN Append(delivered, [alertid |-> a.alertid, start |-> restarts])
                                 ELSE delivered
    /\ UNCHANGED <<eventvars, disabled, escalations, escalator, alerts, restarts>>

(* Mutant: a failed attempt is not counted.                                *)
AfterFailureUncounted(a) == [alerts[a.alertid] EXCEPT !.retries = a.retries]

AfterFailure(a) ==
    [alerts[a.alertid] EXCEPT !.retries = a.retries + 1,
         !.status = IF a.retries + 1 < ALERT_MAX_RETRIES THEN @ ELSE "failed"]

UpdateAlert ==
    /\ tried # None
    /\ alerts' = [alerts EXCEPT ![tried.alertid] =
                     IF tried.sent THEN [@ EXCEPT !.status = "sent"] ELSE AfterFailure(tried)]
    /\ tried' = None
    /\ UNCHANGED <<eventvars, disabled, escalations, escalator, outbox, delivered, restarts>>

-----------------------------------------------------------------------------
(* The server is stopped and started: open transactions are rolled back.   *)
Restart ==
    /\ restarts < MaxRestarts
    /\ restarts' = restarts + 1
    /\ upd' = [u \in Updaters |-> None]
    /\ todo' = {}
    /\ outbox' = {} /\ tried' = None
    /\ overtaken' = {}
    /\ UNCHANGED <<value, events, raced, disabled, escalations, alerts, delivered>>

Escalate == SelectEscalations \/ \E e \in todo : ExecuteActive(e) \/ ExecuteRecovery(e)

Send == SelectAlerts \/ execute_action \/ UpdateAlert

Next ==
    \/ EventsNext /\ UNCHANGED <<escalator, alerts, alerter, restarts>>
    \/ Escalate
    \/ Send
    \/ Restart

Spec == Init /\ [][Next]_vars

-----------------------------------------------------------------------------
(* Properties.                                                             *)

Problem(a) == events[a.eventid].value = TRUEVALUE

Message(a) == [actionid |-> a.actionid, eventid |-> a.eventid, esc_step |-> a.esc_step,
               userid |-> a.userid, mediatypeid |-> a.mediatypeid, msg |-> a.msg]

(* Between two starts of the server no message of a step of an escalation  *)
(* is sent to a user by a medium twice, whatever a restart or a recovery   *)
(* has overtaken in the escalator or the alerter before: a message goes    *)
(* out again only when the server is stopped between sending it and        *)
(* storing that (alerter.c: execute_action, then update alerts).           *)
StepsOnce ==
    \A i, k \in 1 .. Len(delivered) :
        LET a == alerts[delivered[i].alertid]
            b == alerts[delivered[k].alertid]
        IN  i < k /\ Problem(a) /\ Message(a) = Message(b)
                => delivered[i].start # delivered[k].start

(* A recovery message goes only to a user who was told of a problem of     *)
(* this trigger by the same action before.                                 *)
RecoveryToTheTold ==
    \A k \in 1 .. Len(alerts) : ~Problem(alerts[k]) =>
        \E i \in 1 .. k - 1 :
            /\ Problem(alerts[i])
            /\ alerts[i].actionid = alerts[k].actionid /\ alerts[i].userid = alerts[k].userid
            /\ events[alerts[i].eventid].objectid = events[alerts[k].eventid].objectid

(* The escalator takes up every row that is due, the first step of a       *)
(* problem and a recovery alike.                                           *)
DueIsWorkedOn ==
    \A a \in Actions, id \in 1 .. MaxEvents :
        LET Due == \E e \in escalations :
                      e.actionid = a /\ e.eventid = id /\ e.due /\ e.status # "sleep"
        IN  Due ~> ~Due

(* Every message is sent or given up after ALERT_MAX_RETRIES attempts.     *)
AlertsSettled ==
    \A k \in 1 .. MaxAlerts : (k \in Unsent) ~> (k \in 1 .. Len(alerts) /\ k \notin Unsent)
=============================================================================
