------------------------------ MODULE Pollers ------------------------------
(***************************************************************************)
(* The availability of a host and the status of its agent items, decided   *)
(* by pollers (src/zabbix_server/poller/poller.c).  A normal poller checks *)
(* the items that fall to it while the host has no errors; when the host   *)
(* has, one poller for unreachable hosts tries one active item of it.  A   *)
(* pass decides on the host with the row it selected at its beginning, and *)
(* writes the items' next checks (libs/zbxdbcache/nextchecks.c) at its end.*)
(* A database syncer makes an item active again when it writes its value.  *)
(***************************************************************************)
EXTENDS Integers, FiniteSetsExt

CONSTANTS
    Items,              \* itemids of the host's agent items
    CONFIG_POLLER_FORKS,
    Steady,             \* items that the agent never stops to support
    None,
    MaxFlips            \* bound of the changes of the host and its agent

VARIABLES
    up, supports,       \* the host can be reached; the items its agent supports
    flips,
    host,               \* the row of hosts
    items,              \* the rows of items
    pass,               \* what get_values of each poller holds
    cached              \* items with a value that a syncer has not written yet

environment == <<up, supports, flips>>
tables == <<host, items>>
vars == <<environment, tables, pass, cached>>

Normal == 0 .. CONFIG_POLLER_FORKS - 1
Unreachable == CONFIG_POLLER_FORKS
Pollers == Normal \cup {Unreachable}

NoPass == [rows |-> {}, host |-> None, item |-> None, result |-> None, nextchecks |-> None]

Init ==
    /\ up \in BOOLEAN
    /\ supports \in {S \in SUBSET Items : Steady \subseteq S}
    /\ flips = 0
    /\ host = [available |-> "unknown", errors_from |-> "none", disabled |-> FALSE]
    /\ items = [i \in Items |-> [status |-> "active", due |-> TRUE]]
    /\ pass = [p \in Pollers |-> NoPass]
    /\ cached = {}

-----------------------------------------------------------------------------
(* The host, its agent, and time: disable_until passes, an error becomes   *)
(* older than CONFIG_UNREACHABLE_PERIOD, a nextcheck comes.                *)
Flip ==
    /\ flips < MaxFlips
    /\ flips' = flips + 1
    /\ \/ up' = ~up /\ UNCHANGED supports
       \/ \E i \in Items \ Steady :
             supports' = (supports \cup {i}) \ (supports \cap {i}) /\ UNCHANGED up
    /\ UNCHANGED <<tables, pass, cached>>

Wake ==
    /\ host.disabled
    /\ host' = [host EXCEPT !.disabled = FALSE]
    /\ UNCHANGED <<environment, items, pass, cached>>

Age ==
    /\ host.errors_from = "recent"
    /\ host' = [host EXCEPT !.errors_from = "old"]
    /\ UNCHANGED <<environment, items, pass, cached>>

Due(i) ==
    /\ ~items[i].due
    /\ items' = [items EXCEPT ![i].due = TRUE]
    /\ UNCHANGED <<environment, host, pass, cached>>

-----------------------------------------------------------------------------
(* get_values.                                                             *)
DueItems(statuses) == {i \in Items : items[i].due /\ items[i].status \in statuses}

Rows(p) ==
    IF p = Unreachable
    THEN LET active == DueItems({"active"})
         IN  IF host.errors_from = "none" \/ active = {} THEN {} ELSE {Min(active)}
    ELSE IF host.errors_from = "none"
         THEN {i \in DueItems({"active", "notsupported"}) : i % CONFIG_POLLER_FORKS = p}
         ELSE {}

Select(p) ==
    /\ pass[p] = NoPass
    /\ ~host.disabled
    /\ Rows(p) # {}
    /\ pass' = [pass EXCEPT ![p] =
                  [NoPass EXCEPT !.rows = Rows(p), !.host = host, !.nextchecks = [i \in {} |-> None]]]
    /\ UNCHANGED <<environment, tables, cached>>

get_value(i) ==
    IF ~up THEN "network error" ELSE IF i \in supports THEN "value" ELSE "notsupported"

Check(p) ==
    /\ pass[p].item = None
    /\ \E i \in pass[p].rows :
          pass' = [pass EXCEPT ![p].rows = @ \ {i}, ![p].item = i, ![p].result = get_value(i)]
    /\ UNCHANGED <<environment, tables, cached>>

(* DCadd_nextcheck: for the end of the pass.                               *)
DCadd_nextcheck(nextchecks, i, status) ==
    [j \in DOMAIN nextchecks \cup {i} |-> IF j = i THEN status ELSE nextchecks[j]]

(* Mutant: the host is only written when it was not available.             *)
AnsweredAvailableOnly(row, h) ==
    IF row.available # "true" THEN [h EXCEPT !.available = "true", !.errors_from = "none"] ELSE h

(* The host has answered: enable_host, or only the end of its errors.      *)
Answered(row, h) ==
    IF row.available # "true" THEN [h EXCEPT !.available = "true", !.errors_from = "none"]
    ELSE IF row.errors_from # "none" THEN [h EXCEPT !.errors_from = "none"]
    ELSE h

(* A check that was answered; the pass ends when it wrote the host.        *)
UpdateAnswered(p) ==
    LET q == pass[p] IN
    /\ q.result \in {"value", "notsupported"}
    /\ host' = Answered(q.host, host)
    /\ cached' = IF q.result = "value" THEN cached \cup {q.item} ELSE cached
    /\ pass' = [pass EXCEPT
          ![p].rows = IF q.host.available # "true" \/ q.host.errors_from # "none" THEN {} ELSE @,
          ![p].item = None, ![p].result = None,
          ![p].nextchecks = DCadd_nextcheck(@, q.item, q.result)]
    /\ UNCHANGED <<environment, items>>

(* Mutant: each error is the first one.                                    *)
FailedAnew(row, h, old) ==
    IF row.errors_from = "none" \/ ~old
    THEN [h EXCEPT !.errors_from = "recent", !.disabled = TRUE]
    ELSE [h EXCEPT !.available = "false", !.disabled = TRUE]

(* A network error: the first one, one too many (disable_host), or another.*)
Failed(row, h, old) ==
    IF row.errors_from = "none" THEN [h EXCEPT !.errors_from = "recent", !.disabled = TRUE]
    ELSE IF old /\ row.available # "false" THEN [h EXCEPT !.available = "false", !.disabled = TRUE]
    ELSE [h EXCEPT !.disabled = TRUE]

(* The other items of the host in this pass are skipped.  An error that    *)
(* was recent when the row was selected may be old by now.                 *)
UpdateFailed(p) ==
    LET q == pass[p] IN
    /\ q.result = "network error"
    /\ \E old \in {q.host.errors_from = "old", TRUE} : host' = Failed(q.host, host, old)
    /\ items' = IF q.host.errors_from = "none" THEN [items EXCEPT ![q.item].due = FALSE] ELSE items
    /\ pass' = [pass EXCEPT ![p].rows = {}, ![p].item = None, ![p].result = None]
    /\ UNCHANGED <<environment, cached>>

DCflush_nextchecks(p) ==
    LET q == pass[p] IN
    /\ q.host # None /\ q.rows = {} /\ q.item = None
    /\ items' = [i \in Items |->
                   IF i \notin DOMAIN q.nextchecks THEN items[i]
                   ELSE [status |-> IF q.nextchecks[i] = "value" THEN items[i].status ELSE "notsupported",
                         due |-> FALSE]]
    /\ pass' = [pass EXCEPT ![p] = NoPass]
    /\ UNCHANGED <<environment, host, cached>>

-----------------------------------------------------------------------------
(* DCmass_update_item of a database syncer.                                *)
Sync(i) ==
    /\ i \in cached
    /\ cached' = cached \ {i}
    /\ items' = [items EXCEPT ![i].status = "active"]
    /\ UNCHANGED <<environment, host, pass>>

Next ==
    \/ Flip \/ Wake \/ Age
    \/ \E i \in Items : Due(i) \/ Sync(i)
    \/ \E p \in Pollers : Select(p) \/ Check(p) \/ UpdateAnswered(p) \/ UpdateFailed(p) \/ DCflush_nextchecks(p)

(* Time passes, and the pollers and the syncers loop for ever.             *)
Fairness ==
    /\ WF_vars(Wake) /\ WF_vars(Age)
    /\ \A i \in Items : WF_vars(Due(i)) /\ WF_vars(Sync(i))
    /\ \A p \in Pollers :
          WF_vars(Select(p) \/ Check(p) \/ UpdateAnswered(p) \/ UpdateFailed(p) \/ DCflush_nextchecks(p))

Spec == Init /\ [][Next]_vars /\ Fairness
-----------------------------------------------------------------------------
(* Properties.                                                             *)

(* A host that can be reached again is at last available without errors    *)
(* and stays so, whatever the pollers still hold from before.              *)
HostComesBack == <>[]up => <>[](host.available = "true" /\ host.errors_from = "none")

(* A host that stays away is at last unavailable and stays so.             *)
DownIsDetected == <>[]~up => <>[](host.available = "false")
=============================================================================
