----------------------------- MODULE Services ------------------------------
(***************************************************************************)
(* IT services (src/libs/zbxdbhigh/host.c): a service without children has *)
(* the severity of its trigger as its status, one with children the        *)
(* largest or the smallest status of them.  An event of a trigger updates  *)
(* its services and what is above them; a deleted trigger takes its        *)
(* services with it, and the status of all the others is found anew.       *)
(*                                                                         *)
(* Each operation is one transaction.  Two at a time would not see each    *)
(* other's statuses; here they follow each other.                          *)
(***************************************************************************)
EXTENDS Integers, SequencesExt

CONSTANTS
    Tree,               \* services_links: pairs <<serviceupid, servicedownid>>
    Algorithms,         \* each service: "none", "max" or "min"
    TriggerOf,          \* each service: its trigger, or Null
    Priorities,         \* of each trigger
    Null

VARIABLES
    triggers,           \* the triggers that are TRUE; Null for a deleted one
    services,           \* the table services, with the last of service_alarms
                        \* one of each service
    services_links,     \* that table
    crashed             \* a process has ended in DBupdate_services_status_all

servicesVars == <<triggers, services, services_links, crashed>>

Triggers == DOMAIN Priorities
Services == DOMAIN TriggerOf
ServiceRow == [triggerid : Triggers \cup {Null}, status : Nat, alarm : Nat \cup {Null}]
Statuses(serviceids) == [serviceids -> ServiceRow]

Downs(ls, s) == {l[2] : l \in {k \in ls : k[1] = s}}
Ups(ls, s) == {l[1] : l \in {k \in ls : k[2] = s}}

(* No links in a circle: of any services one has none of them above, and   *)
(* one has none below.  A service with others below has no trigger, as     *)
(* DBclear_parents_from_trigger and its copy in the frontend see to.       *)
ASSUME ServicesAssumption ==
    /\ Services \subseteq Nat /\ IsFiniteSet(Services)
    /\ Priorities \in [Triggers -> Nat] /\ Null \notin Triggers
    /\ TriggerOf \in [Services -> Triggers \cup {Null}]
    /\ Algorithms \in [Services -> {"none", "max", "min"}]
    /\ Tree \subseteq Services \X Services
    /\ \A C \in (SUBSET Services) \ {{}} :
          (\E s \in C : Ups(Tree, s) \cap C = {}) /\ (\E s \in C : Downs(Tree, s) \cap C = {})
    /\ \A s \in Services : TriggerOf[s] # Null => Downs(Tree, s) = {}

ServicesInit ==
    /\ triggers = [t \in Triggers |-> FALSE]
    /\ services_links = Tree
    /\ services = [s \in Services |-> [triggerid |-> TriggerOf[s], status |-> 0, alarm |-> Null]]
    /\ crashed = FALSE

-----------------------------------------------------------------------------
(* The status, and DBadd_service_alarm unless the last alarm has it.       *)
SetStatus(ss, s, status) == [ss EXCEPT ![s].status = status, ![s].alarm = status]

(* Without a status that is not 0 below it the service keeps what its      *)
(* trigger gives.                                                          *)
DBget_service_status(ss, ls, s, triggerid) ==
    LET own == IF triggerid = Null \/ ~triggers[triggerid] THEN 0 ELSE Priorities[triggerid]
        below == {ss[d].status : d \in Downs(ls, s)}
        found == IF below = {} \/ Algorithms[s] = "none" THEN 0
                 ELSE IF Algorithms[s] = "max" THEN Max(below) ELSE Min(below)
    IN  IF found # 0 THEN found ELSE own

(* The services above, in any order.                                       *)
UpdateUp(ss, ls, u) ==
    IF Algorithms[u] = "none" THEN ss ELSE SetStatus(ss, u, DBget_service_status(ss, ls, u, Null))

(* DBupdate_services_rec: first these, then what is above each of them.    *)
UpdateUps(ss, ls, s) == FoldSet(LAMBDA u, x : UpdateUp(x, ls, u), ss, Ups(ls, s))

(* Mutant: only the first service above is followed further up.            *)
UpdateFirstRec(ss, ls, s) ==
    LET rec[p \in (DOMAIN ss) \X Statuses(DOMAIN ss)] ==
            IF Ups(ls, p[1]) = {} THEN p[2]
            ELSE rec[<<Min(Ups(ls, p[1])), UpdateUps(p[2], ls, p[1])>>]
    IN  rec[<<s, ss>>]

DBupdate_services_rec(ss, ls, s) ==
    LET rec[p \in (DOMAIN ss) \X Statuses(DOMAIN ss)] ==
            FoldSet(LAMBDA u, x : rec[<<u, x>>], UpdateUps(p[2], ls, p[1]), Ups(ls, p[1]))
    IN  rec[<<s, ss>>]

DBupdate_services(ss, t, status) ==
    FoldSet(LAMBDA s, x : DBupdate_services_rec(SetStatus(x, s, status), services_links, s), ss,
            {s \in DOMAIN ss : ss[s].triggerid = t})

(* DBclear_parents_from_trigger, the services without children, then up    *)
(* from one child, the one with the largest id, of each service whose      *)
(* child it is and that has no children itself.                            *)
DBupdate_services_status_all(ss, ls) ==
    LET parents == {l[1] : l \in ls}
        cleared == [s \in DOMAIN ss |-> IF s \in parents THEN [ss[s] EXCEPT !.triggerid = Null] ELSE ss[s]]
        leaves == FoldSet(LAMBDA s, x : SetStatus(x, s, DBget_service_status(x, ls, s, x[s].triggerid)),
                          cleared, DOMAIN ss \ parents)
        begins == {Max(Downs(ls, p) \ parents) : p \in {q \in parents : Downs(ls, q) \ parents # {}}}
    IN  FoldSet(LAMBDA s, x : DBupdate_services_rec(x, ls, s), leaves, begins)

-----------------------------------------------------------------------------
(* process_event: a trigger changes to TRUE with its priority, or to FALSE *)
(* or UNKNOWN.                                                             *)
TriggerEvent(t) ==
    /\ triggers[t] # Null
    /\ \E problem \in BOOLEAN :
          /\ triggers' = [triggers EXCEPT ![t] = problem]
          /\ services' = DBupdate_services(services, t, IF problem THEN Priorities[t] ELSE 0)
    /\ UNCHANGED <<services_links, crashed>>

(* The triggerid of a service without children is read whether it is null  *)
(* or not; if it is, the process ends and the transaction with it.         *)
NullRead(ss, ls) == \E s \in DOMAIN ss : Downs(ls, s) = {} /\ ss[s].triggerid = Null

DBdelete_service(s, db) ==
    LET ls == {l \in db.links : s \notin {l[1], l[2]}}
        ss == [x \in DOMAIN db.services \ {s} |-> db.services[x]]
    IN  [links |-> ls, services |-> DBupdate_services_status_all(ss, ls),
         crashed |-> db.crashed \/ NullRead(ss, ls)]

(* Called by DBdelete_trigger.                                             *)
DBdelete_services_by_triggerid(t) ==
    /\ triggers[t] # Null
    /\ LET db == FoldSet(DBdelete_service, [links |-> services_links, services |-> services, crashed |-> FALSE],
                         {s \in DOMAIN services : services[s].triggerid = t})
       IN  IF db.crashed
           THEN crashed' = TRUE /\ UNCHANGED <<triggers, services, services_links>>
           ELSE /\ services' = db.services /\ services_links' = db.links
                /\ triggers' = [triggers EXCEPT ![t] = Null]
                /\ UNCHANGED crashed

ServicesNext == \E t \in Triggers : TriggerEvent(t) \/ DBdelete_services_by_triggerid(t)

ServicesSpec == ServicesInit /\ [][ServicesNext]_servicesVars
-----------------------------------------------------------------------------
(* Properties.                                                             *)

(* The status of a service is what the statuses below it make it, over     *)
(* shared children and any number of levels, and its last alarm says so.   *)
StatusFromBelow ==
    /\ \A s \in DOMAIN services : services[s].alarm \in {services[s].status, Null}
    /\ \A s \in {l[1] : l \in services_links} :
          Algorithms[s] # "none"
              => services[s].status = DBget_service_status(services, services_links, s, Null)
=============================================================================
