------------------------------ MODULE MCTables ------------------------------
(***************************************************************************)
(* Instances for TLC of components that share no state and of which only   *)
(* safety is checked: the ids of MaxId, the cache of trends, the templates *)
(* of discovered hosts, the statuses of services, the evaluation of        *)
(* expressions and the stop of the server and of a proxy.  Each behaviour  *)
(* is one of one of them, part; the others stay as they begin.             *)
(***************************************************************************)
EXTENDS MaxId, TrendCache, Templates, Services, ServerShutdown, TLC

CONSTANTS p1, p2, s1, s2, main, i1, i2

VARIABLES
    part,
    expression          \* of Expression

Data == INSTANCE TemplateData
TwoApps == Data!TwoApps
ThreeItems == Data!ThreeItems
ThreeTriggers == Data!ThreeTriggers

(* One host after two edits; the other instance has two after one edit.    *)
Edited == INSTANCE Templates WITH MaxHosts <- 1, MaxEdits <- 2

(* Services 1, 2, 6 and 8 have triggers; 2 and 4 have two services above.  *)
Links == {<<3, 1>>, <<3, 2>>, <<4, 2>>, <<4, 6>>, <<5, 3>>, <<5, 4>>, <<7, 4>>, <<7, 8>>}
LinkAlgorithms == [s \in 1 .. 8 |-> CASE s = 4 -> "min" [] s \in {6, 8} -> "none" [] OTHER -> "max"]
TriggersBelow == [s \in 1 .. 8 |-> CASE s \in {1, 6} -> 11 [] s = 2 -> 12 [] s = 8 -> 13 [] OTHER -> Null]
Severities == 11 :> 2 @@ 12 :> 3 @@ 13 :> 4

(* 1 and 2K; at most two of the last, for TLC's integers have 32 bits.     *)
SomeNumbers == {[value |-> 1, suffix |-> FALSE], [value |-> 2, suffix |-> TRUE]}
Trigger == INSTANCE Expression WITH
    Numbers <- SomeNumbers, Kilo <- 1024, Error <- None, MaxLength <- 7, MaxSuffixes <- 2

(* The server; the proxy has larger batches, and stores no log messages.   *)
MixedValues == {[itemid |-> i1, len1 |-> 0, len2 |-> 0], [itemid |-> i2, len1 |-> 1, len2 |-> 0]}
LogMessages == {[itemid |-> i2, len1 |-> 1, len2 |-> 0]}
ProxyStop == INSTANCE ServerShutdown WITH SyslogValues <- {}, SYNC_MAX <- 2, Proxy <- TRUE

tablesVars == <<part, idVars, trendVars, templateVars, servicesVars, expression, allVars>>

TablesInit ==
    /\ part \in {"maxid", "trends", "templates", "edited", "services", "expression", "shutdown", "proxy"}
    /\ MaxIdInit /\ TrendInit /\ TemplatesInit /\ ServicesInit /\ Trigger!Init /\ ShutdownInit
    /\ part # "maxid" => nextid = Missing /\ \A p \in Processes : num[p] = 1

TablesNext ==
    \/ /\ part = "maxid" /\ MaxIdNext
       /\ UNCHANGED <<part, trendVars, templateVars, servicesVars, expression, allVars>>
    \/ /\ part = "trends" /\ TrendNext
       /\ UNCHANGED <<part, idVars, templateVars, servicesVars, expression, allVars>>
    \/ /\ \/ part = "templates" /\ TemplatesNext
          \/ part = "edited" /\ Edited!TemplatesNext
       /\ UNCHANGED <<part, idVars, trendVars, servicesVars, expression, allVars>>
    \/ /\ part = "services" /\ ServicesNext
       /\ UNCHANGED <<part, idVars, trendVars, templateVars, expression, allVars>>
    \/ /\ part = "expression" /\ Trigger!Next
       /\ UNCHANGED <<part, idVars, trendVars, templateVars, servicesVars, allVars>>
    \/ /\ \/ part = "shutdown" /\ ShutdownNext
          \/ part = "proxy" /\ ProxyStop!ShutdownNext
       /\ UNCHANGED <<part, idVars, trendVars, templateVars, servicesVars, expression>>

TablesSpec == TablesInit /\ [][TablesNext]_tablesVars
-----------------------------------------------------------------------------
(* The properties of the components, each of its own behaviours; those of  *)
(* MaxId, TrendCache, Templates, Services and ServerShutdown hold of what  *)
(* stays as it begins.                                                     *)

(* An expression evaluates to the value of its formula.                    *)
EvaluatesFormula == part = "expression" => Trigger!EvaluatesFormula
=============================================================================
