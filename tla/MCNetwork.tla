------------------------------ MODULE MCNetwork -----------------------------
(***************************************************************************)
(* Instances for TLC of components that share no state, with liveness: the *)
(* active checks of an agent, the pollers, the discoverer and the          *)
(* configuration of nodes, of a pair and of a chain of three.  Each        *)
(* behaviour is one of one of them, part; the others stay as they begin.   *)
(***************************************************************************)
EXTENDS ActiveChecks, Discovery, NodeConfig

CONSTANTS i1, c1, c2

VARIABLES
    part,
    reached, supports, reaches, host, items, polling, cached    \* of Pollers

(* Of three lines the first and the third match.                           *)
OddLines == [i \in Items |-> {1, 3}]

Poller == INSTANCE Pollers WITH
    Items <- {1, 2}, CONFIG_POLLER_FORKS <- 2, Steady <- {2}, MaxFlips <- 1,
    up <- reached, flips <- reaches, pass <- polling

(* Discovery itself looks for one service, with passes that wait unsent    *)
(* together; here there are two.                                           *)
Several == INSTANCE Discovery WITH
    Checks <- {c1, c2}, ZBX_MAX_HRECORDS <- 2, MaxFlips <- 2, MaxRows <- 1

(* NodeConfig itself is the pair.                                          *)
Chain == INSTANCE NodeConfig WITH N <- 3, MaxEdits <- 1, MaxBreaks <- 0

pollerVars == <<reached, supports, reaches, host, items, polling, cached>>

allVars == <<part, vars, pollerVars, discoveryVars, nodeVars>>

NetworkInit ==
    /\ part \in {"active", "pollers", "service", "services", "pair", "chain"}
    /\ Init /\ Poller!Init
    /\ IF part = "services" THEN Several!DiscoveryInit ELSE DiscoveryInit
    /\ IF part = "chain" THEN Chain!NodesInit ELSE NodesInit
    /\ part # "pollers" => reached
    /\ reached => supports = {1, 2}
    /\ part \notin {"service", "services"} => zbx_process = "server"
    /\ part \notin {"pair", "chain"} => \A f \in Fields : writers[f] = {}

NetworkNext ==
    \/ part = "active" /\ Next /\ UNCHANGED <<part, pollerVars, discoveryVars, nodeVars>>
    \/ part = "pollers" /\ Poller!Next /\ UNCHANGED <<part, vars, discoveryVars, nodeVars>>
    \/ part = "service" /\ DiscoveryNext /\ UNCHANGED <<part, vars, pollerVars, nodeVars>>
    \/ part = "services" /\ Several!DiscoveryNext /\ UNCHANGED <<part, vars, pollerVars, nodeVars>>
    \/ part = "pair" /\ NodesNext /\ UNCHANGED <<part, vars, pollerVars, discoveryVars>>
    \/ part = "chain" /\ Chain!NodesNext /\ UNCHANGED <<part, vars, pollerVars, discoveryVars>>

(* The fairness of the components.                                         *)
ActiveFairness ==
    /\ WF_vars(part = "active" /\ RefreshChecks)
    /\ WF_vars(part = "active" /\ ProcessLog(i1))
    /\ WF_vars(part = "active" /\ process_value)
    /\ WF_vars(part = "active" /\ send_buffer)
    /\ WF_vars(part = "active" /\ process_new_values)
    /\ WF_vars(part = "active" /\ Answered)

PollerFairness ==
    /\ WF_pollerVars(part = "pollers" /\ Poller!Wake)
    /\ WF_pollerVars(part = "pollers" /\ Poller!Age)
    /\ \A i \in {1, 2} :
          /\ WF_pollerVars(part = "pollers" /\ Poller!Due(i))
          /\ WF_pollerVars(part = "pollers" /\ Poller!Sync(i))
    /\ \A p \in Poller!Pollers :
          WF_pollerVars(part = "pollers" /\ (\/ Poller!Select(p) \/ Poller!Check(p)
                                             \/ Poller!UpdateAnswered(p) \/ Poller!UpdateFailed(p)
                                             \/ Poller!DCflush_nextchecks(p)))

AddressFairness ==
    /\ WF_discoveryVars(part = "service" /\ Discover)
    /\ WF_discoveryVars(part = "service" /\ Deliver)
    /\ WF_discoveryVars(part = "services" /\ Several!Discover)
    /\ WF_discoveryVars(part = "services" /\ Several!Deliver)

(* Weak fairness is enough but at the node 2 of a chain, where a node      *)
(* watcher and trappers take turns with the lock.  The actions of a node   *)
(* do not depend on the number of nodes.                                   *)
NodeFairness ==
    /\ WF_nodeVars(part \in {"pair", "chain"} /\ Chain!process_trapper(1))
    /\ WF_nodeVars(part = "pair" /\ Chain!process_nodes(2))
    /\ WF_nodeVars(part = "chain" /\ Chain!process_nodes(3))
    /\ SF_nodeVars(part = "chain" /\ Chain!process_nodes(2))
    /\ SF_nodeVars(part = "chain" /\ Chain!process_trapper(2))

NetworkSpec ==
    /\ NetworkInit /\ [][NetworkNext]_allVars
    /\ ActiveFairness /\ PollerFairness /\ AddressFairness /\ NodeFairness
-----------------------------------------------------------------------------
(* The properties of the components, each of its own behaviours.  Those of *)
(* ActiveChecks, Discovery and NodeConfig hold when nothing happens; those *)
(* of Discovery say of two services what they say of the first, and the    *)
(* two are alike.                                                          *)

(* A host that answers again is available at last.                         *)
HostComesBack == part = "pollers" => Poller!HostComesBack

(* A host that does not answer is not available at last.                   *)
DownIsDetected == part = "pollers" => Poller!DownIsDetected
=============================================================================
