------------------------------ MODULE MCSenders -----------------------------
(***************************************************************************)
(* Instances for TLC of the two ways in which history is sent on, with     *)
(* liveness: by a proxy to its server, and by a node to its masters, in a  *)
(* pair and in a chain of three.  Each behaviour is one of one of them,    *)
(* part; the others stay as they begin.                                    *)
(***************************************************************************)
EXTENDS DataSender, NodeHistory

CONSTANTS w1, w2        \* db syncers of the node

VARIABLE part

(* NodeHistory itself is the pair.                                         *)
Chain == INSTANCE NodeHistory WITH N <- 3, MaxSelected <- 1, MaxValues <- 2

allVars == <<part, vars, historyVars>>

SendersInit ==
    /\ part \in {"proxy", "pair", "chain"}
    /\ Init
    /\ IF part = "chain" THEN Chain!HistoryInit ELSE HistoryInit
    /\ part = "proxy" => table = ZBX_HISTORY

SendersNext ==
    \/ part = "proxy" /\ Next /\ UNCHANGED <<part, historyVars>>
    \/ part = "pair" /\ HistoryNext /\ UNCHANGED <<part, vars>>
    \/ part = "chain" /\ Chain!HistoryNext /\ UNCHANGED <<part, vars>>

(* The fairness of the components.                                         *)
ProxyFairness ==
    /\ WF_vars(part = "proxy" /\ Send)
    /\ WF_vars(part = "proxy" /\ conn = None /\ RecvFail)
    /\ \A t \in Trappers : WF_vars(part = "proxy" /\ Trap(t))

NodeFairness ==
    /\ WF_historyVars(part = "pair" /\ process_history_table_data(2))
    /\ WF_historyVars(part = "pair" /\ \E t \in trapper[1] : node_history(1, t))
    /\ \A n \in {2, 3} :
          /\ WF_historyVars(part = "chain" /\ Chain!process_history_table_data(n))
          /\ WF_historyVars(part = "chain" /\ \E t \in trapper[n - 1] : Chain!node_history(n - 1, t))

SendersSpec == SendersInit /\ [][SendersNext]_allVars /\ ProxyFairness /\ NodeFairness
-----------------------------------------------------------------------------
(* The safety properties are those of DataSender and NodeHistory.          *)

(* When nothing is written any more, every value of a node that was not    *)
(* passed over has come to the first master, whatever was stopped.         *)
HistoryArrives == <>[]AllArrived
=============================================================================
