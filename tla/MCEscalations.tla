--------------------------- MODULE MCEscalations ---------------------------
(***************************************************************************)
(* Instances of Escalations for TLC, with liveness: one updater with       *)
(* escalator and alerter, for a problem and its recovery with two messages *)
(* to a user in the first step and a restart, or for three events without  *)
(* them; and two updaters of a trigger that has no actions.  Each          *)
(* behaviour is one of them, part.                                         *)
(***************************************************************************)
EXTENDS Escalations

CONSTANTS s1, s2, u1, u2, m1, m2, t1, a1, email

VARIABLE part

OnProblem == [a \in Actions |-> {TRUEVALUE}]
EmailForU1 == [u \in Users |-> IF u = u1 THEN {email} ELSE {}]

(* u1 hears at once, u2, who has no medium, in the second step.            *)
Operation(id, u, m, step) ==
    [operationid |-> id, actionid |-> a1, userid |-> u, msg |-> m, from |-> step, to |-> step]
OneMessage == {Operation(1, u1, m1, 1), Operation(2, u2, m1, 2)}

(* The first message by another operation as well, and a second message.   *)
TwoMessages == OneMessage \cup {Operation(3, u1, m1, 1), Operation(4, u1, m2, 1)}

NoDependency == {}

Restarted == INSTANCE Escalations WITH
    MaxEvents <- 2, Operations <- TwoMessages, MaxRestarts <- 1

Two == INSTANCE Escalations WITH
    Updaters <- {s1, s2}, Actions <- {}, Operations <- {},
    MaxEvents <- 4, MaxRestarts <- 1

MCInit ==
    /\ part \in {"events", "restart", "updaters"}
    /\ IF part = "updaters" THEN Two!Init ELSE Init

MCNext ==
    /\ \/ part = "events" /\ Next
       \/ part = "restart" /\ Restarted!Next
       \/ part = "updaters" /\ Two!Next
    /\ UNCHANGED part

(* Escalator and alerter keep running.                                     *)
MCSpec ==
    /\ MCInit /\ [][MCNext]_<<part, vars>>
    /\ WF_vars(\/ part = "events" /\ Escalate
               \/ part = "restart" /\ Restarted!Escalate)
    /\ WF_vars(part # "updaters" /\ Send)
=============================================================================
