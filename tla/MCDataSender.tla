---------------------------- MODULE MCDataSender ----------------------------
(* Instances of DataSender for TLC.                                        *)
EXTENDS DataSender, TLC

TrapperSymmetry == Permutations(Trappers)
=============================================================================
