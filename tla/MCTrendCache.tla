---------------------------- MODULE MCTrendCache ----------------------------
(* Instances of TrendCache for TLC.                                        *)
EXTENDS TrendCache

CONSTANTS s1, s2
=============================================================================
