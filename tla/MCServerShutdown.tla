-------------------------- MODULE MCServerShutdown --------------------------
(* Instances of ServerShutdown for TLC.                                    *)
EXTENDS ServerShutdown

CONSTANTS p1, s1, s2, main, i1, i2

MixedValues == {[itemid |-> i1, len1 |-> 0, len2 |-> 0], [itemid |-> i2, len1 |-> 1, len2 |-> 0]}
LogMessages == {[itemid |-> i2, len1 |-> 1, len2 |-> 0]}
=============================================================================
