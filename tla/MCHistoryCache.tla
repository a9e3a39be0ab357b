--------------------------- MODULE MCHistoryCache ---------------------------
(* Instances of HistoryCache for TLC.                                      *)
EXTENDS HistoryCache, TLC

CONSTANTS p1, p2, s1, s2, i1, i2

Numeric(i) == [itemid |-> i, len1 |-> 0, len2 |-> 0]
Str(i, len) == [itemid |-> i, len1 |-> len, len2 |-> 0]
Log(i, len, src) == [itemid |-> i, len1 |-> len, len2 |-> src]

(* A number, and log lines with and without a source.                      *)
MixedValues == {Numeric(i1), Str(i2, 2), Log(i1, 1, 1)}
NumbersAndLogs == {Numeric(i1), Log(i2, 1, 1)}
NumericValues == {Numeric(i1), Numeric(i2)}
LogMessages == {Str(i2, 1)}

Symmetry == Permutations(Producers) \cup Permutations(Syncers)
=============================================================================
