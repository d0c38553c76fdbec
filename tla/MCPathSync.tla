----------------------------- MODULE MCPathSync -----------------------------
EXTENDS PathSync, TLC

CONSTANTS d1, d2, v1, v2

\* the second version is a second later than the first, or of the same second
MCLater == [v \in Versions |-> IF v = v2 THEN 1 ELSE 0]
MCSame == [v \in Versions |-> 0]

MCSymmetry == Permutations(Devices)
=============================================================================
