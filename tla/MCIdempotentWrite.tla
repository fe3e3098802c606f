------------------------- MODULE MCIdempotentWrite -------------------------
(* Instances of IdempotentWrite for TLC.                                   *)
EXTENDS IdempotentWrite, TLC

CONSTANTS k1, k2, i1, i2, i3, i4, p1, p2

OneKey == {k1}
TwoKeys == {k1, k2}
ThreeIds == {i1, i2, i3}
FourIds == {i1, i2, i3, i4}
TwoProcs == {p1, p2}

\* Keys, ids and processes are interchangeable in every safety property.
Symmetry == Permutations(Keys) \cup Permutations(Ids) \cup Permutations(Procs)
=============================================================================
