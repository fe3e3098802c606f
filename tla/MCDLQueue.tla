----------------------------- MODULE MCDLQueue -----------------------------
(* Instances of DLQueue for TLC.                                           *)
EXTENDS DLQueue, TLC

CONSTANTS k1, k2, i1, i2, i3, p1, p2

OneKey == {k1}
TwoKeys == {k1, k2}
TwoIds == {i1, i2}
ThreeIds == {i1, i2, i3}
OneProc == {p1}
TwoProcs == {p1, p2}
Two == {2}

\* Ids and processes are interchangeable in every safety property.
Symmetry == Permutations(Ids) \cup Permutations(Procs)
=============================================================================
