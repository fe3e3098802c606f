----------------------------- MODULE MCPipeline -----------------------------
(* Instances of Pipeline for TLC.                                          *)
EXTENDS Pipeline, TLC

CONSTANTS s1, i1, i2, p1, p2

OneSub == {s1}
Texts == [sub : OneSub, text : 0 .. 2]
TwoIds == {i1, i2}
OneProc == {p1}
TwoProcs == {p1, p2}
Two == {2}

Symmetry == Permutations(TwoIds)
=============================================================================
