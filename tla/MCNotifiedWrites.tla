-------------------------- MODULE MCNotifiedWrites --------------------------
(* Instances of NotifiedWrites for TLC.                                    *)
EXTENDS NotifiedWrites, TLC

CONSTANTS k1, k2, i1, i2, p1, p2, s1, x

TwoKeys == {k1, k2}
TwoIds == {i1, i2}
TwoProcs == {p1, p2}
OneSender == {s1}
Product == {x}

OneProduct == (k1 :> x) @@ (k2 :> x)
=============================================================================
