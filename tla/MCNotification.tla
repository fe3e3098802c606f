--------------------------- MODULE MCNotification ---------------------------
(* Instances of Notification for TLC.                                      *)
EXTENDS Notification, TLC

CONSTANTS e1, e2, e3, k1, k2, p1, p2

ThreeEvents == {e1, e2, e3}
TwoKeys == {k1, k2}
TwoProcs == {p1, p2}

\* Two requests with one explicit key, of which the second is invalid, and one
\* with a key of its own.
TwoShareAKey == (e1 :> k1) @@ (e2 :> k1) @@ (e3 :> k2)
TwoValid == {e1, e3}

Symmetry == Permutations(Procs)
=============================================================================
