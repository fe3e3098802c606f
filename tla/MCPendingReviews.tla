-------------------------- MODULE MCPendingReviews --------------------------
(* Instances of PendingReviews for TLC.                                    *)
EXTENDS PendingReviews, TLC

CONSTANTS s1, s2, p1, l1, l2

OneSub == {s1}
TwoSubs == {s1, s2}
NoSub == {}
OneTab == {p1}
OneLoad == {l1}
TwoLoads == {l1, l2}

\* Every submission has a text of its own, and one browser writes them all.
OwnText == [s \in Subs |-> s]
InOneTab == [s \in Subs |-> p1]

FirstPage == {1}
TwoPages == {1, 2}
OneSecond == {1}

Symmetry == Permutations(TwoLoads) \cup Permutations(TwoSubs)
=============================================================================
