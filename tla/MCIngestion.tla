---------------------------- MODULE MCIngestion -----------------------------
(* Instances of Ingestion for TLC.                                         *)
EXTENDS Ingestion

CONSTANTS b1, b2, t1, t2

TwoBooks == {b1, b2}
OneTrigger == {t1}
TwoTriggers == {t1, t2}
=============================================================================
