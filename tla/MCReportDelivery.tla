-------------------------- MODULE MCReportDelivery --------------------------
(* Instances of ReportDelivery for TLC. *)
EXTENDS ReportDelivery, TLC

CONSTANTS c1, c2, r1, r2, r3, t1, u1

\* All reports in one case, or one of them in a case of its own.
SameCase == [r \in Reports |-> c1]
TwoCases == [r \in Reports |-> IF r = r3 THEN c2 ELSE c1]

ReportSymmetry == Permutations(Reports)
=============================================================================
