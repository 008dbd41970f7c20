---------------------------- MODULE MCHostRuntime ----------------------------
(* Instances of HostRuntime for TLC. *)
EXTENDS HostRuntime

CONSTANTS q1, q2, d1, d2

\* One request is driven often, the other is never.
MostlyOne == [q \in Requests |-> IF q = q1 THEN 3 ELSE 0]
=============================================================================
