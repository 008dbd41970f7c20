-------------------------- MODULE MCConflictCheck ---------------------------
(* One case whose parties change, for TLC. *)
EXTENDS ConflictCheck

CONSTANTS a1, n1

OneClient == {{[role |-> "client", name |-> n1]}}

SameName == {<<n1, n1>>}
=============================================================================
