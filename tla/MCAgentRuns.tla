----------------------------- MODULE MCAgentRuns -----------------------------
(* Instances of AgentRuns for TLC. *)
EXTENDS AgentRuns

CONSTANTS r1, r2, x1, x2
=============================================================================
