------------------------------ MODULE AnswerOnce ------------------------------
(***************************************************************************)
(* What submitting a question under one request id promises a client: one  *)
(* turn is kept, every client that gets an answer gets that turn, and the  *)
(* turn is kept before anyone is told of it.  A client may get no answer   *)
(* at all and try again.  The promise ends when the retention of the id    *)
(* does (app/chat_idempotency.py, module docstring and RETENTION).         *)
(***************************************************************************)
CONSTANTS Clients, Nothing

VARIABLES
    kept,      \* the turn kept under the id: the client whose question made it
    told,      \* the turn each client was given
    lapsed     \* the retention is over

promise == <<kept, told, lapsed>>

Init ==
    /\ kept = Nothing
    /\ told = [c \in Clients |-> Nothing]
    /\ lapsed = FALSE

\* The turn is kept; its client may learn of it at once or never.
Keep(c) ==
    /\ ~lapsed /\ kept = Nothing
    /\ kept' = c
    /\ told' \in {told, [told EXCEPT ![c] = c]}
    /\ UNCHANGED lapsed

Tell(c) ==
    /\ ~lapsed /\ kept # Nothing /\ told[c] = Nothing
    /\ told' = [told EXCEPT ![c] = kept]
    /\ UNCHANGED <<kept, lapsed>>

Lapse ==
    /\ ~lapsed
    /\ lapsed' = TRUE /\ kept' = Nothing
    /\ UNCHANGED told

\* Nothing is promised any more.
Afterwards ==
    /\ lapsed
    /\ kept' \in Clients \cup {Nothing}
    /\ told' \in [Clients -> Clients \cup {Nothing}]
    /\ UNCHANGED lapsed

Next == (\E c \in Clients : Keep(c) \/ Tell(c)) \/ Lapse \/ Afterwards

Spec == Init /\ [][Next]_promise
==============================================================================
