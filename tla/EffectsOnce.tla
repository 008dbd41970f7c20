----------------------------- MODULE EffectsOnce -----------------------------
(***************************************************************************)
(* What the host promises of an isolated run, whatever dies (app/          *)
(* host_integration.py: cancel, authorize_start, _invoke_action, _project): *)
(* each node's effect is asked for at most once and only before an end is  *)
(* told, and committed at most once and only before the request is closed; *)
(* an end is told once and stays; success is told of a whole graph only.   *)
(***************************************************************************)
EXTENDS Naturals

CONSTANTS Requests, Nodes

VARIABLES
    told,      \* what the client is told of each request
    closed,    \* the request was cancelled or its time is over
    sent,      \* how often each node's effect was asked for
    done       \* the nodes whose effect is committed

promise == <<told, closed, sent, done>>

Stops == {"cancelled", "exhausted"}
Ends == Stops \cup {"succeeded", "failed"}

Init ==
    /\ told = [q \in Requests |-> "none"]
    /\ closed = [q \in Requests |-> FALSE]
    /\ sent = [q \in Requests |-> [n \in Nodes |-> 0]]
    /\ done = [q \in Requests |-> {}]

Take(q) ==
    /\ told[q] = "none"
    /\ told' = [told EXCEPT ![q] = "open"]
    /\ UNCHANGED <<closed, sent, done>>

\* The deadline may also pass after the end.
Close(q) ==
    /\ told[q] \notin {"none", "deleted"} /\ ~closed[q]
    /\ closed' = [closed EXCEPT ![q] = TRUE]
    /\ UNCHANGED <<told, sent, done>>

\* Closing and ending at once is for a request of which nothing was asked.
Withdraw(q) ==
    /\ told[q] = "open" /\ \A n \in Nodes : sent[q][n] = 0
    /\ closed' = [closed EXCEPT ![q] = TRUE]
    /\ told' = [told EXCEPT ![q] = "cancelled"]
    /\ UNCHANGED <<sent, done>>

Send(q, n) ==
    /\ told[q] = "open" /\ sent[q][n] = 0
    /\ sent' = [sent EXCEPT ![q][n] = 1]
    /\ UNCHANGED <<told, closed, done>>

Commit(q, n) ==
    /\ told[q] = "open" /\ ~closed[q]
    /\ sent[q][n] = 1 /\ n \notin done[q]
    /\ done' = [done EXCEPT ![q] = @ \cup {n}]
    /\ UNCHANGED <<told, closed, sent>>

Tell(q, end) ==
    /\ told[q] = "open"
    /\ end = "succeeded" => done[q] = Nodes
    /\ end \in Stops => closed[q]
    /\ told' = [told EXCEPT ![q] = end]
    /\ UNCHANGED <<closed, sent, done>>

\* The case of the request is deleted, and its receipts with it.
Forget(q) ==
    /\ told[q] \notin {"none", "deleted"}
    /\ told' = [told EXCEPT ![q] = "deleted"]
    /\ closed' = [closed EXCEPT ![q] = TRUE]
    /\ done' = [done EXCEPT ![q] = {}]
    /\ UNCHANGED sent

Next ==
    \E q \in Requests :
        \/ Take(q) \/ Close(q) \/ Withdraw(q) \/ Forget(q)
        \/ \E n \in Nodes : Send(q, n) \/ Commit(q, n)
        \/ \E end \in Ends : Tell(q, end)

Spec == Init /\ [][Next]_promise
==============================================================================
