----------------------------- MODULE FrameworkRun -----------------------------
(***************************************************************************)
(* A read-only run of the framework process over one case snapshot:        *)
(* ReadonlyCaseSession (app/forge_readonly.py), the bridge that serves the *)
(* process over two pipes (app/forge_bridge.py), the process itself        *)
(* (app/forge_worker.py) and what start() reports (app/forge_runtime.py).  *)
(* The process asks for one node after the other; the host tests before    *)
(* and after each that the caller may still see the case and that the case *)
(* still is what the snapshot holds.  The process may die, hang, or send   *)
(* anything; the case changes and rights are withdrawn at any moment.      *)
(***************************************************************************)
EXTENDS Naturals, Sequences, SequencesExt

CONSTANTS
    Specialists, DependsOn,    \* DependsOn[n]: the specialists n reads
    Plans,                     \* the sets of specialists a question may plan
    CaseStates,                \* contents the case and the corpus may have
    NoRequest, NoSession

ASSUME FrameworkConstants ==
    /\ DependsOn \in [Specialists -> SUBSET Specialists]
    /\ \A dag \in Plans : /\ dag \subseteq Specialists
                           /\ \A n \in dag : DependsOn[n] \subseteq dag
    /\ NoSession \notin CaseStates
    /\ Specialists \cap {"planner", "memory_recall", "retrieve", "critic", "finish"} = {}

FrameworkNodes == {"planner", "memory_recall", "retrieve", "critic", "finish"} \cup Specialists

VARIABLES
    dag,        \* the specialists the question's plan names
    material,   \* what the case and the corpus hold now
    mayView,    \* the caller may view the case
    captured,   \* the contents the session froze, or NoSession
    outputs,    \* the nodes done, in order (the access log)
    bridge,     \* [phase, node, seq]: waiting, computing, leaving, ended
    sidecar,    \* [state, seq, honest]: ready, asked, done, dead
    message,    \* the line on its way to the host, or NoRequest
    overdue,    \* the deadline has passed
    reported    \* what the caller was told

frameworkVars == <<dag, material, mayView, captured, outputs, bridge, sidecar,
                   message, overdue, reported>>

FrameworkInit ==
    /\ dag \in Plans
    /\ material \in CaseStates
    /\ mayView \in BOOLEAN
    /\ captured = NoSession
    /\ outputs = <<>>
    /\ bridge = [phase |-> "idle", node |-> "planner", seq |-> 0]
    /\ sidecar = [state |-> "none", seq |-> 0, honest |-> FALSE]
    /\ message = NoRequest
    /\ overdue = FALSE
    /\ reported = "none"

NodesDone == ToSet(outputs)

------------------------------------------------------------------------------
(* Mistakes the code could contain; PROJECT.json pairs each with the        *)
(* definition it replaces and the property that must notice it.             *)

RunnableInAnyOrder(n) == n \notin ToSet(outputs) /\ (n \in Specialists => n \in dag)

------------------------------------------------------------------------------

\* What a node needs before it (ReadonlyCaseSession._call).
Requires(n) ==
    CASE n = "planner"       -> {}
      [] n = "memory_recall" -> {"planner"}
      [] n = "retrieve"      -> {"planner", "memory_recall"}
      [] n = "critic"        -> {"planner", "retrieve"} \cup dag
      [] n = "finish"        -> {"planner", "retrieve", "critic"}
      [] OTHER               -> {"planner", "retrieve"} \cup DependsOn[n]

Planned(n) == n \in Specialists => n \in dag

\* The tests of ReadonlyCaseSession.call and _call before a node is computed.
Runnable(n) == /\ n \notin NodesDone
               /\ Requires(n) \subseteq NodesDone
               /\ Planned(n)

\* assert_current: the right first, then the contents.
StillCurrent == mayView /\ material = captured

EndFramework(told) ==
    /\ reported' = told
    /\ bridge' = [bridge EXCEPT !.phase = "ended"]

\* run_framework kills the process whenever it leaves with an error.
Abort(told) == EndFramework(told) /\ sidecar' = [sidecar EXCEPT !.state = "dead"]

ChangeCase(c) ==
    /\ c # material
    /\ material' = c
    /\ UNCHANGED <<dag, mayView, captured, outputs, bridge, sidecar, message, overdue, reported>>

ChangeRight ==
    /\ mayView' = ~mayView
    /\ UNCHANGED <<dag, material, captured, outputs, bridge, sidecar, message, overdue, reported>>

DeadlinePasses ==
    /\ bridge.phase \notin {"idle", "ended"} /\ ~overdue
    /\ overdue' = TRUE
    /\ UNCHANGED <<dag, material, mayView, captured, outputs, bridge, sidecar, message, reported>>

------------------------------------------------------------------------------
(* The host.                                                                *)

\* The session is opened and the process started.  It may be another one than
\* the one in forge_worker.py.
StartFramework(honest) ==
    /\ bridge.phase = "idle"
    /\ IF mayView
       THEN /\ captured' = material
            /\ bridge' = [bridge EXCEPT !.phase = "waiting"]
            /\ sidecar' = [state |-> "ready", seq |-> 0, honest |-> honest]
            /\ UNCHANGED reported
       ELSE /\ EndFramework("raised")
            /\ UNCHANGED <<captured, sidecar>>
    /\ UNCHANGED <<dag, material, mayView, outputs, message, overdue>>

\* No interpreter is configured, or the process cannot be started.
CannotStart(told) ==
    /\ bridge.phase = "idle" /\ mayView
    /\ EndFramework(told)
    /\ UNCHANGED <<dag, material, mayView, captured, outputs, sidecar, message, overdue>>

InSequence(request) == request.seq = bridge.seq + 1

\* A node request: the sequence number, the session's tests, the dependencies.
AcceptNode ==
    LET n == message.node
    IN  /\ bridge.phase = "waiting" /\ message # NoRequest /\ message.kind = "node"
        /\ InSequence(message) /\ StillCurrent /\ Runnable(n)
        /\ bridge' = [phase |-> "computing", node |-> n, seq |-> message.seq]
        /\ message' = NoRequest
        /\ UNCHANGED <<dag, material, mayView, captured, outputs, sidecar, overdue, reported>>

\* The session's errors reach the caller; a ValueError becomes "rejected", a
\* protocol error "unknown".
RefuseNode ==
    LET n == message.node
    IN  /\ bridge.phase = "waiting" /\ message # NoRequest /\ message.kind = "node"
        /\ \/ ~InSequence(message) /\ Abort("unknown")
           \/ InSequence(message) /\ ~StillCurrent /\ Abort("raised")
           \/ InSequence(message) /\ StillCurrent /\ ~Runnable(n) /\ Abort("rejected")
        /\ UNCHANGED <<dag, material, mayView, captured, outputs, message, overdue>>

\* A line that is not JSON is a ValueError too.
RefuseNoise ==
    /\ bridge.phase = "waiting" /\ message # NoRequest /\ message.kind = "noise"
    /\ Abort("rejected")
    /\ UNCHANGED <<dag, material, mayView, captured, outputs, message, overdue>>

\* The node itself raises: a limit on the pages, a citation without its source.
NodeRaises(told) ==
    /\ bridge.phase = "computing"
    /\ Abort(told)
    /\ UNCHANGED <<dag, material, mayView, captured, outputs, message, overdue>>

\* The node's output counts only if nothing changed under it.
FinishNode ==
    /\ bridge.phase = "computing"
    /\ IF ~StillCurrent
       THEN Abort("raised") /\ UNCHANGED outputs
       ELSE /\ outputs' = Append(outputs, bridge.node)
            /\ IF overdue
               THEN Abort("unknown")
               ELSE /\ bridge' = [bridge EXCEPT !.phase = "waiting"]
                    /\ sidecar' = IF sidecar.state = "asked"
                                 THEN [sidecar EXCEPT !.state = "ready"] ELSE sidecar
                    /\ UNCHANGED reported
    /\ UNCHANGED <<dag, material, mayView, captured, message, overdue>>

\* A result: its versions and its trace first, then the session's tests, and
\* success is believed only after the last node.
Believable(status) == status = "succeeded" => "finish" \in NodesDone

AcceptResult ==
    /\ bridge.phase = "waiting" /\ message # NoRequest /\ message.kind = "result"
    /\ message' = NoRequest
    /\ IF message.status # "mismatched" /\ StillCurrent /\ Believable(message.status)
       THEN /\ bridge' = [bridge EXCEPT !.phase = "leaving", !.node = message.status]
            /\ UNCHANGED <<sidecar, reported>>
       ELSE Abort(IF message.status # "mismatched" /\ ~StillCurrent
                  THEN "raised" ELSE "unknown")
    /\ UNCHANGED <<dag, material, mayView, captured, outputs, overdue>>

\* Standard input is closed, the process is waited for, for a tenth of a second
\* even after the deadline, and the answer compared with the native one, which
\* tests the contents once more.
WaitForExit ==
    /\ bridge.phase = "leaving" /\ sidecar.state = "done"
    /\ EndFramework(IF "finish" \in NodesDone /\ ~StillCurrent THEN "raised"
                    ELSE IF bridge.node = "succeeded" THEN "completed" ELSE "failed")
    /\ UNCHANGED <<dag, material, mayView, captured, outputs, sidecar, message, overdue>>

\* The deadline or the end of the pipe while waiting, and a bad exit code, leave
\* the outcome unknown.  A process that does not exit raises TimeoutExpired,
\* which start() does not catch.
GiveUp ==
    /\ \/ /\ bridge.phase = "waiting"
          /\ overdue \/ (message = NoRequest /\ sidecar.state \in {"dead", "done"})
          /\ Abort("unknown")
       \/ bridge.phase = "leaving" /\ sidecar.state = "dead" /\ Abort("unknown")
       \/ bridge.phase = "leaving" /\ overdue /\ Abort("raised")
    /\ UNCHANGED <<dag, material, mayView, captured, outputs, message, overdue>>

------------------------------------------------------------------------------
(* The process.                                                             *)

SendMessage(request) ==
    /\ message' = request
    /\ sidecar' = [sidecar EXCEPT !.seq = request.seq, !.state = "asked"]
    /\ UNCHANGED <<dag, material, mayView, captured, outputs, bridge, overdue, reported>>

\* HostDag: planner, memory, retrieval, every planned specialist once those it
\* depends on are done, critic, finish.
AskNode(n) ==
    /\ sidecar.state = "ready" /\ sidecar.honest /\ message = NoRequest
    /\ Runnable(n)
    /\ SendMessage([kind |-> "node", node |-> n, seq |-> sidecar.seq + 1, status |-> "none"])

\* The process ends after its result was taken or written.
SendResult(status) ==
    /\ sidecar.state = "ready" /\ sidecar.honest /\ message = NoRequest
    /\ status = "succeeded" => "finish" \in NodesDone
    /\ message' = [kind |-> "result", node |-> "finish", seq |-> sidecar.seq, status |-> status]
    /\ sidecar' = [sidecar EXCEPT !.state = "done"]
    /\ UNCHANGED <<dag, material, mayView, captured, outputs, bridge, overdue, reported>>

\* Any other process with the token: any node, a stale or wrong number, an early
\* result, one of another version, or noise.
SendAnything(kind, n, seq, status) ==
    /\ sidecar.state \in {"ready", "asked"} /\ ~sidecar.honest /\ message = NoRequest
    /\ message' = [kind |-> kind, node |-> n, seq |-> seq, status |-> status]
    /\ sidecar' = [sidecar EXCEPT !.state = IF kind = "result" THEN "done" ELSE "asked"]
    /\ UNCHANGED <<dag, material, mayView, captured, outputs, bridge, overdue, reported>>

WorkerDies ==
    /\ sidecar.state \in {"ready", "asked", "done"} /\ bridge.phase # "ended"
    /\ sidecar' = [sidecar EXCEPT !.state = "dead"]
    /\ UNCHANGED <<dag, material, mayView, captured, outputs, bridge, message, overdue, reported>>

FrameworkNext ==
    \/ \E c \in CaseStates : ChangeCase(c)
    \/ ChangeRight \/ DeadlinePasses
    \/ \E honest \in BOOLEAN : StartFramework(honest)
    \/ \E told \in {"rejected", "unknown"} : CannotStart(told)
    \/ \E told \in {"rejected", "raised"} : NodeRaises(told)
    \/ AcceptNode \/ RefuseNode \/ RefuseNoise \/ FinishNode \/ AcceptResult \/ WaitForExit \/ GiveUp
    \/ \E n \in FrameworkNodes : AskNode(n)
    \/ \E status \in {"succeeded", "failed"} : SendResult(status)
    \/ \E n \in FrameworkNodes, seq \in 0 .. Cardinality(FrameworkNodes) + 1 :
          SendAnything("node", n, seq, "none")
    \/ \E status \in {"succeeded", "failed", "mismatched"} :
          SendAnything("result", "finish", 0, status)
    \/ SendAnything("noise", "finish", 0, "none")
    \/ WorkerDies

FrameworkSpec == FrameworkInit /\ [][FrameworkNext]_frameworkVars

------------------------------------------------------------------------------
FrameworkTypeOK ==
    /\ dag \in Plans /\ material \in CaseStates /\ mayView \in BOOLEAN /\ overdue \in BOOLEAN
    /\ captured \in CaseStates \cup {NoSession}
    /\ outputs \in Seq(FrameworkNodes)
    /\ bridge \in [phase : {"idle", "waiting", "computing", "leaving", "ended"},
                 node : FrameworkNodes \cup {"succeeded", "failed"}, seq : Nat]
    /\ sidecar \in [state : {"none", "ready", "asked", "done", "dead"}, seq : Nat,
                   honest : BOOLEAN]
    /\ message \in [kind : {"node", "result", "noise"}, node : FrameworkNodes, seq : Nat,
                   status : {"none", "succeeded", "failed", "mismatched"}]
                  \cup {NoRequest}
    /\ reported \in {"none", "raised", "rejected", "unknown", "completed", "failed"}

\* A run reported as completed did the whole plan, each node once and after all
\* it depends on, whatever process was at the other end of the pipes, and from
\* one snapshot that a caller with the right to it had taken.
CompletedIsWhole ==
    reported = "completed" =>
        /\ captured # NoSession
        /\ NodesDone = (FrameworkNodes \ Specialists) \cup dag
        /\ \A j, k \in DOMAIN outputs : j # k => outputs[j] # outputs[k]
        /\ \A k \in DOMAIN outputs :
              Requires(outputs[k]) \subseteq {outputs[j] : j \in 1 .. k - 1}
==============================================================================
