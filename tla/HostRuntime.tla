----------------------------- MODULE HostRuntime -----------------------------
(***************************************************************************)
(* Durable runs on isolated worker processes (app/host_integration.py,     *)
(* app/host_writes.py, app/host_integration_worker.py).                    *)
(*                                                                         *)
(* The host keeps a link row per request and performs every business       *)
(* write; a sidecar process keeps the state of the run in files of its own *)
(* (the ForgeHarness framework) and asks the host for each write.  A drive *)
(* takes the lease of the request, starts a sidecar, serves its calls and  *)
(* projects its events into the link row.  Sidecar, host and machine may   *)
(* die between any two steps; nothing runs until somebody drives again.    *)
(*                                                                         *)
(* A framework step and the host call that authorizes it are one action:   *)
(* nothing of the host reads the files of a run that is driven.            *)
(***************************************************************************)
EXTENDS Naturals, FiniteSets

CONSTANTS
    Requests,
    Approval,     \* requests whose audit node waits for an approval
    Drivers,      \* host threads or processes that may call drive or the purge
    Nodes,        \* nodes of the graph that the instance keeps
    None,
    Slots,        \* worker processes at a time (2 in the code)
    Limit,        \* admitted requests (4 in the code)
    MaxDrives,    \* bound: leases taken for each request
    MaxFaults     \* bound: deaths, refusals and losses together

\* The fixed graph of IsolatedHostIntegration._actions: a node waits for all
\* nodes of earlier stages; nodes are visited in this order.
Stage == [user |-> 0, step |-> 1, gap |-> 1, draft |-> 2, assistant |-> 3, audit |-> 4]
Order == [user |-> 1, step |-> 2, gap |-> 3, draft |-> 4, assistant |-> 5, audit |-> 6]

ASSUME NamesAssumption == None \notin Requests /\ Approval \subseteq Requests
ASSUME NodesAssumption == Nodes # {} /\ Nodes \subseteq DOMAIN Stage /\ None \notin Nodes
ASSUME BoundsAssumption ==
    Slots \in Nat /\ Limit \in Nat /\ MaxDrives \in [Requests -> Nat] /\ MaxFaults \in Nat
ASSUME RequestsAssumption == IsFiniteSet(Requests)

VARIABLES
    link,      \* host_runtime_links rows
    run,       \* status of the agent_runs row of each request
    receipts,  \* host_write_receipts: the nodes whose effect is committed
    outbox,    \* host_runtime_cleanup
    clock,     \* 0: in time, 1: past the host's deadline, 2: past the framework's too
    frame,     \* the framework's files of each run
    worker,    \* what each driver and its sidecar are doing
    calls,     \* history: how often each node was sent to the host as a write
    drives, faults

host == <<link, run, receipts, outbox>>
bounds == <<drives, faults>>
vars == <<host, clock, frame, worker, calls, bounds>>

SidecarPhases ==
    {"find", "start", "create", "approve", "settle", "advance", "admitted", "started",
     "call", "applied", "denied", "finish", "reconcile", "result"}

Terminal == {"succeeded", "failed", "cancelled", "exhausted"}

NoFrame ==
    [status |-> "none", cancel |-> FALSE, revision |-> 0, published |-> 0,
     node |-> [n \in Nodes |-> "pending"], journal |-> [n \in Nodes |-> "none"]]

NoLink == [status |-> "none", cancel |-> FALSE, started |-> FALSE, cursor |-> 0]

Idle ==
    [phase |-> "idle", request |-> None, command |-> "none", row |-> NoLink, node |-> None,
     todo |-> {}, ask |-> {}, listed |-> FALSE, stop |-> "none"]

Init ==
    /\ link = [q \in Requests |-> NoLink]
    /\ run = [q \in Requests |-> "none"]
    /\ receipts = [q \in Requests |-> {}]
    /\ outbox = {}
    /\ clock = [q \in Requests |-> 0]
    /\ frame = [q \in Requests |-> NoFrame]
    /\ worker = [d \in Drivers |-> Idle]
    /\ calls = [q \in Requests |-> [n \in Nodes |-> 0]]
    /\ drives = [q \in Requests |-> 0] /\ faults = 0

-----------------------------------------------------------------------------
Gone(q) == link[q].status = "deleted"

Leased(q) == \E d \in Drivers : worker[d].request = q

First(ns) == CHOOSE n \in ns : \A m \in ns : Order[n] <= Order[m]

Goto(d, phase) == worker' = [worker EXCEPT ![d].phase = phase]

Release(d) == worker' = [worker EXCEPT ![d] = Idle]

Fault == faults < MaxFaults /\ faults' = faults + 1

-----------------------------------------------------------------------------
(* Mistakes the code could contain; PROJECT.json pairs each with the        *)
(* definition it replaces and the property that must notice it.             *)

StartsAgain(q)          == ~link[q].cancel /\ clock[q] = 0
WritesOnOldRow(d)       == ~worker[d].row.cancel /\ clock[worker[d].request] = 0
TrustsDispatch(q, n)    == frame[q].journal[n] = "started"
AcceptsGaps(q)          == TRUE
RowFirst                == <<"row", "files">>
AsksForever(d, n)       == worker[d].ask

-----------------------------------------------------------------------------
(* Requests                                                                *)

\* Requests that occupy an admission.
Open == {q \in Requests : link[q].status \notin Terminal \cup {"none", "deleted"}}

\* accept: run receipt, conversation, request and link rows in one transaction;
\* a repeated request finds them and changes nothing.
Admits == Cardinality(Open) < Limit

Accept(q) ==
    /\ link[q].status = "none"
    /\ Admits
    /\ link' = [link EXCEPT ![q].status = "queued"]
    /\ run' = [run EXCEPT ![q] = "running"]
    /\ UNCHANGED <<receipts, outbox, clock, frame, worker, calls, bounds>>

\* The status of the agent_runs row that goes with a link status.
RunStatus(q, status) ==
    CASE status = "succeeded" -> "completed"
      [] status \in Terminal \ {"succeeded"} -> "failed"
      [] OTHER -> run[q]

\* cancel: a request that is still queued is cancelled at once.
Cancel(q) ==
    LET status == IF link[q].status = "queued" THEN "cancelled" ELSE link[q].status
    IN  /\ link[q].status \notin Terminal \cup {"none", "deleted"}
        /\ link' = [link EXCEPT ![q].cancel = TRUE, ![q].status = status]
        /\ run' = [run EXCEPT ![q] = RunStatus(q, status)]
        /\ UNCHANGED <<receipts, outbox, clock, frame, worker, calls, bounds>>

\* Both deadlines are absolute; the framework's counts from the creation of its run.
Tick(q) ==
    /\ ~Gone(q) /\ link[q].status # "none"
    /\ clock[q] = 0 \/ (clock[q] = 1 /\ frame[q].status # "none")
    /\ clock' = [clock EXCEPT ![q] = @ + 1]
    /\ UNCHANGED <<host, frame, worker, calls, bounds>>

\* Deleting the case cascades; the trigger leaves a row in the outbox.
DeleteCase(q) ==
    /\ ~Gone(q) /\ link[q].status # "none"
    /\ link' = [link EXCEPT ![q] = [NoLink EXCEPT !.status = "deleted"]]
    /\ run' = [run EXCEPT ![q] = "none"]
    /\ receipts' = [receipts EXCEPT ![q] = {}]
    /\ outbox' = outbox \cup {q}
    /\ UNCHANGED <<clock, frame, worker, calls, bounds>>

-----------------------------------------------------------------------------
(* drive: the lease and the transaction before the sidecar                 *)

TakeLease(d, q, command) ==
    /\ worker[d].phase = "idle"
    /\ ~Leased(q)
    /\ Cardinality({x \in Drivers : worker[x].phase # "idle"}) < Slots
    /\ drives[q] < MaxDrives[q] /\ drives' = [drives EXCEPT ![q] = @ + 1]
    /\ worker' = [worker EXCEPT ![d] =
                     [Idle EXCEPT !.request = q, !.command = command,
                                  !.phase = IF command = "purge" THEN "purge" ELSE "begin"]]
    /\ UNCHANGED <<host, clock, frame, calls, faults>>

Drive(d, q) ==
    /\ link[q].status \notin {"none", "deleted"}
    /\ \E command \in {"recover", "inspect", "approve"} : TakeLease(d, q, command)

\* A queued request past its deadline has never been dispatched.
Expired(q) ==
    link[q].status \in {"queued", "exhausted"} /\ link[q].cursor = 0 /\ clock[q] > 0

Begin(d) ==
    LET q == worker[d].request
        status == IF Expired(q) THEN "exhausted"
                  ELSE IF link[q].status = "queued" /\ worker[d].command # "inspect" THEN "running"
                  ELSE link[q].status
        ends == Gone(q) \/ Expired(q) \/ (link[q].status = "cancelled" /\ link[q].cursor = 0)
    IN  /\ worker[d].phase = "begin"
        /\ link' = [link EXCEPT ![q].status = status]
        /\ run' = [run EXCEPT ![q] = IF Expired(q) THEN RunStatus(q, status) ELSE @]
        /\ IF ends THEN Release(d)
           ELSE worker' = [worker EXCEPT ![d].phase = "find", ![d].row = link[q]]
        /\ UNCHANGED <<receipts, outbox, clock, frame, calls, bounds>>

-----------------------------------------------------------------------------
(* The sidecar.  Every reply of the host carries the cancel flag, which the *)
(* sidecar stores in the run.                                               *)

Heard(q) == [frame[q] EXCEPT !.cancel = @ \/ (link[q].cancel /\ frame[q].status \notin Terminal)]

StopReason(q) ==
    IF Heard(q).cancel THEN "cancelled" ELSE IF clock[q] = 2 THEN "deadline" ELSE "none"

\* The sidecar of driver d is in this phase, and the host answers it.
At(d, phase) == worker[d].phase = phase /\ ~Gone(worker[d].request)

\* A save of the run with its event, and the publication of the event; a death
\* between the two leaves the event in the framework's outbox.
Save(d, g, next) ==
    LET q == worker[d].request
        saved == [g EXCEPT !.revision = @ + 1]
    IN  \/ /\ frame' = [frame EXCEPT ![q] = [saved EXCEPT !.published = saved.revision]]
           /\ worker' = [worker EXCEPT ![d] = next]
           /\ UNCHANGED <<host, clock, calls, bounds>>
        \/ /\ Fault
           /\ frame' = [frame EXCEPT ![q] = saved]
           /\ \E after \in {Idle, [worker[d] EXCEPT !.phase = "failed"]} :
                 worker' = [worker EXCEPT ![d] = after]
           /\ UNCHANGED <<host, clock, calls, drives>>

Unsettled(g) == {n \in Nodes : g.node[n] \in {"admitted", "unknown"}}

Waiting(g) == {n \in Nodes : g.node[n] = "awaiting"}

\* harness.find, then by command: a new run needs the host's permission, an
\* inspection only reads, an approval needs the waiting node, recovery resumes.
FindRun(d) ==
    LET q == worker[d].request
        g == Heard(q)
        resumed == [g EXCEPT !.published = g.revision]
        command == worker[d].command
    IN  /\ At(d, "find")
        /\ \/ /\ frame[q].status = "none"
              /\ Goto(d, IF command = "inspect" THEN "failed" ELSE "start")
              /\ UNCHANGED frame
           \/ /\ frame[q].status # "none" /\ command = "inspect"
              /\ frame' = [frame EXCEPT ![q] = g]
              /\ Goto(d, "result")
           \/ /\ frame[q].status # "none" /\ command = "approve"
              /\ frame' = [frame EXCEPT ![q] = g]
              /\ Goto(d, IF g.cancel \/ Waiting(g) = {} THEN "failed" ELSE "approve")
           \/ /\ frame[q].status # "none" /\ command = "recover"
              /\ frame' = [frame EXCEPT ![q] = resumed]
              /\ worker' = [worker EXCEPT
                               ![d].phase = IF g.status \in Terminal THEN "result" ELSE "settle",
                               ![d].todo = Unsettled(g)]
        /\ UNCHANGED <<host, clock, calls, bounds>>

\* The one-time permission to create the state of a run.
StartAllowed(q) == ~link[q].started /\ ~link[q].cancel /\ clock[q] = 0

AuthorizeStart(d) ==
    LET q == worker[d].request
    IN  /\ At(d, "start")
        /\ IF StartAllowed(q)
           THEN link' = [link EXCEPT ![q].started = TRUE] /\ Goto(d, "create")
           ELSE UNCHANGED link /\ Goto(d, "failed")
        /\ UNCHANGED <<run, receipts, outbox, clock, frame, calls, bounds>>

CreateRun(d) ==
    /\ At(d, "create")
    /\ Save(d, [NoFrame EXCEPT !.status = "running"],
            [worker[d] EXCEPT !.phase = "settle", !.command = "start"])

\* resume with a grant: the waiting node is admitted with it.
ApproveNode(d) ==
    LET q == worker[d].request
        g == [Heard(q) EXCEPT !.published = frame[q].revision]
        n == First(Waiting(g))
        admitted == [g EXCEPT !.node[n] = "admitted", !.status = "running"]
    IN  /\ At(d, "approve")
        /\ IF StopReason(q) # "none"
           THEN /\ frame' = [frame EXCEPT ![q] = g]
                /\ worker' = [worker EXCEPT ![d].phase = "finish", ![d].stop = StopReason(q)]
                /\ UNCHANGED <<host, clock, calls, bounds>>
           ELSE Save(d, admitted, [worker[d] EXCEPT !.phase = "settle", !.todo = Unsettled(admitted)])

\* What the journal says of an admitted or unknown node: not called yet, called
\* and answered, or called without a known answer.
SettleNode(d) ==
    LET q == worker[d].request
        g == Heard(q)
        n == First(worker[d].todo)
        rest == [worker[d] EXCEPT !.todo = @ \ {n}]
    IN  /\ At(d, "settle")
        /\ \/ /\ worker[d].todo = {}
              /\ Goto(d, "advance")
              /\ UNCHANGED <<host, clock, frame, calls, bounds>>
           \/ /\ worker[d].todo # {} /\ g.journal[n] = "none"
              /\ worker' = [worker EXCEPT ![d] = [rest EXCEPT !.phase = "admitted", !.node = n]]
              /\ UNCHANGED <<host, clock, frame, calls, bounds>>
           \/ /\ worker[d].todo # {} /\ g.journal[n] # "none"
              /\ Save(d, [g EXCEPT !.node[n] =
                             IF g.journal[n] = "completed" THEN "completed" ELSE "unknown"], rest)

Ready(g) ==
    {n \in Nodes : g.node[n] = "pending" /\
                   \A m \in Nodes : Stage[m] < Stage[n] => g.node[m] = "completed"}

Finishing(d, why) ==
    worker' = [worker EXCEPT ![d].phase = "finish", ![d].stop = why]

Advance(d) ==
    LET q == worker[d].request
        g == Heard(q)
        n == First(Ready(g))
    IN  /\ At(d, "advance")
        /\ \/ /\ Ready(g) = {} \/ StopReason(q) # "none"
              /\ frame' = [frame EXCEPT ![q] = g]
              /\ Finishing(d, IF Ready(g) = {} THEN "none" ELSE StopReason(q))
              /\ UNCHANGED <<host, clock, calls, bounds>>
           \/ /\ Ready(g) # {} /\ StopReason(q) = "none"
              /\ IF n = "audit" /\ q \in Approval
                 THEN Save(d, [g EXCEPT !.node[n] = "awaiting"], worker[d])
                 ELSE Save(d, [g EXCEPT !.node[n] = "admitted", !.status = "running"],
                           [worker[d] EXCEPT !.phase = "admitted", !.node = n])

\* The journal is marked before the call.
Dispatch(d) ==
    LET q == worker[d].request
        g == Heard(q)
    IN  /\ At(d, "admitted")
        /\ IF StopReason(q) # "none"
           THEN frame' = [frame EXCEPT ![q] = g] /\ Finishing(d, StopReason(q))
           ELSE /\ frame' = [frame EXCEPT ![q] = [g EXCEPT !.journal[worker[d].node] = "started"]]
                /\ Goto(d, "started")
        /\ UNCHANGED <<host, clock, calls, bounds>>

\* The last test before the call; a stop here leaves a call of unknown outcome.
Attempt(d) ==
    LET q == worker[d].request
        g == Heard(q)
        n == worker[d].node
    IN  /\ At(d, "started")
        /\ IF StopReason(q) # "none"
           THEN Save(d, [g EXCEPT !.node[n] = "unknown"],
                     [worker[d] EXCEPT !.phase = "finish", !.stop = StopReason(q)])
           ELSE /\ Goto(d, "call")
                /\ calls' = [calls EXCEPT ![q][n] = @ + 1]
                /\ UNCHANGED <<host, clock, frame, bounds>>

\* _invoke_action: cancel and deadline are tested in the transaction that
\* commits effect and receipt.
WriteAllowed(d) == ~link[worker[d].request].cancel /\ clock[worker[d].request] = 0

Write(d) ==
    LET q == worker[d].request
    IN  /\ At(d, "call")
        /\ IF WriteAllowed(d)
           THEN /\ receipts' = [receipts EXCEPT ![q] = @ \cup {worker[d].node}]
                /\ Goto(d, "applied")
           ELSE UNCHANGED receipts /\ Goto(d, "denied")
        /\ UNCHANGED <<link, run, outbox, clock, frame, calls, bounds>>

\* A refusal reports no usage, so its outcome counts as unknown.
Answered(d) ==
    LET q == worker[d].request
        n == worker[d].node
        outcome == IF worker[d].phase = "applied" THEN "completed" ELSE "failed"
    IN  /\ At(d, "applied") \/ At(d, "denied")
        /\ frame' = [frame EXCEPT ![q] = [Heard(q) EXCEPT !.journal[n] = outcome]]
        /\ worker' = [worker EXCEPT ![d].phase = "settle", ![d].todo = @ \cup {n}]
        /\ UNCHANGED <<host, clock, calls, bounds>>

\* _finish: an unknown node keeps the run open, whatever else happened.
FinishRun(d) ==
    LET q == worker[d].request
        g == Heard(q)
        unknown == {n \in Nodes : g.node[n] = "unknown"}
        stopped == worker[d].stop # "none" \/ clock[q] = 2 \/ g.cancel
        status == IF unknown # {} THEN "running"
                  ELSE IF stopped THEN (IF g.cancel THEN "cancelled" ELSE "exhausted")
                  ELSE IF Waiting(g) # {} THEN "awaiting_approval"
                  ELSE IF \A n \in Nodes : g.node[n] = "completed" THEN "succeeded" ELSE "failed"
        nodes == [n \in Nodes |-> IF status \in {"cancelled", "exhausted"} /\ g.node[n] # "completed"
                                  THEN "cancelled" ELSE g.node[n]]
    IN  /\ At(d, "finish")
        /\ Save(d, [g EXCEPT !.status = status, !.node = nodes],
                [worker[d] EXCEPT !.phase = IF worker[d].command = "recover" THEN "reconcile" ELSE "result",
                                  !.stop = "none", !.listed = TRUE,
                                  !.ask = IF worker[d].listed THEN @ ELSE unknown])

\* After a recovery the host is asked for the receipt of each unknown node; no
\* receipt proves nothing, and a settled call cannot get another result.
HasReceipt(q, n) == n \in receipts[q]

Asked(d, n) == worker[d].ask \ {n}

Reconcile(d) ==
    LET q == worker[d].request
        g == Heard(q)
        n == First(worker[d].ask)
        known == [g EXCEPT !.node[n] = "completed", !.journal[n] = "completed"]
        rest == [worker[d] EXCEPT !.ask = Asked(d, n)]
    IN  /\ At(d, "reconcile")
        /\ \/ /\ worker[d].ask = {}
              /\ Goto(d, "result")
              /\ UNCHANGED <<host, clock, frame, calls, bounds>>
           \/ /\ worker[d].ask # {} /\ ~HasReceipt(q, n)
              /\ frame' = [frame EXCEPT ![q] = g]
              /\ worker' = [worker EXCEPT ![d] = rest]
              /\ UNCHANGED <<host, clock, calls, bounds>>
           \/ /\ worker[d].ask # {} /\ HasReceipt(q, n) /\ g.journal[n] = "failed"
              /\ Goto(d, "failed")
              /\ UNCHANGED <<host, clock, frame, calls, bounds>>
           \/ /\ worker[d].ask # {} /\ HasReceipt(q, n) /\ g.journal[n] # "failed"
              /\ Save(d, known, [rest EXCEPT !.phase = "settle", !.todo = Unsettled(known)])

-----------------------------------------------------------------------------
(* The result and its projection                                           *)

\* A success after the deadline counts only if it was projected in time.
Receive(d) ==
    LET q == worker[d].request
        late == /\ frame[q].status = "succeeded" /\ clock[q] > 0
                /\ worker[d].row.status # "succeeded"
    IN  /\ worker[d].phase = "result"
        /\ Goto(d, IF late THEN "failed" ELSE "project")
        /\ UNCHANGED <<host, clock, frame, calls, bounds>>

\* A missing event never proves completion.
Complete(q) == frame[q].published = frame[q].revision

\* _project, outside of the handler that marks a request unknown.
Project(d) ==
    LET q == worker[d].request
        read == [link[q] EXCEPT !.cursor = frame[q].published, !.status = frame[q].status]
    IN  /\ worker[d].phase = "project"
        /\ IF ~Gone(q) /\ Complete(q)
           THEN /\ link' = [link EXCEPT ![q] = read]
                /\ run' = [run EXCEPT ![q] = RunStatus(q, read.status)]
           ELSE UNCHANGED <<link, run>>
        /\ Release(d)
        /\ UNCHANGED <<receipts, outbox, clock, frame, calls, bounds>>

\* What a failed sidecar leaves of a link row.
Unknown(q) ==
    IF link[q].status \in Terminal THEN link[q] ELSE [link[q] EXCEPT !.status = "unknown"]

MarkUnknown(d) ==
    LET q == worker[d].request
    IN  /\ worker[d].phase = "failed"
        /\ link' = [link EXCEPT ![q] = IF Gone(q) THEN @ ELSE Unknown(q)]
        /\ Release(d)
        /\ UNCHANGED <<run, receipts, outbox, clock, frame, calls, bounds>>

\* The host refuses a call of the sidecar: the case is gone, or its content or
\* the operator's rights have changed.  Nothing is marked.
HostRefuses(d) ==
    /\ worker[d].phase \in SidecarPhases \ {"result"}
    /\ \/ Gone(worker[d].request) /\ UNCHANGED faults
       \/ ~Gone(worker[d].request) /\ Fault
    /\ Release(d)
    /\ UNCHANGED <<host, clock, frame, calls, drives>>

-----------------------------------------------------------------------------
(* purge_deleted_state, with the lease of the request                      *)

Purge(d, q) == q \in outbox /\ TakeLease(d, q, "purge")

PurgeOrder == <<"files", "row">>

PurgeStep(d) ==
    LET q == worker[d].request
        step == PurgeOrder[IF worker[d].phase = "purge" THEN 1 ELSE 2]
    IN  /\ worker[d].phase \in {"purge", "purging"}
        /\ frame' = [frame EXCEPT ![q] = IF step = "files" THEN NoFrame ELSE @]
        /\ outbox' = IF step = "row" THEN outbox \ {q} ELSE outbox
        /\ IF worker[d].phase = "purge" THEN Goto(d, "purging") ELSE Release(d)
        /\ UNCHANGED <<link, run, receipts, clock, calls, bounds>>

-----------------------------------------------------------------------------
(* Faults                                                                  *)

\* The sidecar dies, does not answer in time or breaks the protocol.
SidecarFails(d) ==
    /\ worker[d].phase \in SidecarPhases
    /\ Fault
    /\ Goto(d, "failed")
    /\ UNCHANGED <<host, clock, frame, calls, drives>>

\* The host dies and with it the lease.  A sidecar that outlives it during a
\* call reads the end of the pipe and settles the call as failed.
HostDies(d) ==
    LET q == worker[d].request
        n == worker[d].node
        settled == [frame[q] EXCEPT !.journal[n] = "failed", !.node[n] = "unknown",
                                    !.revision = @ + 1, !.published = frame[q].revision + 1]
    IN  /\ worker[d].phase # "idle"
        /\ Fault
        /\ \/ UNCHANGED frame
           \/ /\ worker[d].phase \in {"call", "applied", "denied"}
              /\ frame' = [frame EXCEPT ![q] = settled]
        /\ Release(d)
        /\ UNCHANGED <<host, clock, calls, drives>>

\* The directory of a run that is not driven disappears.
LoseState(q) ==
    /\ ~Leased(q) /\ frame[q] # NoFrame
    /\ Fault
    /\ frame' = [frame EXCEPT ![q] = NoFrame]
    /\ UNCHANGED <<host, clock, worker, calls, drives>>

-----------------------------------------------------------------------------
\* What a driver that holds a lease does, faults apart.
DriveStep(d) ==
    \/ Begin(d) \/ FindRun(d) \/ AuthorizeStart(d) \/ CreateRun(d) \/ ApproveNode(d)
    \/ SettleNode(d) \/ Advance(d) \/ Dispatch(d) \/ Attempt(d) \/ Write(d) \/ Answered(d)
    \/ FinishRun(d) \/ Reconcile(d) \/ Receive(d) \/ Project(d) \/ MarkUnknown(d)
    \/ HostRefuses(d) \/ PurgeStep(d)

Next ==
    \/ \E q \in Requests : Accept(q) \/ Cancel(q) \/ Tick(q) \/ DeleteCase(q) \/ LoseState(q)
    \/ \E d \in Drivers, q \in Requests : Drive(d, q) \/ Purge(d, q)
    \/ \E d \in Drivers : DriveStep(d) \/ SidecarFails(d) \/ HostDies(d)

Spec == Init /\ [][Next]_vars

\* A process with a lease goes on or dies; nobody has to drive a request.
FairSpec == Spec /\ \A d \in Drivers : WF_vars(DriveStep(d))

-----------------------------------------------------------------------------
(* Properties                                                              *)

NodeStates == {"pending", "awaiting", "admitted", "unknown", "completed", "cancelled"}

LinkRow ==
    [status : {"none", "queued", "running", "awaiting_approval", "unknown", "deleted"} \cup Terminal,
     cancel : BOOLEAN, started : BOOLEAN, cursor : Nat]

FrameState ==
    [status : {"none", "running", "awaiting_approval"} \cup Terminal, cancel : BOOLEAN,
     revision : Nat, published : Nat, node : [Nodes -> NodeStates],
     journal : [Nodes -> {"none", "started", "completed", "failed"}]]

Driver ==
    [phase : {"idle", "begin", "failed", "project", "purge", "purging"} \cup SidecarPhases,
     request : Requests \cup {None},
     command : {"none", "recover", "inspect", "approve", "purge", "start"},
     row : LinkRow, node : Nodes \cup {None}, todo : SUBSET Nodes, ask : SUBSET Nodes,
     listed : BOOLEAN, stop : {"none", "cancelled", "deadline"}]

\* Every variable has its type.
TypeOK ==
    /\ link \in [Requests -> LinkRow]
    /\ run \in [Requests -> {"none", "running", "completed", "failed"}]
    /\ receipts \in [Requests -> SUBSET Nodes]
    /\ outbox \subseteq Requests
    /\ clock \in [Requests -> 0 .. 2]
    /\ frame \in [Requests -> FrameState]
    /\ worker \in [Drivers -> Driver]
    /\ calls \in [Requests -> [Nodes -> Nat]]
    /\ drives \in [Requests -> Nat] /\ faults \in 0 .. MaxFaults

\* Whatever dies or is lost, no node of a run is sent to the host as a write
\* twice: what may have happened is looked up by its receipt, never repeated.
CalledOnce == \A q \in Requests, n \in Nodes : calls[q][n] <= 1

\* A request the host reports as succeeded has every effect of its graph
\* committed with its receipt.
SuccessIsComplete ==
    \A q \in Requests : link[q].status = "succeeded" => receipts[q] = Nodes

\* After a cancellation or the deadline no effect is committed any more, however
\* late the call of the sidecar arrives.
EffectsStop ==
    [][\A q \in Requests :
          link[q].cancel \/ clock[q] > 0 => receipts'[q] \subseteq receipts[q]]_vars

\* The request was cancelled or its time is over; that of a deleted case is closed.
Closed(q) == Gone(q) \/ link[q].cancel \/ clock[q] > 0

\* What the client is told of a request.
Told(q) ==
    IF link[q].status \in Terminal \cup {"none", "deleted"} THEN link[q].status ELSE "open"

told == [q \in Requests |-> Told(q)]

closed == [q \in Requests |-> Closed(q)]

Promise == INSTANCE EffectsOnce WITH sent <- calls, done <- receipts

\* Durable runs implement the abstract promise of EffectsOnce: whatever dies or is
\* lost, an effect is asked for once and only before an end is told, committed once
\* and only before the request is closed; an end that was told is true and final.
EffectsKept == Promise!Spec

\* An end that the host projected is the end of the run in the framework's files,
\* read to its last event.
ProjectionIsCurrent ==
    \A q \in Requests :
        link[q].status \in Terminal /\ link[q].cursor > 0 /\ frame[q] # NoFrame
        => link[q].status = frame[q].status /\ link[q].cursor = frame[q].revision

\* Files of a deleted case exist only while the outbox still names them.
StateIsPurged == \A q \in Requests : Gone(q) /\ frame[q] # NoFrame => q \in outbox

\* A driver always gives the lease back.
DrivesEnd == \A d \in Drivers : worker[d].phase # "idle" ~> worker[d].phase = "idle"

-----------------------------------------------------------------------------
(* The inductive invariant                                                 *)

\* A lease is one driver's.
OneLease ==
    /\ \A d \in Drivers : worker[d].phase = "idle" <=> worker[d].request = None
    /\ \A d, e \in Drivers :
          worker[d].request = worker[e].request => d = e \/ worker[d].request = None

\* What has not been permitted has not been called.
Permitted ==
    \A q \in Requests, n \in Nodes : ~Gone(q) /\ ~link[q].started => calls[q][n] = 0

\* Files f of request q: an existing run was permitted, and what it has no journal
\* entry of was not called; a node that waits has no entry and a completed one was
\* answered; what was answered has its receipt; a run that succeeded has completed
\* every node.
FilesOK(q, f) ==
    /\ ~Gone(q) /\ f.status # "none" => link[q].started
    /\ \A n \in Nodes :
        /\ f.status # "none" /\ f.journal[n] = "none" => calls[q][n] = 0
        /\ f.node[n] \in {"pending", "awaiting"} => f.journal[n] = "none"
        /\ f.node[n] = "completed" => f.journal[n] = "completed"
        /\ ~Gone(q) /\ f.journal[n] = "completed" => n \in receipts[q]
        /\ f.status = "succeeded" => f.node[n] = "completed"

FilesSound == \A q \in Requests : FilesOK(q, frame[q])

CallPhases == {"call", "applied", "denied"}

NodePhases == {"admitted", "started"} \cup CallPhases

OpenNode(f, n) == f.node[n] \in {"admitted", "unknown"}

\* What a sidecar in state w knows of the files f of its run.
Knows(w, f) ==
    /\ w.phase \in SidecarPhases \ {"find", "start", "create"} => f.status # "none"
    /\ w.phase \in {"begin", "find", "start", "create"} => w.todo = {}
    /\ w.phase = "create" => \A n \in Nodes : calls[w.request][n] = 0
    /\ w.phase = "create" /\ ~Gone(w.request) => link[w.request].started
    /\ w.phase \in NodePhases \cup {"settle", "advance"} => \A n \in w.todo : OpenNode(f, n)
    /\ w.phase \in NodePhases => w.node \in Nodes /\ OpenNode(f, w.node)
    /\ w.phase = "admitted" => f.journal[w.node] = "none"
    /\ w.phase \in CallPhases \cup {"started"} => f.journal[w.node] = "started"
    /\ w.phase = "started" => calls[w.request][w.node] = 0
    /\ w.phase = "applied" /\ ~Gone(w.request) => w.node \in receipts[w.request]

SidecarKnows == \A d \in Drivers : Knows(worker[d], frame[worker[d].request])

\* Only requests of deleted cases are in the outbox, and the row of a purge goes
\* after the files.
PurgeKnows ==
    /\ \A q \in outbox : Gone(q)
    /\ \A d \in Drivers :
          /\ worker[d].phase \in {"purge", "purging"} => Gone(worker[d].request)
          /\ worker[d].phase = "purging" => frame[worker[d].request] = NoFrame

IInv ==
    /\ TypeOK
    /\ OneLease
    /\ Permitted
    /\ CalledOnce
    /\ FilesSound
    /\ SidecarKnows
    /\ PurgeKnows
    /\ SuccessIsComplete
    /\ StateIsPurged

-----------------------------------------------------------------------------
(* The inductive invariant of ProjectionIsCurrent, on top of IInv           *)

\* A run that has ended leaves no node open, and a node is unknown only after it
\* was called; a run is created with its first event.
EndedFiles(f) ==
    /\ f.status = "none" => f = NoFrame
    /\ \A n \in Nodes :
        /\ f.status \in Terminal => f.node[n] \notin {"awaiting", "unknown"}
        /\ f.node[n] = "unknown" => f.journal[n] \in {"started", "failed"}

OpenPhases == {"approve", "settle", "advance", "finish"} \cup NodePhases

\* A sidecar works only on a run that has not ended, calls only admitted nodes,
\* and asks for the receipts of nodes that are unknown until it has them.
WorksOn(w, f) ==
    /\ w.phase \in OpenPhases => f.status \notin Terminal
    /\ w.phase = "project" => f.status # "none"
    /\ w.phase = "create" => link[w.request].cursor = 0
    /\ w.phase \in {"begin", "find", "start", "create", "approve"} => w.ask = {}
    /\ w.phase \in OpenPhases \cup {"reconcile"} => \A n \in w.ask : f.node[n] = "unknown"
    /\ w.phase \in NodePhases => f.node[w.node] = "admitted"

\* What was projected came from a run that had been permitted.
CursorKnows ==
    \A q \in Requests :
        /\ link[q].cursor > 0 => link[q].started
        /\ link[q].status \in {"none", "queued", "deleted"} => link[q].cursor = 0

EndInv ==
    /\ \A q \in Requests : EndedFiles(frame[q])
    /\ \A d \in Drivers : WorksOn(worker[d], frame[worker[d].request])
    /\ CursorKnows
    /\ ProjectionIsCurrent

-----------------------------------------------------------------------------
(* The inductive invariant of EffectsKept, on top of IInv and EndInv         *)

\* A request that was not begun has no permission; an end without an event is that
\* of a request which was closed before it got the permission.
EarlyEnds ==
    \A q \in Requests :
        /\ link[q].status \in {"none", "queued"} => ~link[q].started
        /\ link[q].status \in Terminal /\ link[q].cursor = 0 =>
              /\ ~link[q].started /\ Closed(q)
              /\ link[q].status \in {"cancelled", "exhausted"}

\* A lease is of an accepted request, and a permission is asked for one that was
\* begun; a sidecar stops for a reason; the effect that it asks for is asked for
\* the first time and not committed.
Accounts(w) ==
    w.phase # "idle" =>
        /\ link[w.request].status # "none"
        /\ w.phase = "start" \/ (w.phase = "find" /\ w.command # "inspect")
           => link[w.request].status # "queued"
        /\ w.stop # "none" => Closed(w.request)
        /\ w.phase = "call" => /\ calls[w.request][w.node] = 1
                               /\ w.node \notin receipts[w.request]

\* A run has an event, and it was stopped for a reason.
CausedFiles(q, f) ==
    /\ f.status # "none" => f.revision > 0
    /\ f.cancel \/ f.status \in {"cancelled", "exhausted"} => Closed(q)

\* There is no receipt without the call.
ReceiptsFollow == \A q \in Requests : \A n \in receipts[q] : calls[q][n] = 1

PromiseInv ==
    /\ EarlyEnds
    /\ \A d \in Drivers : Accounts(worker[d])
    /\ \A q \in Requests : CausedFiles(q, frame[q])
    /\ ReceiptsFollow
=============================================================================
