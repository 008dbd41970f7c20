------------------------------ MODULE AgentRuns ------------------------------
(***************************************************************************)
(* Agent runs and the background jobs that start them                      *)
(* (app/review_jobs.py, app/langgraph_agents.py, app/routes/agent_runs.py).*)
(*                                                                         *)
(* A question becomes a run, in the thread pool of review_jobs or in the   *)
(* thread of the agent-chat request.  The run executes a graph of nodes    *)
(* whose results LangGraph saves as checkpoints, possibly a moment after   *)
(* the next node has started.  A failed run can be resumed by any request: *)
(* it is checked against its checkpoint, claimed, and goes on where the    *)
(* checkpoint ends.  At the end the run row is completed and the turn is   *)
(* written, each in a transaction of its own.                              *)
(***************************************************************************)
EXTENDS Naturals, Sequences, FiniteSets

CONSTANTS
    Runs,         \* questions; each starts at most one run
    Background,   \* those that are submitted as review jobs
    Resumers,     \* resume requests that may be in flight at the same time
    Nodes,        \* the nodes of the graph that the instance keeps
    Workers,      \* threads of the review executor (2 in the code)
    Limit,        \* admitted jobs (4 in the code)
    MaxEdits,     \* bound: corrections of the page the runs retrieve
    MaxCrashes,   \* bound: crashes of the process
    MaxLost       \* bound: rows left open since the process was started

\* The superstep in which _build_graph's edges let a node run.
Stage == [start |-> 0, planner |-> 1, memory_recall |-> 2, retrieve |-> 3,
          facts |-> 4, evidence |-> 4, contradiction |-> 4, statutory_conflict |-> 4,
          gap_detection |-> 5, critic |-> 6, memory |-> 7]

ASSUME BackgroundAssumption == Background \subseteq Runs
ASSUME ResumersAssumption == Resumers \cap Runs = {}
ASSUME NodesAssumption ==
    {"start", "retrieve", "critic", "memory"} \subseteq Nodes /\ Nodes \subseteq DOMAIN Stage
ASSUME BoundsAssumption ==
    /\ Workers \in Nat \ {0} /\ Limit \in Nat \ {0}
    /\ MaxEdits \in Nat /\ MaxCrashes \in Nat /\ MaxLost \in Nat

VARIABLES
    server,      \* the process: up, closing (shutdown_review_executor runs) or down
    permits,     \* the admission semaphore
    queue,       \* the executor's queue
    request,     \* submit_review: how far the request of each job is
    future,      \* the executor's future of each job
    job,         \* review_jobs rows
    run,         \* agent_runs rows
    saved,       \* the checkpoint of each run
    drafts,      \* answers the critic of a run has written so far
    memory,      \* the draft in the memories row of each run, 0 if there is none
    turn,        \* the draft in the messages of each run, 0 if there are none
    work,        \* what the thread of a run or of a resume request is doing
    page,        \* revision of the page the runs retrieve
    lost,        \* history: rows left open by an UPDATE that raised
    crashes

rows == <<job, run, saved, drafts, memory, turn, page>>
pool == <<server, permits, queue, request, future, crashes>>
vars == <<rows, pool, work, lost>>

-----------------------------------------------------------------------------
\* What a thread carries; the thread of a question is named by its run.
Busy(phase, r, checkpoint, since) ==
    [phase |-> phase, run |-> r, done |-> checkpoint.nodes, basis |-> checkpoint.basis,
     draft |-> checkpoint.draft, since |-> since]

NoCheckpoint == [nodes |-> {}, basis |-> 0, draft |-> 0]

Idle(x) == Busy("idle", x, NoCheckpoint, 0)

Threads == Runs \cup Resumers

\* A thread inside graph.invoke, or between the last UPDATE and its result.
Executing(x) == work[x].phase \in {"graph", "closing"}

Goto(x, phase) == work' = [work EXCEPT ![x] = [@ EXCEPT !.phase = phase]]

Ended == {"completed", "failed", "interrupted"}

\* The database is locked for too long, or full, when a row of r is to be ended:
\* the UPDATE raises and nothing repeats it while the process runs.
LeaveOpen(table, r) ==
    /\ Cardinality(lost) < MaxLost
    /\ lost' = lost \cup {<<table, r>>}

-----------------------------------------------------------------------------
(* Mistakes the code could contain; PROJECT.json pairs each with the        *)
(* definition it replaces and the property that must notice it.             *)

ClaimsAnyRun(r)        == run[r].status # "none"
SkipsHashes(x)         == TRUE
KeepsPermit(r)         == 0
SwallowsErrors(x)      == IF x \in Background THEN "finish" ELSE "stopped"
RecordsEarly(x)        == work[x].phase = "record" \/ (work[x].phase = "graph" /\ work[x].draft # 0)
LeavesQueued(r)        == IF job[r] = "running" THEN "interrupted" ELSE job[r]
LeavesRunning(r)       == run[r].status

-----------------------------------------------------------------------------
Init ==
    /\ server = "up"
    /\ permits = Limit
    /\ queue = <<>>
    /\ request = [r \in Background |-> "none"]
    /\ future = [r \in Background |-> "none"]
    /\ job = [r \in Background |-> "none"]
    /\ run = [r \in Runs |-> [status |-> "none", answer |-> 0]]
    /\ saved = [r \in Runs |-> NoCheckpoint]
    /\ drafts = [r \in Runs |-> 0]
    /\ memory = [r \in Runs |-> 0]
    /\ turn = [r \in Runs |-> 0]
    /\ work = [x \in Threads |-> Idle(x)]
    /\ page = 0
    /\ lost = {}
    /\ crashes = 0

-----------------------------------------------------------------------------
(* submit_review                                                           *)

\* The semaphore is taken under the lifecycle lock, while there is an executor.
Admit(r) ==
    /\ request[r] = "none" /\ job[r] = "none"
    /\ server = "up"
    /\ permits > 0
    /\ permits' = permits - 1
    /\ request' = [request EXCEPT ![r] = "admitted"]
    /\ UNCHANGED <<rows, server, queue, future, crashes, work, lost>>

InsertJob(r) ==
    /\ request[r] = "admitted"
    /\ job' = [job EXCEPT ![r] = "queued"]
    /\ request' = [request EXCEPT ![r] = "inserted"]
    /\ UNCHANGED <<run, saved, drafts, memory, turn, page, server, permits, queue,
                   future, crashes, work, lost>>

\* executor.submit
SubmitJob(r) ==
    /\ request[r] = "inserted"
    /\ server = "up"
    /\ queue' = Append(queue, r)
    /\ future' = [future EXCEPT ![r] = "pending"]
    /\ request' = [request EXCEPT ![r] = "submitted"]
    /\ UNCHANGED <<rows, server, permits, crashes, work, lost>>

\* The INSERT or executor.submit raises: the permit goes back and a row that
\* exists is marked failed, or stays queued if that UPDATE raises as well.
SubmitRaises(r) ==
    /\ \/ request[r] = "admitted"
       \/ request[r] = "inserted" /\ server # "up"
    /\ permits' = permits + 1
    /\ \/ job' = [job EXCEPT ![r] = IF @ = "none" THEN @ ELSE "failed"] /\ UNCHANGED lost
       \/ job[r] # "none" /\ UNCHANGED job /\ LeaveOpen("job", r)
    /\ request' = [request EXCEPT ![r] = "ended"]
    /\ UNCHANGED <<run, saved, drafts, memory, turn, page, server, queue, future,
                   crashes, work>>

\* The permit that the done callback gives back.
Released(r) == 1

\* A future cancelled in the queue interrupts its job.
AfterDone(r, how) ==
    IF how = "cancelled" /\ job[r] = "queued" THEN "interrupted" ELSE job[r]

\* The done callback: the permit goes back also when its UPDATE raises.
Finished(r, how) ==
    /\ permits' = permits + Released(r)
    /\ \/ job' = [job EXCEPT ![r] = AfterDone(r, how)] /\ UNCHANGED lost
       \/ AfterDone(r, how) # job[r] /\ UNCHANGED job /\ LeaveOpen("job", r)

\* add_done_callback runs the callback at once if the future has ended.
AttachCallback(r) ==
    /\ request[r] = "submitted"
    /\ request' = [request EXCEPT ![r] = "ended"]
    /\ IF future[r] \in {"done", "cancelled"}
       THEN Finished(r, future[r])
       ELSE UNCHANGED <<permits, job, lost>>
    /\ UNCHANGED <<run, saved, drafts, memory, turn, page, server, queue, future,
                   crashes, work>>

FutureEnds(r, how) ==
    /\ future' = [future EXCEPT ![r] = how]
    /\ IF request[r] = "ended"
       THEN Finished(r, how)
       ELSE UNCHANGED <<permits, job, lost>>

-----------------------------------------------------------------------------
(* _execute                                                                *)

Claimable(r) == job[r] = "queued"

\* A worker thread takes the next future; a job that is no longer queued is
\* left alone.  If the claim raises the job stays queued: the except branch only
\* fails a job that is running.
TakeJob ==
    /\ queue # <<>>
    /\ Cardinality({r \in Background : future[r] = "running"}) < Workers
    /\ LET r == Head(queue)
       IN  /\ queue' = Tail(queue)
           /\ future' = [future EXCEPT ![r] = "running"]
           /\ \/ Claimable(r) /\ job' = [job EXCEPT ![r] = "running"]
                 /\ Goto(r, "prepare") /\ UNCHANGED lost
              \/ ~Claimable(r) /\ UNCHANGED job
                 /\ Goto(r, "returned") /\ UNCHANGED lost
              \/ UNCHANGED job /\ Goto(r, "raised") /\ LeaveOpen("job", r)
    /\ UNCHANGED <<run, saved, drafts, memory, turn, page, server, permits, request, crashes>>

\* agent_chat: the same work in the thread of the request.
AskAgent(r) ==
    /\ r \notin Background
    /\ server = "up"
    /\ run[r].status = "none" /\ turn[r] = 0 /\ work[r].phase = "idle"
    /\ Goto(r, "prepare")
    /\ UNCHANGED <<rows, pool, lost>>

\* _start_run inserts the row; then the graph is invoked.
StartRun(r) ==
    /\ work[r].phase = "prepare"
    /\ run' = [run EXCEPT ![r].status = "running"]
    /\ work' = [work EXCEPT ![r] = Busy("graph", r, NoCheckpoint, page)]
    /\ UNCHANGED <<job, saved, drafts, memory, turn, page, pool, lost>>

\* An exception ends the request, or is caught by _execute.
Raised(x) == IF x \in Background THEN "raised" ELSE "stopped"

\* track_start writes the number of the run into the job right after _start_run
\* and before the try of process_query: if that raises, nobody ends the run.
TrackRaises(r) ==
    /\ r \in Background
    /\ work[r].phase = "prepare"
    /\ run' = [run EXCEPT ![r].status = "running"]
    /\ LeaveOpen("run", r)
    /\ Goto(r, Raised(r))
    /\ UNCHANGED <<job, saved, drafts, memory, turn, page, pool>>

\* prepare_turn raises, or asks the user what the question is about.  Such a
\* clarification is written as a turn that belongs to no run.
PrepareRaises(r) ==
    /\ work[r].phase = "prepare"
    /\ Goto(r, Raised(r))
    /\ UNCHANGED <<rows, pool, lost>>

Clarify(r) ==
    /\ work[r].phase = "prepare"
    /\ turn' = [turn EXCEPT ![r] = 1]
    /\ drafts' = [drafts EXCEPT ![r] = 1]
    /\ Goto(r, IF r \in Background THEN "finish" ELSE "stopped")
    /\ UNCHANGED <<job, run, saved, memory, page, pool, lost>>

\* Stopped threads of requests go back to the thread pool.
Answer(x) ==
    /\ work[x].phase = "stopped"
    /\ work' = [work EXCEPT ![x] = Idle(x)]
    /\ UNCHANGED <<rows, pool, lost>>

-----------------------------------------------------------------------------
(* The graph                                                               *)

Ready(x, n) ==
    /\ work[x].phase = "graph"
    /\ n \in Nodes \ work[x].done
    /\ \A m \in Nodes : Stage[m] < Stage[n] => m \in work[x].done

\* _remember_once: a run has one memories row, the one written first.
Remembered(r, d) == IF memory[r] # 0 THEN memory[r] ELSE d

RunNode(x, n) ==
    /\ Ready(x, n)
    /\ n \notin {"retrieve", "critic", "memory"}
    /\ work' = [work EXCEPT ![x].done = @ \cup {n}]
    /\ UNCHANGED <<rows, pool, lost>>

\* The contexts carry the text and the hash of each retrieved page.
Retrieve(x) ==
    /\ Ready(x, "retrieve")
    /\ work' = [work EXCEPT ![x].done = @ \cup {"retrieve"}, ![x].basis = page]
    /\ UNCHANGED <<rows, pool, lost>>

\* The critic writes an answer; asked again, it writes another one.
Critic(x) ==
    LET r == work[x].run
    IN  /\ Ready(x, "critic")
        /\ drafts' = [drafts EXCEPT ![r] = @ + 1]
        /\ work' = [work EXCEPT ![x].done = @ \cup {"critic"}, ![x].draft = drafts[r] + 1]
        /\ UNCHANGED <<job, run, saved, memory, turn, page, pool, lost>>

\* _memory_node: a draft that is not eligible is not remembered; the node may
\* fail after its row is committed.
Memorize(x) ==
    LET r == work[x].run
    IN  /\ Ready(x, "memory")
        /\ \/ memory' = [memory EXCEPT ![r] = Remembered(r, work[x].draft)]
           \/ UNCHANGED memory
        /\ \/ work' = [work EXCEPT ![x].done = @ \cup {"memory"}]
           \/ Goto(x, "failing")
        /\ UNCHANGED <<job, run, saved, drafts, turn, page, pool, lost>>

Checkpoint(x, nodes) ==
    [nodes |-> nodes,
     basis |-> IF "retrieve" \in nodes THEN work[x].basis ELSE 0,
     draft |-> IF "critic" \in nodes THEN work[x].draft ELSE 0]

\* SqliteSaver writes the results of the nodes in the order of the supersteps.
SaveNode(x, n) ==
    LET r == work[x].run
    IN  /\ work[x].phase = "graph"
        /\ n \in work[x].done \ saved[r].nodes
        /\ \A m \in Nodes : Stage[m] < Stage[n] => m \in saved[r].nodes
        /\ saved' = [saved EXCEPT ![r] = Checkpoint(x, @.nodes \cup {n})]
        /\ UNCHANGED <<job, run, drafts, memory, turn, page, pool, work, lost>>

\* A node raises, or the UPDATE of _complete behind the last one.
NodeRaises(x) ==
    /\ work[x].phase = "graph"
    /\ Goto(x, "failing")
    /\ UNCHANGED <<rows, pool, lost>>

\* The except branch: when the graph is left, everything is saved; the run row
\* is updated by its id alone, unless that UPDATE raises too.
FailRun(x) ==
    LET r == work[x].run
    IN  /\ work[x].phase = "failing"
        /\ saved' = [saved EXCEPT ![r] = Checkpoint(x, work[x].done)]
        /\ \/ run' = [run EXCEPT ![r].status = "failed"] /\ UNCHANGED lost
           \/ UNCHANGED run /\ LeaveOpen("run", r)
        /\ Goto(x, Raised(x))
        /\ UNCHANGED <<job, drafts, memory, turn, page, pool>>

\* _complete updates the row by its id, then reads the steps for the result ...
CompleteRun(x) ==
    LET r == work[x].run
    IN  /\ work[x].phase = "graph"
        /\ work[x].done = Nodes
        /\ saved' = [saved EXCEPT ![r] = Checkpoint(x, Nodes)]
        /\ run' = [run EXCEPT ![r] = [status |-> "completed", answer |-> work[x].draft]]
        /\ Goto(x, "closing")
        /\ UNCHANGED <<job, drafts, memory, turn, page, pool, lost>>

\* ... which succeeds or raises.
ReturnResult(x) ==
    /\ work[x].phase = "closing"
    /\ \/ Goto(x, "record") \/ Goto(x, "failing")
    /\ UNCHANGED <<rows, pool, lost>>

MayRecord(x) == work[x].phase = "record"

\* record_agent_turn: the turn of a run is written once.
RecordTurn(x) ==
    LET r == work[x].run
    IN  /\ MayRecord(x)
        /\ turn' = [turn EXCEPT ![r] = IF @ # 0 THEN @ ELSE work[x].draft]
        /\ Goto(x, IF x \in Background THEN "finish" ELSE "stopped")
        /\ UNCHANGED <<job, run, saved, drafts, memory, page, pool, lost>>

\* The conversation was archived, or the database refuses.
RecordRaises(x) ==
    /\ work[x].phase = "record"
    /\ Goto(x, Raised(x))
    /\ UNCHANGED <<rows, pool, lost>>

-----------------------------------------------------------------------------
(* The end of a job                                                        *)

FinishJob(r) ==
    /\ work[r].phase = "finish"
    /\ \/ /\ job' = [job EXCEPT ![r] = IF @ = "running" THEN "completed" ELSE @]
          /\ Goto(r, "returned")
       \/ UNCHANGED job /\ Goto(r, "raised")
    /\ UNCHANGED <<run, saved, drafts, memory, turn, page, pool, lost>>

\* The except branch of _execute; if its UPDATE raises, the exception ends the
\* future and the job stays running.
FailJob(r) ==
    /\ work[r].phase = "raised"
    /\ \/ job' = [job EXCEPT ![r] = IF @ = "running" THEN "failed" ELSE @] /\ UNCHANGED lost
       \/ job[r] = "running" /\ UNCHANGED job /\ LeaveOpen("job", r)
    /\ Goto(r, "returned")
    /\ UNCHANGED <<run, saved, drafts, memory, turn, page, pool>>

\* The future ends when _execute returns.
Return(r) ==
    /\ work[r].phase = "returned"
    /\ FutureEnds(r, "done")
    /\ work' = [work EXCEPT ![r] = Idle(r)]
    /\ UNCHANGED <<run, saved, drafts, memory, turn, page, server, queue, request, crashes>>

-----------------------------------------------------------------------------
(* resume                                                                  *)

\* The row is read; only a failed run with a checkpoint can be resumed.
ResumeRead(x, r) ==
    /\ server = "up"
    /\ work[x].phase = "idle"
    /\ run[r].status = "failed"
    /\ saved[r].nodes # {}
    /\ work' = [work EXCEPT ![x] = Busy("validate", r, NoCheckpoint, page)]
    /\ UNCHANGED <<rows, pool, lost>>

\* Every page the checkpoint rests on still has the text it was saved with.
PagesUnchanged(x) ==
    LET checkpoint == saved[work[x].run]
    IN  "retrieve" \in checkpoint.nodes => checkpoint.basis = page

ResumeValidate(x) ==
    /\ work[x].phase = "validate"
    /\ Goto(x, IF PagesUnchanged(x) THEN "claim" ELSE "stopped")
    /\ UNCHANGED <<rows, pool, lost>>

\* UPDATE ... WHERE id = ? AND status = 'failed'; graph.invoke(None) then goes on
\* from what is saved.
ClaimsRun(r) == run[r].status = "failed"

ResumeClaim(x) ==
    LET r == work[x].run
    IN  /\ work[x].phase = "claim"
        /\ IF ClaimsRun(r)
           THEN /\ run' = [run EXCEPT ![r].status = "running"]
                /\ work' = [work EXCEPT ![x] = Busy("graph", r, saved[r], work[x].since)]
           ELSE Goto(x, "stopped") /\ UNCHANGED run
        /\ UNCHANGED <<job, saved, drafts, memory, turn, page, pool, lost>>

\* A read, the check of the conversation or the claim raises: nothing is taken.
ResumeRaises(x) ==
    /\ work[x].phase \in {"validate", "claim"}
    /\ Goto(x, "stopped")
    /\ UNCHANGED <<rows, pool, lost>>

-----------------------------------------------------------------------------
(* The process and the rest of the system                                  *)

\* correct_page_text
EditPage ==
    /\ server = "up"
    /\ page < MaxEdits
    /\ page' = page + 1
    /\ UNCHANGED <<job, run, saved, drafts, memory, turn, pool, work, lost>>

\* shutdown_review_executor: no more admissions, queued futures are cancelled,
\* running ones are waited for.
Shutdown ==
    /\ server = "up"
    /\ server' = "closing"
    /\ UNCHANGED <<rows, permits, queue, request, future, crashes, work, lost>>

CancelQueued ==
    /\ server = "closing"
    /\ queue # <<>>
    /\ queue' = Tail(queue)
    /\ FutureEnds(Head(queue), "cancelled")
    /\ UNCHANGED <<run, saved, drafts, memory, turn, page, server, request, crashes, work>>

Stop ==
    /\ server' = "down"
    /\ queue' = <<>>
    /\ request' = [r \in Background |-> "none"]
    /\ future' = [r \in Background |-> "none"]
    /\ work' = [x \in Threads |-> Idle(x)]

Exit ==
    /\ server = "closing"
    /\ queue = <<>>
    /\ \A x \in Threads : work[x].phase = "idle"
    /\ \A r \in Background : request[r] \in {"none", "ended"}
    /\ Stop
    /\ UNCHANGED <<rows, permits, crashes, lost>>

Crash ==
    /\ server # "down"
    /\ crashes < MaxCrashes
    /\ crashes' = crashes + 1
    /\ Stop
    /\ UNCHANGED <<rows, permits, lost>>

\* _finish_init and start_review_executor
RecoveredJob(r) == IF job[r] \in {"queued", "running"} THEN "interrupted" ELSE job[r]

RecoveredRun(r) == IF run[r].status = "running" THEN "failed" ELSE run[r].status

Restart ==
    /\ server = "down"
    /\ server' = "up"
    /\ permits' = Limit
    /\ run' = [r \in Runs |-> [run[r] EXCEPT !.status = RecoveredRun(r)]]
    /\ job' = [r \in Background |-> RecoveredJob(r)]
    /\ lost' = {}
    /\ UNCHANGED <<saved, drafts, memory, turn, page, queue, request, future, crashes, work>>

-----------------------------------------------------------------------------
SubmitStep(r) ==
    InsertJob(r) \/ SubmitJob(r) \/ SubmitRaises(r) \/ AttachCallback(r)

GraphStep(x) ==
    \/ \E n \in Nodes : RunNode(x, n) \/ SaveNode(x, n)
    \/ Retrieve(x) \/ Critic(x) \/ Memorize(x)
    \/ NodeRaises(x) \/ FailRun(x) \/ CompleteRun(x) \/ ReturnResult(x)
    \/ RecordTurn(x) \/ RecordRaises(x) \/ Answer(x)

RunStep(r) == StartRun(r) \/ TrackRaises(r) \/ PrepareRaises(r) \/ Clarify(r) \/ GraphStep(r)

JobStep(r) == FinishJob(r) \/ FailJob(r) \/ Return(r)

ResumeStep(x) == ResumeValidate(x) \/ ResumeClaim(x) \/ ResumeRaises(x) \/ GraphStep(x)

Next ==
    \/ \E r \in Background : Admit(r) \/ SubmitStep(r) \/ JobStep(r)
    \/ \E r \in Runs : AskAgent(r) \/ RunStep(r)
    \/ \E x \in Resumers : ResumeStep(x) \/ \E r \in Runs : ResumeRead(x, r)
    \/ TakeJob \/ CancelQueued
    \/ EditPage \/ Shutdown \/ Exit \/ Crash \/ Restart

Spec == Init /\ [][Next]_vars

\* Threads run, and a process that is down is started again.  Nobody has to
\* ask, resume, edit or stop anything.
Fairness ==
    /\ \A r \in Background : WF_vars(SubmitStep(r)) /\ WF_vars(JobStep(r))
    /\ \A r \in Runs : WF_vars(RunStep(r))
    /\ \A x \in Resumers : WF_vars(ResumeStep(x))
    /\ WF_vars(TakeJob) /\ WF_vars(CancelQueued) /\ WF_vars(Restart)

FairSpec == Spec /\ Fairness

-----------------------------------------------------------------------------
CheckpointType == [nodes : SUBSET Nodes, basis : 0 .. MaxEdits, draft : Nat]

Phases == {"idle", "prepare", "validate", "claim", "graph", "failing", "closing",
           "record", "raised", "finish", "returned", "stopped"}

WorkType ==
    [phase : Phases, run : Threads, done : SUBSET Nodes, basis : 0 .. MaxEdits,
     draft : Nat, since : 0 .. MaxEdits]

\* Every variable stays in its type.
TypeOK ==
    /\ server \in {"up", "closing", "down"}
    /\ permits \in Nat
    /\ queue \in Seq(Background)
    /\ request \in [Background -> {"none", "admitted", "inserted", "submitted", "ended"}]
    /\ future \in [Background -> {"none", "pending", "running", "done", "cancelled"}]
    /\ job \in [Background -> {"none", "queued", "running"} \cup Ended]
    /\ run \in [Runs -> [status : {"none", "running", "completed", "failed"}, answer : Nat]]
    /\ saved \in [Runs -> CheckpointType]
    /\ drafts \in [Runs -> Nat] /\ memory \in [Runs -> Nat] /\ turn \in [Runs -> Nat]
    /\ work \in [Threads -> WorkType]
    /\ page \in 0 .. MaxEdits
    /\ lost \subseteq {"job", "run"} \X Runs
    /\ crashes \in 0 .. MaxCrashes

\* The status of a run is its lock: no two threads ever execute the graph of one
\* run, whatever resumes, failures and restarts there are.
OneExecutor ==
    \A x, y \in Threads :
        x # y /\ Executing(x) /\ Executing(y) => work[x].run # work[y].run

\* The answer in the conversation is the answer of a completed run; it is never
\* that of a run that failed after it was written or that was started over.
TurnIsTheAnswer ==
    \A r \in Runs : turn[r] # 0 /\ run[r].status # "none" =>
        run[r].status = "completed" /\ run[r].answer = turn[r]

\* A job that is shown as completed has its answer in the conversation.
CompletedJobHasTurn ==
    \A r \in Background : job[r] = "completed" => turn[r] # 0

\* Jobs that hold an admission: from submit_review to the end of their future.
Holding ==
    {r \in Background :
        \/ request[r] \in {"admitted", "inserted", "submitted"}
        \/ request[r] = "ended" /\ future[r] \in {"pending", "running"}}

\* Comment in submit_review: the admission belongs to the future, including
\* cancellation before execution.  None leaks, none is given back twice.
AdmissionsBalance ==
    server # "down" => permits + Cardinality(Holding) = Limit

\* A page that was edited before the resume request came is noticed: what a
\* resumed run has retrieved is not older than the request.
EarlierEditIsNoticed ==
    \A x \in Resumers :
        work[x].phase = "graph" /\ "retrieve" \in work[x].done =>
            work[x].basis >= work[x].since

\* A job ends once; neither a late callback nor a restart changes how it ended.
JobEndsOnce ==
    [][\A r \in Background : job[r] \in Ended => job'[r] = job[r]]_vars

\* No job stays queued or running for ever, through shutdowns and crashes, unless
\* the very UPDATE that ends it raises; such a row waits for the next start.
JobsEnd ==
    \A r \in Background :
        (job[r] \in {"queued", "running"}) ~> (job[r] \in Ended \/ <<"job", r>> \in lost)

\* Comment in _finish_init: no run stays running for ever, with the same exception.
RunsEnd ==
    \A r \in Runs :
        (run[r].status = "running") ~> (run[r].status # "running" \/ <<"run", r>> \in lost)

\* README: a run whose page has been edited is not resumed on the old analysis.
ResumedOnPresentPages ==
    [][\A x \in Resumers :
          work[x].phase = "claim" /\ work'[x].phase = "graph"
          /\ "retrieve" \in work'[x].done => work'[x].basis = page]_vars
=============================================================================
