--------------------------- MODULE AgentRuns_proof ---------------------------
(* Proofs about AgentRuns, for every set of runs, jobs and resume requests. *)
EXTENDS AgentRuns, FiniteSetTheorems, TLAPS

-----------------------------------------------------------------------------
(* What a step of one thread does to work *)

\* Thread x goes to phase p and carries what it carried.
Moved(x, p) ==
    /\ work' \in [Threads -> WorkType]
    /\ work'[x].phase = p
    /\ work'[x].run = work[x].run /\ work'[x].done = work[x].done
    /\ work'[x].basis = work[x].basis /\ work'[x].draft = work[x].draft
    /\ work'[x].since = work[x].since
    /\ \A y \in Threads \ {x} : work'[y] = work[y]

\* Thread x goes on with run r from a checkpoint.
Began(x, p, r, checkpoint, since) ==
    /\ work' \in [Threads -> WorkType]
    /\ work'[x].phase = p
    /\ work'[x].run = r /\ work'[x].done = checkpoint.nodes
    /\ work'[x].basis = checkpoint.basis /\ work'[x].draft = checkpoint.draft
    /\ work'[x].since = since
    /\ \A y \in Threads \ {x} : work'[y] = work[y]

LEMMA GotoMoves ==
  ASSUME TypeOK, NEW x \in Threads, NEW p \in Phases, Goto(x, p)
  PROVE  Moved(x, p)
<1>1. work \in [Threads -> WorkType]
  BY DEF TypeOK
<1> DEFINE there == [work[x] EXCEPT !.phase = p]
<1>2. /\ there \in WorkType
      /\ there.phase = p
      /\ there.run = work[x].run /\ there.done = work[x].done
      /\ there.basis = work[x].basis /\ there.draft = work[x].draft
      /\ there.since = work[x].since
  BY <1>1 DEF WorkType
<1>3. work' = [work EXCEPT ![x] = there]
  BY DEF Goto
<1> HIDE DEF there
<1> QED
  BY <1>1, <1>2, <1>3 DEF Moved

LEMMA BusyBegins ==
  ASSUME TypeOK, NEW x \in Threads, NEW p \in Phases, NEW r \in Threads,
         NEW checkpoint \in CheckpointType, NEW since \in 0 .. MaxEdits,
         work' = [work EXCEPT ![x] = Busy(p, r, checkpoint, since)]
  PROVE  Began(x, p, r, checkpoint, since)
<1>1. work \in [Threads -> WorkType]
  BY DEF TypeOK
<1>2. Busy(p, r, checkpoint, since) \in WorkType
  BY DEF Busy, WorkType, CheckpointType
<1> QED
  BY <1>1, <1>2 DEF Began, Busy

LEMMA NoCheckpointType == NoCheckpoint \in CheckpointType
  BY BoundsAssumption DEF NoCheckpoint, CheckpointType

LEMMA IdleType == \A x \in Threads : Idle(x) \in WorkType
  BY BoundsAssumption DEF Idle, Busy, NoCheckpoint, WorkType, Phases

LEMMA CheckpointTyped ==
  ASSUME TypeOK, NEW x \in Threads, NEW nodes \in SUBSET Nodes
  PROVE  Checkpoint(x, nodes) \in CheckpointType
  BY BoundsAssumption DEF TypeOK, WorkType, Checkpoint, CheckpointType

LEMMA RunRow ==
  ASSUME NEW row, row \in [status : {"none", "running", "completed", "failed"}, answer : Nat],
         NEW s \in {"none", "running", "completed", "failed"}
  PROVE  [row EXCEPT !.status = s] \in [status : {"none", "running", "completed", "failed"}, answer : Nat]
  OBVIOUS

LEMMA StatusTyped ==
  ASSUME TypeOK, NEW r \in Runs, NEW s \in {"none", "running", "completed", "failed"},
         run' = [run EXCEPT ![r].status = s]
  PROVE  run' \in [Runs -> [status : {"none", "running", "completed", "failed"}, answer : Nat]]
<1> DEFINE Rows == [status : {"none", "running", "completed", "failed"}, answer : Nat]
           row == [run[r] EXCEPT !.status = s]
<1>1. run \in [Runs -> Rows]
  BY DEF TypeOK
<1>2. run[r] \in Rows
  BY <1>1
<1>3. row \in Rows
  BY <1>2, RunRow
<1>4. run' = [run EXCEPT ![r] = row]
  OBVIOUS
<1> HIDE DEF Rows, row
<1>5. run' \in [Runs -> Rows]
  BY <1>1, <1>3, <1>4
<1> QED
  BY <1>5 DEF Rows

-----------------------------------------------------------------------------
(* Types *)

\* Whose run a thread works on.
WorkOnRuns ==
    /\ \A r \in Runs : work[r].run = r
    /\ \A x \in Resumers : work[x].phase # "idle" => work[x].run \in Runs

LEMMA InitType == Init => TypeOK /\ WorkOnRuns
<1> SUFFICES ASSUME Init PROVE TypeOK /\ WorkOnRuns
  OBVIOUS
<1>1. work \in [Threads -> WorkType]
  BY IdleType DEF Init
<1>2. saved \in [Runs -> CheckpointType]
  BY NoCheckpointType DEF Init
<1>3. TypeOK
  BY <1>1, <1>2, BoundsAssumption DEF Init, TypeOK, Ended
<1>4. WorkOnRuns
  BY DEF Init, WorkOnRuns, Idle, Busy, Threads
<1> QED
  BY <1>3, <1>4

LEMMA BusyThread ==
  ASSUME TypeOK, WorkOnRuns, NEW x \in Threads, work[x].phase # "idle"
  PROVE  work[x].run \in Runs
  BY DEF WorkOnRuns, Threads

LEMMA RaisedPhase == \A x : Raised(x) \in {"raised", "stopped"}
  BY DEF Raised

LEMMA StopType ==
  ASSUME TypeOK, Stop
  PROVE  /\ queue' \in Seq(Background)
         /\ request' \in [Background -> {"none", "admitted", "inserted", "submitted", "ended"}]
         /\ future' \in [Background -> {"none", "pending", "running", "done", "cancelled"}]
         /\ work' \in [Threads -> WorkType]
<1>1. queue' \in Seq(Background)
  BY DEF Stop
<1>2. work' \in [Threads -> WorkType]
  BY IdleType DEF Stop
<1> QED
  BY <1>1, <1>2 DEF Stop

\* A row left open is a row of a run.
LEMMA LeaveType ==
  ASSUME TypeOK, NEW table \in {"job", "run"}, NEW r \in Runs,
         LeaveOpen(table, r) \/ UNCHANGED lost
  PROVE  lost' \subseteq {"job", "run"} \X Runs
  BY DEF TypeOK, LeaveOpen

LEMMA FinishedType ==
  ASSUME TypeOK, NEW r \in Background, NEW how, Finished(r, how)
  PROVE  /\ permits' \in Nat /\ lost' \subseteq {"job", "run"} \X Runs
         /\ job' \in [Background -> {"none", "queued", "running"} \cup Ended]
<1> DEFINE Jobs == {"none", "queued", "running"} \cup Ended
<1>0. job \in [Background -> Jobs] /\ permits \in Nat
  BY DEF TypeOK
<1>1. AfterDone(r, how) \in Jobs
  BY <1>0 DEF AfterDone, Ended
<1>2. job' \in [Background -> Jobs]
  <2> HIDE DEF Jobs
  <2> QED
    BY <1>0, <1>1 DEF Finished
<1>3. permits' \in Nat
  BY <1>0 DEF Finished, Released
<1>4. LeaveOpen("job", r) \/ UNCHANGED lost
  BY DEF Finished
<1> QED
  BY <1>2, <1>3, <1>4, LeaveType, BackgroundAssumption

LEMMA FutureType ==
  ASSUME TypeOK, NEW r \in Background, NEW how \in {"done", "cancelled"}, FutureEnds(r, how)
  PROVE  /\ permits' \in Nat /\ lost' \subseteq {"job", "run"} \X Runs
         /\ future' \in [Background -> {"none", "pending", "running", "done", "cancelled"}]
         /\ job' \in [Background -> {"none", "queued", "running"} \cup Ended]
<1>1. future' \in [Background -> {"none", "pending", "running", "done", "cancelled"}]
  BY DEF FutureEnds, TypeOK
<1>2. CASE request[r] = "ended"
  BY <1>1, <1>2, FinishedType DEF FutureEnds
<1>3. CASE request[r] # "ended"
  BY <1>1, <1>3 DEF FutureEnds, TypeOK
<1> QED
  BY <1>2, <1>3

LEMMA GraphType ==
  ASSUME TypeOK, WorkOnRuns, NEW x \in Threads, GraphStep(x)
  PROVE  TypeOK'
<1> USE DEF rows, pool
<1>0. /\ work \in [Threads -> WorkType] /\ saved \in [Runs -> CheckpointType]
      /\ work[x] \in WorkType
  BY DEF TypeOK
<1>1. ASSUME NEW n \in Nodes, RunNode(x, n) PROVE TypeOK'
  <2>1. work' \in [Threads -> WorkType]
    <3>1. [work[x] EXCEPT !.done = @ \cup {n}] \in WorkType
      BY <1>0 DEF WorkType
    <3> QED
      BY <1>0, <1>1, <3>1 DEF RunNode
  <2> QED
    BY <1>1, <2>1 DEF RunNode, TypeOK
<1>2. ASSUME NEW n \in Nodes, SaveNode(x, n) PROVE TypeOK'
  <2>0. work[x].run \in Runs
    BY <1>2, BusyThread DEF SaveNode
  <2>1. Checkpoint(x, saved[work[x].run].nodes \cup {n}) \in CheckpointType
    <3>1. saved[work[x].run].nodes \cup {n} \in SUBSET Nodes
      BY <2>0, <1>0 DEF CheckpointType
    <3> QED
      BY <3>1, CheckpointTyped
  <2>2. saved' \in [Runs -> CheckpointType]
    BY <2>0, <2>1, <1>2, <1>0 DEF SaveNode
  <2> QED
    BY <1>2, <2>2 DEF SaveNode, TypeOK
<1>3. CASE Retrieve(x)
  <2>1. work' \in [Threads -> WorkType]
    <3>1. [work[x] EXCEPT !.done = @ \cup {"retrieve"}, !.basis = page] \in WorkType
      BY <1>0, NodesAssumption DEF WorkType, TypeOK
    <3> QED
      BY <1>0, <1>3, <3>1 DEF Retrieve
  <2> QED
    BY <1>3, <2>1 DEF Retrieve, TypeOK
<1>4. CASE Critic(x)
  <2>0. work[x].run \in Runs
    BY <1>4, BusyThread DEF Critic, Ready
  <2>1. work' \in [Threads -> WorkType]
    <3>0. drafts[work[x].run] + 1 \in Nat
      BY <2>0 DEF TypeOK
    <3>1. [work[x] EXCEPT !.done = @ \cup {"critic"}, !.draft = drafts[work[x].run] + 1] \in WorkType
      BY <1>0, <3>0, NodesAssumption DEF WorkType
    <3> QED
      BY <1>0, <1>4, <3>1 DEF Critic
  <2>2. drafts' \in [Runs -> Nat]
    BY <1>4, <2>0 DEF Critic, TypeOK
  <2> QED
    BY <1>4, <2>1, <2>2 DEF Critic, TypeOK
<1>5. CASE Memorize(x)
  <2>0. work[x].run \in Runs
    BY <1>5, BusyThread DEF Memorize, Ready
  <2>1. work' \in [Threads -> WorkType]
    <3>1. [work[x] EXCEPT !.done = @ \cup {"memory"}] \in WorkType
      BY <1>0, NodesAssumption DEF WorkType
    <3>2. CASE Goto(x, "failing")
      BY <3>2, GotoMoves DEF Moved, Phases
    <3> QED
      BY <1>0, <1>5, <3>1, <3>2 DEF Memorize
  <2>2. memory' \in [Runs -> Nat]
    <3>1. Remembered(work[x].run, work[x].draft) \in Nat
      BY <1>0, <2>0 DEF Remembered, TypeOK, WorkType
    <3> QED
      BY <1>5, <2>0, <3>1 DEF Memorize, TypeOK
  <2> QED
    BY <1>5, <2>1, <2>2 DEF Memorize, TypeOK
<1>6. CASE NodeRaises(x) \/ ReturnResult(x) \/ RecordRaises(x)
  <2>1. \E p \in Phases : Goto(x, p)
    BY <1>6, RaisedPhase DEF NodeRaises, ReturnResult, RecordRaises, Phases
  <2>2. work' \in [Threads -> WorkType]
    BY <2>1, GotoMoves DEF Moved
  <2> QED
    BY <1>6, <2>2 DEF NodeRaises, ReturnResult, RecordRaises, TypeOK
<1>7. CASE FailRun(x)
  <2>0. work[x].run \in Runs
    BY <1>7, BusyThread DEF FailRun
  <2>1. work' \in [Threads -> WorkType]
    BY <1>7, RaisedPhase, GotoMoves DEF FailRun, Moved, Phases
  <2>2. saved' \in [Runs -> CheckpointType]
    <3>1. Checkpoint(x, work[x].done) \in CheckpointType
      BY <1>0, CheckpointTyped DEF WorkType
    <3> QED
      BY <1>7, <1>0, <2>0, <3>1 DEF FailRun
  <2>3. run' \in [Runs -> [status : {"none", "running", "completed", "failed"}, answer : Nat]]
    BY <1>7, <2>0, StatusTyped DEF FailRun, TypeOK
  <2>4. lost' \subseteq {"job", "run"} \X Runs
    BY <1>7, <2>0, LeaveType DEF FailRun
  <2> QED
    BY <1>7, <2>1, <2>2, <2>3, <2>4 DEF FailRun, TypeOK
<1>8. CASE CompleteRun(x)
  <2>0. work[x].run \in Runs
    BY <1>8, BusyThread DEF CompleteRun
  <2>1. work' \in [Threads -> WorkType]
    BY <1>8, GotoMoves DEF CompleteRun, Moved, Phases
  <2>2. saved' \in [Runs -> CheckpointType]
    BY <1>8, <1>0, <2>0, CheckpointTyped DEF CompleteRun
  <2>3. run' \in [Runs -> [status : {"none", "running", "completed", "failed"}, answer : Nat]]
    BY <1>8, <1>0, <2>0 DEF CompleteRun, TypeOK, WorkType
  <2> QED
    BY <1>8, <2>1, <2>2, <2>3 DEF CompleteRun, TypeOK
<1>9. CASE RecordTurn(x)
  <2>0. work[x].run \in Runs
    BY <1>9, BusyThread DEF RecordTurn, MayRecord
  <2>1. work' \in [Threads -> WorkType]
    BY <1>9, GotoMoves DEF RecordTurn, Moved, Phases
  <2>2. turn' \in [Runs -> Nat]
    BY <1>9, <1>0, <2>0 DEF RecordTurn, TypeOK, WorkType
  <2> QED
    BY <1>9, <2>1, <2>2 DEF RecordTurn, TypeOK
<1>10. CASE Answer(x)
  <2>1. work' \in [Threads -> WorkType]
    BY <1>10, <1>0, IdleType DEF Answer
  <2> QED
    BY <1>10, <2>1 DEF Answer, TypeOK
<1> QED
  BY <1>1, <1>2, <1>3, <1>4, <1>5, <1>6, <1>7, <1>8, <1>9, <1>10 DEF GraphStep

LEMMA NextType == TypeOK /\ WorkOnRuns /\ [Next]_vars => TypeOK'
<1> SUFFICES ASSUME TypeOK, WorkOnRuns, [Next]_vars PROVE TypeOK'
  OBVIOUS
<1> USE DEF rows, pool
<1>0. /\ work \in [Threads -> WorkType] /\ saved \in [Runs -> CheckpointType]
      /\ Runs \subseteq Threads /\ Resumers \subseteq Threads
  BY DEF TypeOK, Threads
<1>1. ASSUME NEW r \in Background, Admit(r) \/ InsertJob(r) \/ SubmitJob(r) \/ SubmitRaises(r)
      PROVE  TypeOK'
  <2>1. CASE Admit(r)
    BY <2>1 DEF Admit, TypeOK
  <2>2. CASE InsertJob(r)
    BY <2>2 DEF InsertJob, TypeOK
  <2>3. CASE SubmitJob(r)
    BY <2>3 DEF SubmitJob, TypeOK
  <2>4. CASE SubmitRaises(r)
    <3>1. lost' \subseteq {"job", "run"} \X Runs
      BY <2>4, LeaveType, BackgroundAssumption DEF SubmitRaises
    <3>2. job' \in [Background -> {"none", "queued", "running"} \cup Ended]
      BY <2>4 DEF SubmitRaises, TypeOK, Ended
    <3>3. permits' \in Nat
          /\ request' \in [Background -> {"none", "admitted", "inserted", "submitted", "ended"}]
      BY <2>4 DEF SubmitRaises, TypeOK
    <3>4. UNCHANGED <<run, saved, drafts, memory, turn, page, server, queue, future, crashes, work>>
      BY <2>4 DEF SubmitRaises
    <3> QED
      BY <3>1, <3>2, <3>3, <3>4 DEF TypeOK
  <2> QED
    BY <1>1, <2>1, <2>2, <2>3, <2>4
<1>2. ASSUME NEW r \in Background, AttachCallback(r) PROVE TypeOK'
  <2>1. /\ permits' \in Nat /\ lost' \subseteq {"job", "run"} \X Runs
        /\ job' \in [Background -> {"none", "queued", "running"} \cup Ended]
    <3>1. CASE future[r] \in {"done", "cancelled"}
      BY <1>2, <3>1, FinishedType DEF AttachCallback
    <3>2. CASE future[r] \notin {"done", "cancelled"}
      BY <1>2, <3>2 DEF AttachCallback, TypeOK
    <3> QED
      BY <3>1, <3>2
  <2> QED
    BY <1>2, <2>1 DEF AttachCallback, TypeOK
<1>3. ASSUME NEW r \in Background, FinishJob(r) \/ FailJob(r) PROVE TypeOK'
  <2>0. r \in Runs
    BY BackgroundAssumption
  <2>1. \E p \in Phases : Goto(r, p)
    BY <1>3 DEF FinishJob, FailJob, Phases
  <2>2. work' \in [Threads -> WorkType]
    BY <2>0, <2>1, <1>0, GotoMoves DEF Moved
  <2>3. job' \in [Background -> {"none", "queued", "running"} \cup Ended]
    BY <1>3 DEF FinishJob, FailJob, TypeOK, Ended
  <2>4. lost' \subseteq {"job", "run"} \X Runs
    BY <1>3, <2>0, LeaveType DEF FinishJob, FailJob
  <2> QED
    BY <1>3, <2>2, <2>3, <2>4 DEF FinishJob, FailJob, TypeOK
<1>4. ASSUME NEW r \in Background, Return(r) PROVE TypeOK'
  <2>0. r \in Runs
    BY BackgroundAssumption
  <2>1. work' \in [Threads -> WorkType]
    BY <1>4, <1>0, <2>0, IdleType DEF Return
  <2> QED
    BY <1>4, <2>1, FutureType DEF Return, TypeOK
<1>5. ASSUME NEW r \in Runs, AskAgent(r) \/ PrepareRaises(r) PROVE TypeOK'
  <2>1. \E p \in Phases : Goto(r, p)
    BY <1>5, RaisedPhase DEF AskAgent, PrepareRaises, Phases
  <2>2. work' \in [Threads -> WorkType]
    BY <2>1, <1>0, GotoMoves DEF Moved
  <2> QED
    BY <1>5, <2>2 DEF AskAgent, PrepareRaises, TypeOK
<1>6. ASSUME NEW r \in Runs, StartRun(r) PROVE TypeOK'
  <2>1. work' \in [Threads -> WorkType]
    BY <1>6, <1>0, BusyBegins, NoCheckpointType DEF StartRun, Began, Phases, TypeOK
  <2>2. run' \in [Runs -> [status : {"none", "running", "completed", "failed"}, answer : Nat]]
    BY <1>6, StatusTyped DEF StartRun
  <2> QED
    BY <1>6, <2>1, <2>2 DEF StartRun, TypeOK
<1>7. ASSUME NEW r \in Runs, TrackRaises(r) PROVE TypeOK'
  <2>1. work' \in [Threads -> WorkType]
    BY <1>7, <1>0, RaisedPhase, GotoMoves DEF TrackRaises, Moved, Phases
  <2>2. run' \in [Runs -> [status : {"none", "running", "completed", "failed"}, answer : Nat]]
    BY <1>7, StatusTyped DEF TrackRaises
  <2>3. lost' \subseteq {"job", "run"} \X Runs
    BY <1>7, LeaveType DEF TrackRaises
  <2> QED
    BY <1>7, <2>1, <2>2, <2>3 DEF TrackRaises, TypeOK
<1>8. ASSUME NEW r \in Runs, Clarify(r) PROVE TypeOK'
  <2>1. \E p \in Phases : Goto(r, p)
    BY <1>8 DEF Clarify, Phases
  <2>2. work' \in [Threads -> WorkType]
    BY <2>1, <1>0, GotoMoves DEF Moved
  <2> QED
    BY <1>8, <2>2 DEF Clarify, TypeOK
<1>9. ASSUME NEW x \in Threads, GraphStep(x) PROVE TypeOK'
  BY <1>9, GraphType
<1>10. ASSUME NEW x \in Resumers, NEW r \in Runs, ResumeRead(x, r) PROVE TypeOK'
  <2>1. work' \in [Threads -> WorkType]
    BY <1>10, <1>0, BusyBegins, NoCheckpointType DEF ResumeRead, Began, Phases, TypeOK
  <2> QED
    BY <1>10, <2>1 DEF ResumeRead, TypeOK
<1>11. ASSUME NEW x \in Resumers, ResumeValidate(x) \/ ResumeRaises(x) PROVE TypeOK'
  <2>1. \E p \in Phases : Goto(x, p)
    BY <1>11 DEF ResumeValidate, ResumeRaises, Phases
  <2>2. work' \in [Threads -> WorkType]
    BY <2>1, <1>0, GotoMoves DEF Moved
  <2> QED
    BY <1>11, <2>2 DEF ResumeValidate, ResumeRaises, TypeOK
<1>12. ASSUME NEW x \in Resumers, ResumeClaim(x) PROVE TypeOK'
  <2>0. work[x].run \in Runs
    BY <1>12, <1>0, BusyThread DEF ResumeClaim
  <2>1. work' \in [Threads -> WorkType]
    <3>1. CASE ClaimsRun(work[x].run)
      <4>1. work[x].since \in 0 .. MaxEdits /\ saved[work[x].run] \in CheckpointType
        BY <1>0, <2>0 DEF WorkType
      <4>2. work' = [work EXCEPT ![x] = Busy("graph", work[x].run, saved[work[x].run], work[x].since)]
        BY <1>12, <3>1 DEF ResumeClaim
      <4> QED
        BY <1>0, <2>0, <4>1, <4>2, BusyBegins DEF Began, Phases
    <3>2. CASE ~ClaimsRun(work[x].run)
      BY <1>12, <1>0, <3>2, GotoMoves DEF ResumeClaim, Moved, Phases
    <3> QED
      BY <3>1, <3>2
  <2>2. run' \in [Runs -> [status : {"none", "running", "completed", "failed"}, answer : Nat]]
    <3>1. CASE ClaimsRun(work[x].run)
      <4>1. run' = [run EXCEPT ![work[x].run].status = "running"]
        BY <1>12, <3>1 DEF ResumeClaim
      <4> QED
        BY <4>1, <2>0, StatusTyped
    <3>2. CASE ~ClaimsRun(work[x].run)
      BY <1>12, <3>2 DEF ResumeClaim, TypeOK
    <3> QED
      BY <3>1, <3>2
  <2> QED
    BY <1>12, <2>1, <2>2 DEF ResumeClaim, TypeOK
<1>13. CASE TakeJob
  <2>0. Head(queue) \in Background /\ Tail(queue) \in Seq(Background)
    BY <1>13 DEF TakeJob, TypeOK
  <2>1. \E p \in Phases : Goto(Head(queue), p)
    BY <1>13 DEF TakeJob, Phases
  <2>2. work' \in [Threads -> WorkType]
    BY <2>0, <2>1, <1>0, BackgroundAssumption, GotoMoves DEF Moved
  <2>3. lost' \subseteq {"job", "run"} \X Runs
    BY <1>13, <2>0, BackgroundAssumption, LeaveType DEF TakeJob
  <2>4. job' \in [Background -> {"none", "queued", "running"} \cup Ended]
    BY <1>13 DEF TakeJob, TypeOK
  <2>5. future' \in [Background -> {"none", "pending", "running", "done", "cancelled"}]
    BY <1>13 DEF TakeJob, TypeOK
  <2> QED
    BY <1>13, <2>0, <2>2, <2>3, <2>4, <2>5 DEF TakeJob, TypeOK
<1>14. CASE CancelQueued
  <2>0. Head(queue) \in Background /\ Tail(queue) \in Seq(Background)
    BY <1>14 DEF CancelQueued, TypeOK
  <2> QED
    BY <1>14, <2>0, FutureType DEF CancelQueued, TypeOK
<1>15. CASE EditPage \/ Shutdown
  BY <1>15, BoundsAssumption DEF EditPage, Shutdown, TypeOK
<1>16. CASE Exit \/ Crash
  <2>1. Stop /\ server' = "down"
    BY <1>16 DEF Exit, Crash, Stop
  <2>2. UNCHANGED <<permits, page, job, run, saved, drafts, memory, turn, lost>>
        /\ crashes' \in 0 .. MaxCrashes
    <3>1. CASE Exit
      BY <3>1 DEF Exit, TypeOK
    <3>2. CASE Crash
      BY <3>2, BoundsAssumption DEF Crash, TypeOK
    <3> QED
      BY <1>16, <3>1, <3>2
  <2>3. server' \in {"up", "closing", "down"}
    BY <2>1
  <2> QED
    BY <2>1, <2>2, <2>3, StopType DEF TypeOK
<1>17. CASE Restart
  <2>1. run' \in [Runs -> [status : {"none", "running", "completed", "failed"}, answer : Nat]]
    <3>1. ASSUME NEW r \in Runs
          PROVE  [run[r] EXCEPT !.status = RecoveredRun(r)]
                     \in [status : {"none", "running", "completed", "failed"}, answer : Nat]
      <4>1. RecoveredRun(r) \in {"none", "running", "completed", "failed"}
        BY DEF RecoveredRun, TypeOK
      <4> QED
        BY <4>1, RunRow DEF TypeOK
    <3> QED
      BY <1>17, <3>1 DEF Restart
  <2>2. job' \in [Background -> {"none", "queued", "running"} \cup Ended]
    BY <1>17 DEF Restart, RecoveredJob, Ended, TypeOK
  <2> QED
    BY <1>17, <2>1, <2>2, BoundsAssumption DEF Restart, TypeOK
<1>18. CASE UNCHANGED vars
  BY <1>18 DEF vars, TypeOK
<1> QED
  BY <1>0, <1>1, <1>2, <1>3, <1>4, <1>5, <1>6, <1>7, <1>8, <1>9, <1>10, <1>11, <1>12,
     <1>13, <1>14, <1>15, <1>16, <1>17, <1>18
  DEF Next, SubmitStep, JobStep, RunStep, ResumeStep

\* The steps of GraphStep, as moves of the thread that takes them.
LEMMA NodeStep ==
  ASSUME TypeOK, NEW x \in Threads,
         (\E n \in Nodes : RunNode(x, n)) \/ Retrieve(x) \/ Critic(x)
         \/ (Memorize(x) /\ ~Goto(x, "failing"))
  PROVE  /\ work[x].phase = "graph" /\ work'[x].phase = "graph"
         /\ work'[x].run = work[x].run /\ work'[x].since = work[x].since
         /\ \A y \in Threads \ {x} : work'[y] = work[y]
         /\ UNCHANGED <<job, run, saved, turn, page, pool>>
         /\ \/ work'[x].draft = work[x].draft /\ "critic" \notin work'[x].done \ work[x].done
            \/ work'[x].draft = drafts[work[x].run] + 1
         /\ \/ work'[x].basis = work[x].basis /\ "retrieve" \notin work'[x].done \ work[x].done
            \/ work'[x].basis = page /\ "retrieve" \notin work[x].done
         /\ work[x].done \subseteq work'[x].done
<1>0. work \in [Threads -> WorkType] /\ work[x] \in WorkType
  BY DEF TypeOK
<1> USE DEF Ready, rows, WorkType
<1>1. ASSUME NEW n \in Nodes, RunNode(x, n)
      PROVE  /\ work' = [work EXCEPT ![x] = [work[x] EXCEPT !.done = @ \cup {n}]]
             /\ n \notin {"retrieve", "critic"}
             /\ work[x].phase = "graph" /\ UNCHANGED <<job, run, saved, turn, page, pool>>
  BY <1>1 DEF RunNode
<1>2. ASSUME Retrieve(x)
      PROVE  /\ work' = [work EXCEPT ![x] = [work[x] EXCEPT !.done = @ \cup {"retrieve"}, !.basis = page]]
             /\ "retrieve" \notin work[x].done
             /\ work[x].phase = "graph" /\ UNCHANGED <<job, run, saved, turn, page, pool>>
  BY <1>2 DEF Retrieve
<1>3. ASSUME Critic(x)
      PROVE  /\ work' = [work EXCEPT ![x] = [work[x] EXCEPT !.done = @ \cup {"critic"},
                                                       !.draft = drafts[work[x].run] + 1]]
             /\ work[x].phase = "graph" /\ UNCHANGED <<job, run, saved, turn, page, pool>>
  BY <1>3 DEF Critic
<1>4. ASSUME Memorize(x), ~Goto(x, "failing")
      PROVE  /\ work' = [work EXCEPT ![x] = [work[x] EXCEPT !.done = @ \cup {"memory"}]]
             /\ work[x].phase = "graph" /\ UNCHANGED <<job, run, saved, turn, page, pool>>
  BY <1>4 DEF Memorize
<1>5. CASE \E n \in Nodes : RunNode(x, n)
  BY <1>0, <1>1, <1>5
<1>6. CASE Retrieve(x)
  <2> DEFINE there == [work[x] EXCEPT !.done = @ \cup {"retrieve"}, !.basis = page]
  <2>1. /\ there.phase = work[x].phase /\ there.run = work[x].run
        /\ there.since = work[x].since /\ there.draft = work[x].draft
        /\ there.basis = page /\ there.done = work[x].done \cup {"retrieve"}
    BY <1>0
  <2>2. work' = [work EXCEPT ![x] = there]
    BY <1>2, <1>6
  <2> HIDE DEF there
  <2>3. work'[x] = there /\ \A y \in Threads \ {x} : work'[y] = work[y]
    BY <1>0, <2>2
  <2> QED
    BY <1>2, <1>6, <2>1, <2>3
<1>7. CASE Critic(x)
  <2> DEFINE there == [work[x] EXCEPT !.done = @ \cup {"critic"},
                                      !.draft = drafts[work[x].run] + 1]
  <2>1. /\ there.phase = work[x].phase /\ there.run = work[x].run
        /\ there.since = work[x].since /\ there.basis = work[x].basis
        /\ there.draft = drafts[work[x].run] + 1 /\ there.done = work[x].done \cup {"critic"}
    BY <1>0
  <2>2. work' = [work EXCEPT ![x] = there]
    BY <1>3, <1>7
  <2> HIDE DEF there
  <2>3. work'[x] = there /\ \A y \in Threads \ {x} : work'[y] = work[y]
    BY <1>0, <2>2
  <2> QED
    BY <1>3, <1>7, <2>1, <2>3
<1>8. CASE Memorize(x) /\ ~Goto(x, "failing")
  BY <1>0, <1>4, <1>8
<1> QED
  BY <1>5, <1>6, <1>7, <1>8

-----------------------------------------------------------------------------
(* The inductive invariant.  A thread holds its run from the moment the row *)
(* says running until the turn is recorded or the run has failed.  While it *)
(* does the row is neither new nor failed, and only a new or a failed row   *)
(* can be taken, so no second thread holds the run.                         *)

Holds(x) == work[x].phase \in {"graph", "failing", "closing", "record"}

HolderRow(x) ==
    LET row == run[work[x].run]  checkpoint == saved[work[x].run]
    IN  /\ row.status \in {"running", "completed"}
        /\ work[x].phase \in {"closing", "record"} =>
               row.status = "completed" /\ row.answer = work[x].draft /\ work[x].draft # 0
        /\ "critic" \in work[x].done => work[x].draft # 0
        /\ checkpoint.nodes \subseteq work[x].done
        /\ "retrieve" \in checkpoint.nodes => checkpoint.basis = work[x].basis

HoldersRun == \A x \in Threads : Holds(x) => HolderRow(x)

OneHolder ==
    \A x, y \in Threads : x # y /\ Holds(x) /\ Holds(y) => work[x].run # work[y].run

\* A run whose turn is written has ended, and nobody holds it any more.
TurnOfRun ==
    \A r \in Runs : turn[r] # 0 /\ run[r].status # "none" =>
        /\ run[r].status = "completed" /\ run[r].answer = turn[r]
        /\ \A x \in Threads : Holds(x) => work[x].run # r

Fresh(r) == run[r].status = "none" /\ turn[r] = 0

FreshRuns ==
    /\ \A r \in Runs : work[r].phase = "prepare" => Fresh(r)
    /\ \A r \in Runs : run[r].status = "none" => saved[r].nodes = {}
    /\ \A r \in Background : job[r] \in {"none", "queued"} =>
           Fresh(r) /\ work[r].phase \in {"idle", "raised", "returned"}

JobAnswered ==
    \A r \in Background : work[r].phase = "finish" \/ job[r] = "completed" => turn[r] # 0

SavedDraft == \A r \in Runs : "critic" \in saved[r].nodes => saved[r].draft # 0

DownIsIdle ==
    server = "down" =>
        /\ \A x \in Threads : work[x].phase = "idle"
        /\ \A r \in Background : request[r] = "none"

Submissions ==
    /\ \A r \in Background :
          /\ request[r] = "admitted" => job[r] = "none"
          /\ request[r] = "inserted" => job[r] = "queued"
    /\ \A i \in 1 .. Len(queue) :
          request[queue[i]] \in {"submitted", "ended"} /\ job[queue[i]] # "none"

Inv ==
    /\ WorkOnRuns /\ HoldersRun /\ OneHolder /\ TurnOfRun /\ FreshRuns
    /\ JobAnswered /\ SavedDraft /\ DownIsIdle /\ Submissions

LEMMA InitInv == Init => Inv
<1> SUFFICES ASSUME Init PROVE Inv
  OBVIOUS
<1>1. \A x \in Threads : work[x].phase = "idle" /\ work[x].run = x
  BY DEF Init, Idle, Busy
<1>2. \A r \in Runs : saved[r].nodes = {} /\ run[r].status = "none" /\ turn[r] = 0
  BY DEF Init, NoCheckpoint
<1>3. WorkOnRuns /\ FreshRuns
  BY <1>1, <1>2, BackgroundAssumption DEF Init, WorkOnRuns, FreshRuns, Fresh, Threads
<1>4. HoldersRun /\ OneHolder
  BY <1>1 DEF HoldersRun, OneHolder, Holds
<1>5. TurnOfRun /\ SavedDraft
  BY <1>2 DEF TurnOfRun, SavedDraft
<1>6. JobAnswered
  BY <1>1, BackgroundAssumption DEF Init, JobAnswered, Threads
<1>7. DownIsIdle /\ Submissions
  BY DEF Init, DownIsIdle, Submissions
<1> QED
  BY <1>3, <1>4, <1>5, <1>6, <1>7 DEF Inv

\* A thread other than x that held its run and keeps it is untouched when only
\* the rows of a run that it does not hold change.
LEMMA OthersHold ==
  ASSUME Inv, NEW y \in Threads, Holds(y), work'[y] = work[y],
         run'[work[y].run] = run[work[y].run], saved'[work[y].run] = saved[work[y].run]
  PROVE  HolderRow(y)'
  BY DEF Inv, HoldersRun, HolderRow

\* A thread that stops, or goes on to its end, takes nothing.
LEMMA MoveInv ==
  ASSUME TypeOK, Inv, NEW x \in Threads, NEW p \in Phases, Moved(x, p),
         UNCHANGED <<run, turn, saved, job, server, request, queue>>,
         work[x].phase \notin {"idle", "raised", "returned"},
         p \notin {"idle", "prepare", "graph", "closing"},
         p \in {"failing", "record"} => Holds(x),
         p = "record" => work[x].phase = "closing",
         p = "finish" => work[x].phase = "finish"
  PROVE  Inv'
<1>0. \A y \in Threads : Holds(y)' => Holds(y) /\ work'[y].run = work[y].run
  BY DEF Moved, Holds
<1>1. WorkOnRuns'
  BY DEF Inv, WorkOnRuns, Moved, Threads
<1>2. HoldersRun'
  BY <1>0 DEF Inv, HoldersRun, HolderRow, Holds, Moved
<1>3. OneHolder'
  BY <1>0 DEF Inv, OneHolder
<1>4. TurnOfRun'
  BY <1>0 DEF Inv, TurnOfRun
<1>5. FreshRuns'
  BY BackgroundAssumption DEF Inv, FreshRuns, Fresh, Moved, Threads
<1>6. JobAnswered'
  BY BackgroundAssumption DEF Inv, JobAnswered, Moved, Threads
<1>7. SavedDraft'
  BY DEF Inv, SavedDraft
<1>8. DownIsIdle' /\ Submissions'
  BY DEF Inv, DownIsIdle, Submissions, Moved
<1> QED
  BY <1>1, <1>2, <1>3, <1>4, <1>5, <1>6, <1>7, <1>8 DEF Inv

\* Threads that start or end in the pool.
LEMMA FreeInv ==
  ASSUME TypeOK, Inv, NEW x \in Threads, work' = [work EXCEPT ![x] = Idle(x)],
         UNCHANGED <<run, turn, saved, job, server, request, queue>>
  PROVE  Inv'
<1>0. /\ work'[x].phase = "idle" /\ work'[x].run = x
      /\ \A y \in Threads \ {x} : work'[y] = work[y]
  BY DEF TypeOK, Idle, Busy
<1>1. WorkOnRuns'
  BY <1>0 DEF Inv, WorkOnRuns, Threads
<1>2. HoldersRun' /\ OneHolder' /\ TurnOfRun'
  BY <1>0 DEF Inv, HoldersRun, HolderRow, Holds, OneHolder, TurnOfRun
<1>3. FreshRuns'
  BY <1>0, BackgroundAssumption DEF Inv, FreshRuns, Fresh, Threads
<1>4. JobAnswered' /\ SavedDraft'
  BY <1>0, BackgroundAssumption DEF Inv, JobAnswered, SavedDraft, Threads
<1>5. DownIsIdle' /\ Submissions'
  BY <1>0 DEF Inv, DownIsIdle, Submissions
<1> QED
  BY <1>1, <1>2, <1>3, <1>4, <1>5 DEF Inv

-----------------------------------------------------------------------------
(* Each action keeps the invariant *)

LEMMA SubmitInv ==
  ASSUME TypeOK, Inv, NEW r \in Background,
         Admit(r) \/ InsertJob(r) \/ SubmitJob(r) \/ SubmitRaises(r) \/ AttachCallback(r)
  PROVE  Inv'
<1>0. UNCHANGED <<work, run, turn, saved, server>>
  BY DEF Admit, InsertJob, SubmitJob, SubmitRaises, AttachCallback, rows
<1>1. WorkOnRuns' /\ HoldersRun' /\ OneHolder' /\ TurnOfRun' /\ SavedDraft'
  BY <1>0 DEF Inv, WorkOnRuns, HoldersRun, HolderRow, Holds, OneHolder, TurnOfRun, SavedDraft
<1>2. \A q \in Background :
        /\ job'[q] \in {"none", "queued"} => job[q] \in {"none", "queued"}
        /\ job'[q] = "completed" => job[q] = "completed"
        /\ job[q] # "none" => job'[q] # "none"
        /\ job'[q] # job[q] => q = r
  <2>0. job \in [Background -> {"none", "queued", "running"} \cup Ended]
    BY DEF TypeOK
  <2>1. CASE Admit(r) \/ SubmitJob(r)
    BY <2>1 DEF Admit, SubmitJob, rows
  <2>2. CASE InsertJob(r)
    BY <2>0, <2>2 DEF InsertJob, Inv, Submissions
  <2>3. CASE SubmitRaises(r)
    BY <2>0, <2>3 DEF SubmitRaises
  <2>4. CASE AttachCallback(r)
    <3>1. job' = job \/ job' = [job EXCEPT ![r] = AfterDone(r, future[r])]
      BY <2>4 DEF AttachCallback, Finished
    <3> QED
      BY <2>0, <3>1 DEF AfterDone
  <2> QED
    BY <2>1, <2>2, <2>3, <2>4
<1>3. FreshRuns' /\ JobAnswered'
  BY <1>0, <1>2 DEF Inv, FreshRuns, Fresh, JobAnswered
<1>4. DownIsIdle'
  BY <1>0 DEF Inv, DownIsIdle, TypeOK, Admit, InsertJob, SubmitJob, SubmitRaises, AttachCallback
<1>5. Submissions'
  <2>0. queue \in Seq(Background) /\ request \in [Background -> {"none", "admitted", "inserted", "submitted", "ended"}]
        /\ job \in [Background -> {"none", "queued", "running"} \cup Ended]
    BY DEF TypeOK
  <2> USE DEF Inv, Submissions
  <2>1. CASE Admit(r)
    BY <2>0, <2>1 DEF Admit, rows
  <2>2. CASE InsertJob(r)
    BY <2>0, <2>2 DEF InsertJob
  <2>3. CASE SubmitJob(r)
    BY <2>0, <2>3 DEF SubmitJob, rows
  <2>4. CASE SubmitRaises(r)
    BY <2>0, <2>4 DEF SubmitRaises
  <2>5. CASE AttachCallback(r)
    <3>1. \A q \in Background : job[q] = "none" => job'[q] = "none"
      BY <2>0, <2>5 DEF AttachCallback, Finished, AfterDone
    <3> QED
      BY <2>0, <2>5, <3>1, <1>2 DEF AttachCallback
  <2> QED
    BY <2>1, <2>2, <2>3, <2>4, <2>5
<1> QED
  BY <1>1, <1>3, <1>4, <1>5 DEF Inv

\* A question enters a thread: that of its request or one of the pool.
LEMMA AskInv ==
  ASSUME TypeOK, Inv, NEW r \in Runs, AskAgent(r)
  PROVE  Inv'
<1>0. r \in Threads
  BY DEF Threads
<1>1. Moved(r, "prepare")
  BY <1>0, GotoMoves DEF AskAgent, Phases
<1>2. UNCHANGED <<run, turn, saved, job, server, request, queue>> /\ server = "up"
      /\ Fresh(r) /\ r \notin Background
  BY DEF AskAgent, rows, pool, Fresh
<1>3. \A y \in Threads : Holds(y)' => Holds(y) /\ work'[y] = work[y]
  BY <1>1 DEF Moved, Holds
<1>4. WorkOnRuns'
  BY <1>0, <1>1, ResumersAssumption DEF Inv, WorkOnRuns, Moved, Threads
<1>5. HoldersRun' /\ OneHolder' /\ TurnOfRun' /\ SavedDraft'
  BY <1>2, <1>3 DEF Inv, HoldersRun, HolderRow, OneHolder, TurnOfRun, SavedDraft
<1>6. FreshRuns' /\ JobAnswered'
  BY <1>1, <1>2, BackgroundAssumption DEF Inv, FreshRuns, Fresh, JobAnswered, Moved, Threads
<1>7. DownIsIdle' /\ Submissions'
  BY <1>2 DEF Inv, DownIsIdle, Submissions
<1> QED
  BY <1>4, <1>5, <1>6, <1>7 DEF Inv

LEMMA TakeInv ==
  ASSUME TypeOK, Inv, TakeJob
  PROVE  Inv'
<1> DEFINE r == Head(queue)
<1>0. /\ queue \in Seq(Background) /\ queue # <<>> /\ r \in Background /\ r = queue[1]
      /\ 1 \in 1 .. Len(queue) /\ Tail(queue) \in Seq(Background)
      /\ r \in Runs /\ r \in Threads
  BY BackgroundAssumption DEF TypeOK, TakeJob, Threads
<1>1. job[r] # "none" /\ request[r] \in {"submitted", "ended"} /\ server # "down"
  BY <1>0 DEF Inv, Submissions, DownIsIdle
<1>2. /\ UNCHANGED <<run, turn, saved, server, request>> /\ queue' = Tail(queue)
      /\ \/ job[r] = "queued" /\ job' = [job EXCEPT ![r] = "running"] /\ Goto(r, "prepare")
         \/ job' = job /\ ((job[r] # "queued" /\ Goto(r, "returned")) \/ Goto(r, "raised"))
  BY DEF TakeJob, Claimable
<1>3. /\ \/ job[r] = "queued" /\ Moved(r, "prepare") /\ job'[r] = "running"
         \/ (Moved(r, "returned") \/ Moved(r, "raised")) /\ job'[r] = job[r]
      /\ \A q \in Background \ {r} : job'[q] = job[q]
  BY <1>0, <1>2, GotoMoves DEF Phases, TypeOK
<1> HIDE DEF r
<1>4. \A y \in Threads : Holds(y)' => Holds(y) /\ work'[y] = work[y]
  BY <1>3 DEF Moved, Holds
<1>5. WorkOnRuns'
  BY <1>0, <1>3, ResumersAssumption DEF Inv, WorkOnRuns, Moved, Threads
<1>6. HoldersRun' /\ OneHolder' /\ TurnOfRun' /\ SavedDraft'
  BY <1>2, <1>4 DEF Inv, HoldersRun, HolderRow, OneHolder, TurnOfRun, SavedDraft
<1>7. FreshRuns'
  BY <1>0, <1>1, <1>2, <1>3, BackgroundAssumption DEF Inv, FreshRuns, Fresh, Moved, Threads
<1>8. JobAnswered'
  BY <1>0, <1>2, <1>3, BackgroundAssumption DEF Inv, JobAnswered, Moved, Threads
<1>9. DownIsIdle'
  BY <1>1, <1>2 DEF Inv, DownIsIdle
<1>10. Submissions'
  <2>1. \A i \in 1 .. Len(queue') : i + 1 \in 1 .. Len(queue) /\ queue'[i] = queue[i + 1]
    BY <1>0, <1>2
  <2>2. \A i \in 1 .. Len(queue) : queue[i] \in Background
    BY <1>0
  <2> QED
    BY <1>0, <1>1, <1>2, <1>3, <2>1, <2>2 DEF Inv, Submissions
<1> QED
  BY <1>5, <1>6, <1>7, <1>8, <1>9, <1>10 DEF Inv

\* _start_run: a new run is taken by its own thread.
LEMMA StartInv ==
  ASSUME TypeOK, Inv, NEW r \in Runs, StartRun(r)
  PROVE  Inv'
<1>0. r \in Threads /\ Fresh(r) /\ server # "down"
  BY DEF Inv, FreshRuns, StartRun, Threads, DownIsIdle
<1>1. Began(r, "graph", r, NoCheckpoint, page)
  BY <1>0, BusyBegins, NoCheckpointType DEF StartRun, Phases, TypeOK
<1>2. UNCHANGED <<turn, saved, job, server, request, queue>>
  BY DEF StartRun, pool
<1>3. /\ run'[r].status = "running"
      /\ \A q \in Runs \ {r} : run'[q] = run[q]
  BY DEF StartRun, TypeOK
<1>4. \A y \in Threads \ {r} : Holds(y)' => Holds(y) /\ work'[y] = work[y]
                                   /\ work[y].run # r /\ work[y].run \in Runs
  <2>1. \A y \in Threads : Holds(y) => work[y].run \in Runs
    BY BusyThread DEF Inv, Holds
  <2> QED
    BY <2>1, <1>0, <1>1 DEF Began, Holds, Inv, HoldersRun, HolderRow, Fresh
<1>5. WorkOnRuns'
  BY <1>0, <1>1, ResumersAssumption DEF Inv, WorkOnRuns, Began, Threads
<1>6. HoldersRun'
  <2>1. \A y \in Threads \ {r} : Holds(y)' => HolderRow(y)'
    BY <1>2, <1>3, <1>4, OthersHold
  <2>2. HolderRow(r)'
    BY <1>0, <1>1, <1>2, <1>3 DEF HolderRow, Began, NoCheckpoint, Inv, FreshRuns, Fresh
  <2> QED
    BY <2>1, <2>2 DEF HoldersRun
<1>7. OneHolder'
  BY <1>1, <1>4 DEF Inv, OneHolder, Began
<1>8. TurnOfRun'
  BY <1>0, <1>1, <1>2, <1>3, <1>4 DEF Inv, TurnOfRun, Began, Fresh
<1>9. FreshRuns'
  BY <1>0, <1>1, <1>2, <1>3, BackgroundAssumption
  DEF Inv, FreshRuns, Fresh, Began, StartRun, Threads
<1>10. JobAnswered' /\ SavedDraft'
  BY <1>0, <1>1, <1>2, BackgroundAssumption DEF Inv, JobAnswered, SavedDraft, Began, Threads
<1>11. DownIsIdle' /\ Submissions'
  BY <1>0, <1>2 DEF Inv, DownIsIdle, Submissions
<1> QED
  BY <1>5, <1>6, <1>7, <1>8, <1>9, <1>10, <1>11 DEF Inv

\* A run that is left by its thread before the graph, or a turn without a run.
LEMMA LeaveInv ==
  ASSUME TypeOK, Inv, NEW r \in Runs, TrackRaises(r) \/ Clarify(r)
  PROVE  Inv'
<1>0. r \in Threads /\ Fresh(r) /\ server # "down" /\ work[r].phase = "prepare" /\ work[r].run = r
  BY DEF Inv, FreshRuns, TrackRaises, Clarify, Threads, DownIsIdle, WorkOnRuns
<1>1. \E p \in {"raised", "stopped", "finish"} :
         /\ Moved(r, p)
         /\ \/ TrackRaises(r) /\ p # "finish"
            \/ Clarify(r)
  BY <1>0, RaisedPhase, GotoMoves DEF TrackRaises, Clarify, Phases
<1>2. UNCHANGED <<saved, job, server, request, queue>>
  BY DEF TrackRaises, Clarify, pool
<1>3. /\ \A q \in Runs \ {r} : run'[q] = run[q] /\ turn'[q] = turn[q]
      /\ \/ TrackRaises(r) /\ turn'[r] = 0 /\ run'[r].status = "running"
         \/ Clarify(r) /\ turn'[r] = 1 /\ run'[r] = run[r]
  BY <1>0 DEF TrackRaises, Clarify, TypeOK, Fresh
<1>4. \A y \in Threads : Holds(y)' => Holds(y) /\ work'[y] = work[y]
                                   /\ work[y].run # r /\ work[y].run \in Runs
  <2>1. \A y \in Threads : Holds(y) => work[y].run \in Runs
    BY BusyThread DEF Inv, Holds
  <2> QED
    BY <2>1, <1>0, <1>1 DEF Moved, Holds, Inv, HoldersRun, HolderRow, Fresh
<1>5. WorkOnRuns'
  BY <1>0, <1>1, ResumersAssumption DEF Inv, WorkOnRuns, Moved, Threads
<1>6. HoldersRun' /\ OneHolder'
  <2>1. \A y \in Threads : Holds(y)' => HolderRow(y)'
    BY <1>2, <1>3, <1>4, OthersHold
  <2> QED
    BY <1>4, <2>1 DEF Inv, HoldersRun, OneHolder
<1>7. TurnOfRun'
  BY <1>0, <1>3, <1>4 DEF Inv, TurnOfRun, Fresh
<1>8. FreshRuns'
  BY <1>0, <1>1, <1>2, <1>3, BackgroundAssumption DEF Inv, FreshRuns, Fresh, Moved, Threads
<1>9. JobAnswered'
  <2>1. ASSUME NEW q \in Background, q # r, (work[q].phase = "finish" \/ job[q] = "completed")'
        PROVE  turn'[q] # 0
    BY <1>1, <1>2, <1>3, <2>1, BackgroundAssumption DEF Inv, JobAnswered, Moved, Threads
  <2>2. ASSUME r \in Background, TrackRaises(r) PROVE work'[r].phase # "finish" /\ job[r] # "completed"
    <3>1. Goto(r, Raised(r))
      BY <2>2 DEF TrackRaises
    <3> QED
      BY <1>0, <2>2, <3>1, RaisedPhase, GotoMoves DEF Moved, Phases, Inv, JobAnswered, Fresh
  <2> QED
    BY <1>2, <1>3, <2>1, <2>2 DEF JobAnswered
<1>10. SavedDraft' /\ DownIsIdle' /\ Submissions'
  BY <1>0, <1>2 DEF Inv, SavedDraft, DownIsIdle, Submissions
<1> QED
  BY <1>5, <1>6, <1>7, <1>8, <1>9, <1>10 DEF Inv

\* A node ends: its thread keeps the run; an answer of the critic is a draft.
LEMMA NodeInv ==
  ASSUME TypeOK, Inv, NEW x \in Threads,
         (\E n \in Nodes : RunNode(x, n)) \/ Retrieve(x) \/ Critic(x)
         \/ (Memorize(x) /\ ~Goto(x, "failing"))
  PROVE  Inv'
<1>0. /\ work[x].phase = "graph" /\ work'[x].phase = "graph" /\ work'[x].run = work[x].run
      /\ \A y \in Threads \ {x} : work'[y] = work[y]
      /\ UNCHANGED <<job, run, saved, turn, server, request, queue>>
      /\ \/ work'[x].draft = work[x].draft /\ "critic" \notin work'[x].done \ work[x].done
         \/ work'[x].draft = drafts[work[x].run] + 1
  BY NodeStep DEF pool
<1>1. drafts[work[x].run] + 1 # 0
  BY <1>0, BusyThread DEF TypeOK, Inv
<1>2. \A y \in Threads : Holds(y)' => Holds(y) /\ work'[y].run = work[y].run
  BY <1>0 DEF Holds
<1>3. WorkOnRuns'
  BY <1>0 DEF Inv, WorkOnRuns, Threads
<1>4. HoldersRun'
  <2>1. \A y \in Threads \ {x} : Holds(y)' => HolderRow(y)'
    BY <1>0, <1>2, OthersHold
  <2>2. HolderRow(x) /\ Holds(x)
    BY <1>0 DEF Inv, HoldersRun, Holds
  <2>3. \/ work'[x].basis = work[x].basis
        \/ "retrieve" \notin work[x].done
    BY NodeStep
  <2>4. work[x].done \subseteq work'[x].done
    BY NodeStep
  <2>5. HolderRow(x)'
    BY <1>0, <1>1, <2>2, <2>3, <2>4 DEF HolderRow
  <2> QED
    BY <2>1, <2>5 DEF HoldersRun
<1>5. OneHolder' /\ TurnOfRun'
  BY <1>0, <1>2 DEF Inv, OneHolder, TurnOfRun
<1>6. FreshRuns' /\ JobAnswered'
  BY <1>0, BackgroundAssumption DEF Inv, FreshRuns, Fresh, JobAnswered, Threads
<1>7. SavedDraft' /\ DownIsIdle' /\ Submissions'
  BY <1>0 DEF Inv, SavedDraft, DownIsIdle, Submissions
<1> QED
  BY <1>3, <1>4, <1>5, <1>6, <1>7 DEF Inv

LEMMA SaveInv ==
  ASSUME TypeOK, Inv, NEW x \in Threads, NEW n \in Nodes, SaveNode(x, n)
  PROVE  Inv'
<1>0. UNCHANGED <<work, job, run, turn, server, request, queue>>
  BY DEF SaveNode, pool
<1>1. HolderRow(x) /\ work[x].run \in Runs
  BY BusyThread DEF SaveNode, Inv, HoldersRun, Holds
<1>2. SavedDraft'
  <2>1. saved' = [saved EXCEPT ![work[x].run] = Checkpoint(x, saved[work[x].run].nodes \cup {n})]
        /\ n \in work[x].done
    BY DEF SaveNode
  <2>2. Checkpoint(x, saved[work[x].run].nodes \cup {n}).draft =
           IF "critic" \in saved[work[x].run].nodes \cup {n} THEN work[x].draft ELSE 0
    BY DEF Checkpoint
  <2>3. Checkpoint(x, saved[work[x].run].nodes \cup {n}).nodes = saved[work[x].run].nodes \cup {n}
    BY DEF Checkpoint
  <2>4. saved[work[x].run].nodes \subseteq work[x].done
    BY <1>1 DEF HolderRow
  <2> QED
    BY <1>1, <2>1, <2>2, <2>3, <2>4 DEF Inv, SavedDraft, HolderRow, TypeOK
<1>3. HoldersRun'
  <2>1. ASSUME NEW y \in Threads, y # x, Holds(y) PROVE HolderRow(y)'
    <3>1. work[y].run # work[x].run
      BY <2>1 DEF Inv, OneHolder, SaveNode, Holds
    <3>2. saved'[work[y].run] = saved[work[y].run]
      BY <3>1, <2>1, BusyThread DEF SaveNode, Holds, TypeOK, Inv
    <3> QED
      BY <1>0, <2>1, <3>2, OthersHold
  <2>2. HolderRow(x)'
    BY <1>0, <1>1 DEF HolderRow, SaveNode, Checkpoint, TypeOK
  <2> QED
    BY <1>0, <2>1, <2>2 DEF HoldersRun, Holds
<1>4. FreshRuns'
  <2>1. \A q \in Runs : Fresh(q) => q # work[x].run
    BY <1>1 DEF Fresh, HolderRow
  <2>2. \A q \in Runs : Fresh(q) => Fresh(q)'
    BY <2>1, <1>0 DEF Fresh, SaveNode, TypeOK
  <2>3. \A q \in Runs : run[q].status = "none" => q # work[x].run /\ saved'[q] = saved[q]
    BY <1>1 DEF HolderRow, SaveNode, TypeOK
  <2> QED
    BY <1>0, <2>2, <2>3, BackgroundAssumption DEF Inv, FreshRuns
<1> QED
  BY <1>0, <1>2, <1>3, <1>4 DEF Inv, WorkOnRuns, Holds, OneHolder, TurnOfRun,
     JobAnswered, DownIsIdle, Submissions

\* The thread that ends a run is the only one that holds it.
LEMMA EndInv ==
  ASSUME TypeOK, Inv, NEW x \in Threads, FailRun(x) \/ CompleteRun(x)
  PROVE  Inv'
<1> DEFINE r == work[x].run
<1>0. /\ Holds(x) /\ HolderRow(x) /\ r \in Runs /\ server # "down"
      /\ work[x] \in WorkType /\ work[x].phase # "idle"
  BY BusyThread DEF Inv, HoldersRun, Holds, FailRun, CompleteRun, DownIsIdle, TypeOK
<1>1. \/ /\ FailRun(x) /\ run'[r].status # "none"
         /\ Moved(x, "raised") \/ Moved(x, "stopped")
      \/ /\ CompleteRun(x) /\ Moved(x, "closing") /\ work[x].done = Nodes
         /\ run'[r].status = "completed" /\ run'[r].answer = work[x].draft
  <2>0. run \in [Runs -> [status : {"none", "running", "completed", "failed"}, answer : Nat]]
    BY DEF TypeOK
  <2>1. CASE FailRun(x)
    <3>1. Moved(x, "raised") \/ Moved(x, "stopped")
      BY <2>1, RaisedPhase, GotoMoves DEF FailRun, Phases
    <3>2. run'[r].status # "none"
      BY <1>0, <2>0, <2>1 DEF FailRun, HolderRow
    <3> QED
      BY <2>1, <3>1, <3>2
  <2>2. CASE CompleteRun(x)
    <3>1. Moved(x, "closing")
      BY <2>2, GotoMoves DEF CompleteRun, Phases
    <3>2. run'[r] = [status |-> "completed", answer |-> work[x].draft] /\ work[x].done = Nodes
      BY <1>0, <2>0, <2>2 DEF CompleteRun
    <3> QED
      BY <2>2, <3>1, <3>2
  <2> QED
    BY <2>1, <2>2
<1>2. /\ saved'[r].nodes = work[x].done
      /\ "retrieve" \in work[x].done => saved'[r].basis = work[x].basis
      /\ "critic" \in work[x].done => saved'[r].draft = work[x].draft
  <2>1. saved \in [Runs -> CheckpointType]
    BY DEF TypeOK
  <2>2. saved'[r] = Checkpoint(x, work[x].done)
    BY <1>0, <2>1 DEF FailRun, CompleteRun
  <2> QED
    BY <2>2 DEF Checkpoint
<1>3. /\ UNCHANGED <<job, turn, server, request, queue>>
      /\ \A q \in Runs \ {r} : run'[q] = run[q] /\ saved'[q] = saved[q]
  BY DEF FailRun, CompleteRun, pool, TypeOK
<1>4. \A y \in Threads \ {x} : work'[y] = work[y]
  BY <1>1 DEF Moved
<1> HIDE DEF r
<1>5. \A y \in Threads \ {x} : Holds(y)' => Holds(y) /\ work[y].run # r /\ work[y].run \in Runs
  <2>1. \A y \in Threads : Holds(y) => work[y].run \in Runs
    BY BusyThread DEF Inv, Holds
  <2> QED
    BY <2>1, <1>0, <1>4 DEF Holds, Inv, OneHolder, r
<1>6. WorkOnRuns'
  BY <1>0, <1>1 DEF Inv, WorkOnRuns, Moved, Threads
<1>7. HoldersRun'
  <2>1. \A y \in Threads \ {x} : Holds(y)' => HolderRow(y)'
    BY <1>3, <1>4, <1>5, OthersHold
  <2>2. CASE FailRun(x) /\ (Moved(x, "raised") \/ Moved(x, "stopped"))
    BY <2>1, <2>2 DEF HoldersRun, Holds, Moved
  <2>3. CASE /\ Moved(x, "closing") /\ work[x].done = Nodes
             /\ run'[r].status = "completed" /\ run'[r].answer = work[x].draft
    <3>1. work[x].draft # 0
      BY <1>0, <2>3, NodesAssumption DEF HolderRow
    <3>2. work'[x].run = r /\ work'[x].done = Nodes /\ work'[x].draft = work[x].draft
          /\ work'[x].basis = work[x].basis
      BY <2>3 DEF Moved, r
    <3>3. HolderRow(x)'
      BY <1>2, <2>3, <3>1, <3>2 DEF HolderRow
    <3> QED
      BY <2>1, <3>3 DEF HoldersRun
  <2> QED
    BY <1>1, <2>2, <2>3
<1>8. OneHolder'
  BY <1>0, <1>1, <1>4, <1>5 DEF Inv, OneHolder, Holds, Moved, r
<1>9. TurnOfRun'
  <2>1. turn[r] = 0
    BY <1>0 DEF Inv, TurnOfRun, HolderRow, r
  <2>2. \A y \in Threads : Holds(y)' => Holds(y) /\ work'[y].run = work[y].run
    BY <1>0, <1>1, <1>4, <1>5 DEF Moved
  <2> QED
    BY <1>3, <2>1, <2>2 DEF Inv, TurnOfRun
<1>10. FreshRuns'
  <2>1. \A q \in Runs : run[q].status = "none" => q # r
    BY <1>0 DEF HolderRow, r
  <2>2. run'[r].status # "none"
    BY <1>1
  <2>3. \A q \in Runs : work'[q].phase = "prepare" => work[q].phase = "prepare"
    BY <1>1, <1>4 DEF Moved, Threads
  <2>4. \A q \in Background : q = x => ~(job[q] \in {"none", "queued"})
    BY <1>0 DEF Inv, FreshRuns, Holds
  <2> QED
    BY <1>3, <1>4, <2>1, <2>2, <2>3, <2>4, BackgroundAssumption DEF Inv, FreshRuns, Fresh, Threads
<1>11. JobAnswered'
  BY <1>1, <1>3, <1>4, BackgroundAssumption DEF Inv, JobAnswered, Moved, Threads
<1>12. SavedDraft'
  <2>1. "critic" \in saved'[r].nodes => saved'[r].draft # 0
    BY <1>0, <1>2 DEF HolderRow
  <2> QED
    BY <1>3, <2>1 DEF Inv, SavedDraft
<1>13. DownIsIdle' /\ Submissions'
  BY <1>0, <1>3 DEF Inv, DownIsIdle, Submissions
<1> QED
  BY <1>6, <1>7, <1>8, <1>9, <1>10, <1>11, <1>12, <1>13 DEF Inv

LEMMA RecordInv ==
  ASSUME TypeOK, Inv, NEW x \in Threads, RecordTurn(x)
  PROVE  Inv'
<1> DEFINE r == work[x].run
<1>0. /\ Holds(x) /\ HolderRow(x) /\ r \in Runs /\ server # "down"
      /\ work[x].phase = "record"
  BY BusyThread DEF Inv, HoldersRun, Holds, RecordTurn, MayRecord, DownIsIdle, TypeOK
<1>1. turn[r] = 0
  BY <1>0 DEF Inv, TurnOfRun, HolderRow
<1>2. /\ UNCHANGED <<job, run, saved, server, request, queue>>
      /\ turn' = [turn EXCEPT ![r] = work[x].draft]
  BY <1>0, <1>1 DEF RecordTurn, pool, TypeOK
<1>3. Moved(x, "finish") \/ Moved(x, "stopped")
  BY GotoMoves DEF RecordTurn, Phases
<1>4. /\ run[r].status = "completed" /\ run[r].answer = work[x].draft /\ work[x].draft # 0
      /\ turn'[r] = work[x].draft /\ \A q \in Runs \ {r} : turn'[q] = turn[q]
  BY <1>0, <1>2 DEF HolderRow, TypeOK
<1>5. \A y \in Threads : Holds(y)' => Holds(y) /\ work'[y] = work[y] /\ work[y].run # r
  BY <1>0, <1>3 DEF Holds, Moved, Inv, OneHolder
<1>6. WorkOnRuns'
  BY <1>0, <1>3 DEF Inv, WorkOnRuns, Moved, Threads
<1>7. HoldersRun' /\ OneHolder'
  BY <1>2, <1>5 DEF Inv, HoldersRun, HolderRow, OneHolder
<1> HIDE DEF r
<1>8. TurnOfRun'
  BY <1>2, <1>4, <1>5 DEF Inv, TurnOfRun
<1>9. FreshRuns'
  <2>1. \A q \in Runs : Fresh(q) => q # r
    BY <1>4 DEF Fresh
  <2> QED
    BY <1>0, <1>2, <1>3, <1>4, <2>1, BackgroundAssumption DEF Inv, FreshRuns, Fresh, Moved, Threads
<1>10. JobAnswered'
  <2>1. \A q \in Background : q # x => work'[q] = work[q]
    BY <1>3, BackgroundAssumption DEF Moved, Threads
  <2>2. \A q \in Runs : turn[q] # 0 => turn'[q] # 0
    BY <1>4
  <2>3. x \in Runs => r = x
    BY DEF Inv, WorkOnRuns, r
  <2> QED
    BY <1>2, <1>4, <2>1, <2>2, <2>3, BackgroundAssumption DEF Inv, JobAnswered
<1>11. SavedDraft' /\ DownIsIdle' /\ Submissions'
  BY <1>0, <1>2 DEF Inv, SavedDraft, DownIsIdle, Submissions
<1> QED
  BY <1>6, <1>7, <1>8, <1>9, <1>10, <1>11 DEF Inv

LEMMA GraphInv ==
  ASSUME TypeOK, Inv, NEW x \in Threads, GraphStep(x)
  PROVE  Inv'
<1>1. ASSUME NEW n \in Nodes, SaveNode(x, n) PROVE Inv'
  BY <1>1, SaveInv
<1>2. CASE (\E n \in Nodes : RunNode(x, n)) \/ Retrieve(x) \/ Critic(x)
           \/ (Memorize(x) /\ ~Goto(x, "failing"))
  BY <1>2, NodeInv
<1>3. CASE Memorize(x) /\ Goto(x, "failing")
  <2>1. Moved(x, "failing") /\ work[x].phase = "graph"
    BY <1>3, GotoMoves DEF Memorize, Ready, Phases
  <2> QED
    BY <1>3, <2>1, MoveInv DEF Memorize, pool, Holds, Phases
<1>4. CASE NodeRaises(x)
  <2>1. Moved(x, "failing") /\ work[x].phase = "graph"
    BY <1>4, GotoMoves DEF NodeRaises, Phases
  <2> QED
    BY <1>4, <2>1, MoveInv DEF NodeRaises, rows, pool, Holds, Phases
<1>5. CASE ReturnResult(x)
  <2>1. Moved(x, "failing") \/ Moved(x, "record")
    BY <1>5, GotoMoves DEF ReturnResult, Phases
  <2> QED
    BY <1>5, <2>1, MoveInv DEF ReturnResult, rows, pool, Holds, Phases
<1>6. CASE RecordRaises(x)
  <2>1. Moved(x, "raised") \/ Moved(x, "stopped")
    BY <1>6, RaisedPhase, GotoMoves DEF RecordRaises, Phases
  <2> QED
    BY <1>6, <2>1, MoveInv DEF RecordRaises, rows, pool, Phases
<1>7. CASE Answer(x)
  BY <1>7, FreeInv DEF Answer, rows, pool
<1>8. CASE FailRun(x) \/ CompleteRun(x)
  BY <1>8, EndInv
<1>9. CASE RecordTurn(x)
  BY <1>9, RecordInv
<1> QED
  BY <1>1, <1>2, <1>3, <1>4, <1>5, <1>6, <1>7, <1>8, <1>9 DEF GraphStep

\* The end of a future: the job may only leave the queue.
LEMMA FutureInv ==
  ASSUME TypeOK, NEW r \in Background, NEW how, FutureEnds(r, how)
  PROVE  \A q \in Background :
            /\ job'[q] # job[q] => q = r /\ job[q] = "queued" /\ job'[q] = "interrupted"
            /\ how = "done" => job'[q] = job[q]
<1>1. job \in [Background -> {"none", "queued", "running"} \cup Ended]
  BY DEF TypeOK
<1>2. job' = job \/ job' = [job EXCEPT ![r] = AfterDone(r, how)]
  BY DEF FutureEnds, Finished
<1> QED
  BY <1>1, <1>2 DEF AfterDone

LEMMA JobInv ==
  ASSUME TypeOK, Inv, NEW r \in Background, FinishJob(r) \/ FailJob(r)
  PROVE  Inv'
<1>0. r \in Runs /\ r \in Threads /\ work[r].phase \in {"finish", "raised"} /\ server # "down"
  BY BackgroundAssumption DEF FinishJob, FailJob, Threads, Inv, DownIsIdle
<1>1. UNCHANGED <<run, turn, saved, server, request, queue>>
  BY DEF FinishJob, FailJob, pool
<1>2. Moved(r, "raised") \/ Moved(r, "returned")
  BY <1>0, GotoMoves DEF FinishJob, FailJob, Phases
<1>3. /\ \A q \in Background \ {r} : job'[q] = job[q]
      /\ \/ job'[r] = job[r]
         \/ job[r] = "running" /\ job'[r] = "completed" /\ work[r].phase = "finish"
         \/ job[r] = "running" /\ job'[r] = "failed"
  <2> DEFINE Jobs == {"none", "queued", "running"} \cup Ended
  <2>1. job \in [Background -> Jobs]
    BY DEF TypeOK
  <2> HIDE DEF Jobs
  <2>2. job' = job \/ \E s : job' = [job EXCEPT ![r] = s]
    BY DEF FinishJob, FailJob
  <2>3. \A q \in Background \ {r} : job'[q] = job[q]
    BY <2>1, <2>2
  <2>4. CASE FinishJob(r)
    BY <2>1, <2>4 DEF FinishJob
  <2>5. CASE FailJob(r)
    BY <2>1, <2>5 DEF FailJob
  <2> QED
    BY <2>3, <2>4, <2>5
<1>4. \A y \in Threads : Holds(y)' => Holds(y) /\ work'[y] = work[y]
  BY <1>2 DEF Holds, Moved
<1>5. WorkOnRuns' /\ HoldersRun' /\ OneHolder' /\ TurnOfRun'
  BY <1>0, <1>1, <1>2, <1>4
  DEF Inv, WorkOnRuns, HoldersRun, HolderRow, OneHolder, TurnOfRun, Moved, Threads
<1>6. FreshRuns'
  BY <1>0, <1>1, <1>2, <1>3, BackgroundAssumption DEF Inv, FreshRuns, Fresh, Moved, Threads
<1>7. JobAnswered'
  BY <1>0, <1>1, <1>2, <1>3, BackgroundAssumption DEF Inv, JobAnswered, Moved, Threads
<1>8. SavedDraft' /\ DownIsIdle'
  BY <1>0, <1>1 DEF Inv, SavedDraft, DownIsIdle
<1>9. Submissions'
  <2>1. \A i \in 1 .. Len(queue) : queue[i] \in Background
    BY DEF TypeOK
  <2> QED
    BY <1>1, <1>3, <2>1 DEF Inv, Submissions
<1> QED
  BY <1>5, <1>6, <1>7, <1>8, <1>9 DEF Inv

LEMMA ReturnInv ==
  ASSUME TypeOK, Inv, NEW r \in Background, Return(r)
  PROVE  Inv'
<1>0. r \in Threads
  BY BackgroundAssumption DEF Threads
<1>1. job' = job
  BY FutureInv DEF Return, FutureEnds, Finished, AfterDone, TypeOK
<1> QED
  BY <1>0, <1>1, FreeInv DEF Return

-----------------------------------------------------------------------------
(* Resume requests *)

LEMMA ReadInv ==
  ASSUME TypeOK, Inv, NEW x \in Resumers, NEW r \in Runs, ResumeRead(x, r)
  PROVE  Inv'
<1>0. x \in Threads /\ x \notin Runs /\ r \in Threads
  BY ResumersAssumption DEF Threads
<1>1. Began(x, "validate", r, NoCheckpoint, page)
  BY <1>0, BusyBegins, NoCheckpointType DEF ResumeRead, Phases, TypeOK
<1>2. UNCHANGED <<run, turn, saved, job, server, request, queue>> /\ server = "up"
  BY DEF ResumeRead, rows, pool
<1>3. \A y \in Threads : Holds(y)' => Holds(y) /\ work'[y] = work[y]
  BY <1>1 DEF Began, Holds
<1>4. WorkOnRuns'
  BY <1>0, <1>1 DEF Inv, WorkOnRuns, Began, Threads
<1>5. HoldersRun' /\ OneHolder' /\ TurnOfRun' /\ SavedDraft'
  BY <1>2, <1>3 DEF Inv, HoldersRun, HolderRow, OneHolder, TurnOfRun, SavedDraft
<1>6. FreshRuns' /\ JobAnswered'
  BY <1>0, <1>1, <1>2, BackgroundAssumption DEF Inv, FreshRuns, Fresh, JobAnswered, Began, Threads
<1>7. DownIsIdle' /\ Submissions'
  BY <1>2 DEF Inv, DownIsIdle, Submissions
<1> QED
  BY <1>4, <1>5, <1>6, <1>7 DEF Inv

LEMMA ClaimInv ==
  ASSUME TypeOK, Inv, NEW x \in Resumers, ResumeClaim(x)
  PROVE  Inv'
<1> DEFINE r == work[x].run
<1>0. /\ x \in Threads /\ x \notin Runs /\ r \in Runs /\ r \in Threads
      /\ work[x].phase = "claim" /\ server # "down"
  BY ResumersAssumption, BusyThread DEF Threads, ResumeClaim, Inv, DownIsIdle
<1>1. CASE ~ClaimsRun(r)
  <2>1. Moved(x, "stopped")
    BY <1>0, <1>1, GotoMoves DEF ResumeClaim, Phases
  <2> QED
    BY <1>0, <1>1, <2>1, MoveInv DEF ResumeClaim, pool, Phases
<1>2. CASE ClaimsRun(r)
  <2>0. /\ run[r].status = "failed"
        /\ work[x].since \in 0 .. MaxEdits /\ saved[r] \in CheckpointType
    BY <1>0, <1>2 DEF ClaimsRun, TypeOK, WorkType
  <2>1. Began(x, "graph", r, saved[r], work[x].since)
    BY <1>0, <1>2, <2>0, BusyBegins DEF ResumeClaim, Phases
  <2>2. /\ UNCHANGED <<turn, saved, job, server, request, queue>>
        /\ run'[r].status = "running"
        /\ \A q \in Runs \ {r} : run'[q] = run[q]
    BY <1>0, <1>2 DEF ResumeClaim, pool, TypeOK
  <2> HIDE DEF r
  <2>3. \A y \in Threads \ {x} : Holds(y)' => Holds(y) /\ work'[y] = work[y]
                                    /\ work[y].run # r /\ work[y].run \in Runs
    <3>1. \A y \in Threads : Holds(y) => work[y].run \in Runs
      BY BusyThread DEF Inv, Holds
    <3> QED
      BY <3>1, <2>0, <2>1 DEF Began, Holds, Inv, HoldersRun, HolderRow
  <2>4. WorkOnRuns'
    BY <1>0, <2>1 DEF Inv, WorkOnRuns, Began, Threads
  <2>5. HoldersRun'
    <3>1. \A y \in Threads \ {x} : Holds(y)' => HolderRow(y)'
      BY <2>2, <2>3, OthersHold
    <3>2. HolderRow(x)'
      BY <1>0, <2>1, <2>2 DEF HolderRow, Began, Inv, SavedDraft
    <3> QED
      BY <3>1, <3>2 DEF HoldersRun
  <2>6. OneHolder'
    BY <2>1, <2>3 DEF Inv, OneHolder, Began
  <2>7. TurnOfRun'
    <3>1. turn[r] = 0
      BY <1>0, <2>0 DEF Inv, TurnOfRun
    <3>2. \A y \in Threads : Holds(y)' /\ work'[y].run # r => Holds(y) /\ work'[y].run = work[y].run
      BY <2>1, <2>3 DEF Began
    <3> QED
      BY <2>2, <3>1, <3>2 DEF Inv, TurnOfRun
  <2>8. FreshRuns' /\ JobAnswered'
    BY <1>0, <2>0, <2>1, <2>2, BackgroundAssumption
    DEF Inv, FreshRuns, Fresh, JobAnswered, Began, Threads
  <2>9. SavedDraft' /\ DownIsIdle' /\ Submissions'
    BY <1>0, <2>2 DEF Inv, SavedDraft, DownIsIdle, Submissions
  <2> QED
    BY <2>4, <2>5, <2>6, <2>7, <2>8, <2>9 DEF Inv
<1> QED
  BY <1>1, <1>2

-----------------------------------------------------------------------------
(* The process *)

LEMMA CancelInv ==
  ASSUME TypeOK, Inv, CancelQueued
  PROVE  Inv'
<1> DEFINE r == Head(queue)
<1>0. /\ queue \in Seq(Background) /\ queue # <<>> /\ r \in Background /\ r = queue[1]
      /\ 1 \in 1 .. Len(queue) /\ Tail(queue) \in Seq(Background)
  BY DEF TypeOK, CancelQueued
<1>1. UNCHANGED <<work, run, turn, saved, server, request>> /\ queue' = Tail(queue)
      /\ server = "closing"
  BY DEF CancelQueued
<1>2. \A q \in Background : job'[q] # job[q] => job[q] = "queued" /\ job'[q] = "interrupted"
  BY <1>0, FutureInv DEF CancelQueued
<1>3. WorkOnRuns' /\ HoldersRun' /\ OneHolder' /\ TurnOfRun' /\ SavedDraft' /\ DownIsIdle'
  BY <1>1 DEF Inv, WorkOnRuns, HoldersRun, HolderRow, Holds, OneHolder, TurnOfRun,
     SavedDraft, DownIsIdle
<1>4. FreshRuns' /\ JobAnswered'
  BY <1>1, <1>2 DEF Inv, FreshRuns, Fresh, JobAnswered
<1>5. Submissions'
  <2>1. \A i \in 1 .. Len(queue') : i + 1 \in 1 .. Len(queue) /\ queue'[i] = queue[i + 1]
    BY <1>0, <1>1
  <2>2. \A i \in 1 .. Len(queue) : queue[i] \in Background
    BY <1>0
  <2>3. \A q \in Background : request[q] = "inserted" => job'[q] = job[q]
    <3>1. request[r] \in {"submitted", "ended"}
      BY <1>0 DEF Inv, Submissions
    <3>2. \A q \in Background : job'[q] # job[q] => q = r
      BY <1>0, FutureInv DEF CancelQueued
    <3> QED
      BY <3>1, <3>2
  <2> QED
    BY <1>1, <1>2, <2>1, <2>2, <2>3 DEF Inv, Submissions
<1> QED
  BY <1>3, <1>4, <1>5 DEF Inv

LEMMA StopInv ==
  ASSUME TypeOK, Inv, Stop, UNCHANGED rows
  PROVE  Inv'
<1>0. UNCHANGED <<job, run, turn, saved>>
  BY DEF rows
<1>1. \A x \in Threads : work'[x].phase = "idle" /\ work'[x].run = x
  BY DEF Stop, Idle, Busy
<1>2. WorkOnRuns'
  BY <1>1 DEF WorkOnRuns, Threads
<1>3. HoldersRun' /\ OneHolder' /\ TurnOfRun'
  BY <1>0, <1>1 DEF HoldersRun, OneHolder, TurnOfRun, Holds, Inv
<1>4. FreshRuns' /\ JobAnswered' /\ SavedDraft'
  BY <1>0, <1>1, BackgroundAssumption
  DEF Inv, FreshRuns, Fresh, JobAnswered, SavedDraft, Threads
<1>5. DownIsIdle' /\ Submissions'
  BY <1>1 DEF Stop, DownIsIdle, Submissions
<1> QED
  BY <1>2, <1>3, <1>4, <1>5 DEF Inv

\* Nobody holds a run when the recovery of a start fails those that were running.
LEMMA RestartInv ==
  ASSUME TypeOK, Inv, Restart
  PROVE  Inv'
<1>0. /\ \A x \in Threads : work[x].phase = "idle"
      /\ \A r \in Background : request[r] = "none"
      /\ queue = <<>>
  <2>1. server = "down"
    BY DEF Restart
  <2>2. \A r \in Background : request[r] = "none"
    BY <2>1 DEF Inv, DownIsIdle
  <2>3. queue = <<>>
    <3>1. SUFFICES ASSUME queue # <<>> PROVE FALSE
      OBVIOUS
    <3>2. 1 \in 1 .. Len(queue) /\ queue[1] \in Background
      BY <3>1 DEF TypeOK
    <3> QED
      BY <2>2, <3>2 DEF Inv, Submissions
  <2> QED
    BY <2>1, <2>2, <2>3 DEF Inv, DownIsIdle
<1>1. /\ UNCHANGED <<work, turn, saved, request, queue>> /\ server' = "up"
      /\ \A r \in Runs : run'[r] = [run[r] EXCEPT !.status = RecoveredRun(r)]
      /\ \A r \in Background : job'[r] = RecoveredJob(r)
  BY DEF Restart
<1>2. \A r \in Runs :
         /\ run'[r].answer = run[r].answer
         /\ run[r].status # "running" => run'[r].status = run[r].status
         /\ run[r].status = "running" => run'[r].status = "failed"
  BY <1>1 DEF RecoveredRun, TypeOK
<1>3. WorkOnRuns' /\ HoldersRun' /\ OneHolder'
  BY <1>0, <1>1 DEF Inv, WorkOnRuns, HoldersRun, OneHolder, Holds
<1>4. TurnOfRun'
  <2>1. ASSUME NEW r \in Runs, turn[r] # 0, run'[r].status # "none"
        PROVE  run'[r].status = "completed" /\ run'[r].answer = turn[r]
    <3>1. run[r].status # "none"
      BY <1>2, <2>1
    <3>2. run[r].status = "completed" /\ run[r].answer = turn[r]
      BY <2>1, <3>1 DEF Inv, TurnOfRun
    <3> QED
      BY <1>2, <3>2
  <2> QED
    BY <1>0, <1>1, <2>1 DEF TurnOfRun, Holds
<1>5. FreshRuns'
  <2>1. \A r \in Runs : run'[r].status = "none" => run[r].status = "none"
    BY <1>2
  <2>2. \A r \in Runs : Fresh(r) => Fresh(r)'
    BY <1>1, <1>2 DEF Fresh
  <2>3. \A r \in Background : job'[r] \in {"none", "queued"} => job[r] \in {"none", "queued"}
    BY <1>1 DEF RecoveredJob
  <2> QED
    BY <1>0, <1>1, <2>1, <2>2, <2>3, BackgroundAssumption DEF Inv, FreshRuns, Threads
<1>6. JobAnswered' /\ SavedDraft'
  BY <1>0, <1>1 DEF Inv, JobAnswered, SavedDraft, RecoveredJob
<1>7. DownIsIdle' /\ Submissions'
  BY <1>0, <1>1 DEF DownIsIdle, Submissions
<1> QED
  BY <1>3, <1>4, <1>5, <1>6, <1>7 DEF Inv

LEMMA QuietInv ==
  ASSUME TypeOK, Inv, UNCHANGED <<work, run, turn, saved, job, request, queue>>,
         server' # "down" \/ server' = server
  PROVE  Inv'
  BY DEF Inv, WorkOnRuns, HoldersRun, HolderRow, Holds, OneHolder, TurnOfRun, FreshRuns,
     Fresh, JobAnswered, SavedDraft, DownIsIdle, Submissions

LEMMA NextInv == TypeOK /\ Inv /\ [Next]_vars => Inv'
<1> SUFFICES ASSUME TypeOK, Inv, [Next]_vars PROVE Inv'
  OBVIOUS
<1>0. Runs \subseteq Threads /\ Resumers \subseteq Threads
  BY DEF Threads
<1>1. ASSUME NEW r \in Background, Admit(r) \/ SubmitStep(r) PROVE Inv'
  BY <1>1, SubmitInv DEF SubmitStep
<1>2. ASSUME NEW r \in Background, JobStep(r) PROVE Inv'
  BY <1>2, JobInv, ReturnInv DEF JobStep
<1>3. ASSUME NEW r \in Runs, AskAgent(r) PROVE Inv'
  BY <1>3, AskInv
<1>4. ASSUME NEW r \in Runs, RunStep(r) PROVE Inv'
  <2>1. CASE PrepareRaises(r)
    <3>1. Moved(r, "raised") \/ Moved(r, "stopped")
      BY <2>1, <1>0, RaisedPhase, GotoMoves DEF PrepareRaises, Phases
    <3> QED
      BY <2>1, <3>1, <1>0, MoveInv DEF PrepareRaises, rows, pool, Phases
  <2> QED
    BY <1>0, <1>4, <2>1, StartInv, LeaveInv, GraphInv DEF RunStep
<1>5. ASSUME NEW x \in Resumers, ResumeStep(x) PROVE Inv'
  <2>1. CASE ResumeValidate(x)
    <3>1. Moved(x, "claim") \/ Moved(x, "stopped")
      BY <2>1, <1>0, GotoMoves DEF ResumeValidate, Phases
    <3> QED
      BY <2>1, <3>1, <1>0, MoveInv DEF ResumeValidate, rows, pool, Phases
  <2>2. CASE ResumeRaises(x)
    <3>1. Moved(x, "stopped")
      BY <2>2, <1>0, GotoMoves DEF ResumeRaises, Phases
    <3> QED
      BY <2>2, <3>1, <1>0, MoveInv DEF ResumeRaises, rows, pool, Phases
  <2> QED
    BY <1>0, <1>5, <2>1, <2>2, ClaimInv, GraphInv DEF ResumeStep
<1>6. ASSUME NEW x \in Resumers, NEW r \in Runs, ResumeRead(x, r) PROVE Inv'
  BY <1>6, ReadInv
<1>7. CASE TakeJob
  BY <1>7, TakeInv
<1>8. CASE CancelQueued
  BY <1>8, CancelInv
<1>9. CASE EditPage \/ Shutdown \/ UNCHANGED vars
  BY <1>9, QuietInv DEF EditPage, Shutdown, vars, rows, pool
<1>10. CASE Exit \/ Crash
  BY <1>10, StopInv DEF Exit, Crash
<1>11. CASE Restart
  BY <1>11, RestartInv
<1> QED
  BY <1>1, <1>2, <1>3, <1>4, <1>5, <1>6, <1>7, <1>8, <1>9, <1>10, <1>11 DEF Next

LEMMA Inductive == Spec => [](TypeOK /\ Inv)
<1>1. Init => TypeOK /\ Inv
  BY InitType, InitInv
<1>2. TypeOK /\ Inv /\ [Next]_vars => (TypeOK /\ Inv)'
  BY NextType, NextInv DEF Inv
<1> QED
  BY <1>1, <1>2, PTL DEF Spec

-----------------------------------------------------------------------------
\* Every variable stays in its type.
THEOREM TypeCorrect == Spec => []TypeOK
  BY Inductive, PTL

\* No two threads ever execute one run (the claim of resume, the recovery of a
\* restart): the status of the row is a lock.
THEOREM OneExecutorAlways == Spec => []OneExecutor
<1>1. Inv => OneExecutor
  BY DEF Inv, OneHolder, OneExecutor, Executing, Holds
<1> QED
  BY Inductive, <1>1, PTL

\* What record_agent_turn wrote is the answer of a completed run.
THEOREM TurnIsTheAnswerAlways == Spec => []TurnIsTheAnswer
<1>1. Inv => TurnIsTheAnswer
  BY DEF Inv, TurnOfRun, TurnIsTheAnswer
<1> QED
  BY Inductive, <1>1, PTL

\* _execute completes a job only after its turn is written.
THEOREM CompletedJobHasTurnAlways == Spec => []CompletedJobHasTurn
<1>1. Inv => CompletedJobHasTurn
  BY DEF Inv, JobAnswered, CompletedJobHasTurn
<1> QED
  BY Inductive, <1>1, PTL

LEMMA JobStepEndsOnce ==
  ASSUME TypeOK, Inv, [Next]_vars, NEW r \in Background, job[r] \in Ended
  PROVE  job'[r] = job[r]
<1> USE DEF Ended
<1>0. job \in [Background -> {"none", "queued", "running"} \cup Ended]
  BY DEF TypeOK
<1>1. ASSUME NEW q \in Background, Admit(q) \/ SubmitStep(q) PROVE job'[r] = job[r]
  <2>1. CASE Admit(q) \/ SubmitJob(q)
    BY <2>1 DEF Admit, SubmitJob, rows
  <2>2. CASE InsertJob(q) \/ SubmitRaises(q)
    BY <1>0, <2>2 DEF InsertJob, SubmitRaises, Inv, Submissions
  <2>3. CASE AttachCallback(q)
    <3>1. job' = job \/ job' = [job EXCEPT ![q] = AfterDone(q, future[q])]
      BY <2>3 DEF AttachCallback, Finished
    <3> QED
      BY <1>0, <3>1 DEF AfterDone
  <2> QED
    BY <1>1, <2>1, <2>2, <2>3 DEF SubmitStep
<1>2. ASSUME NEW q \in Background, JobStep(q) PROVE job'[r] = job[r]
  <2>1. CASE FinishJob(q) \/ FailJob(q)
    BY <1>0, <2>1 DEF FinishJob, FailJob
  <2>2. CASE Return(q)
    BY <2>2, FutureInv DEF Return
  <2> QED
    BY <1>2, <2>1, <2>2 DEF JobStep
<1>3. ASSUME NEW x, GraphStep(x) PROVE job'[r] = job[r]
  BY <1>3 DEF GraphStep, RunNode, SaveNode, Retrieve, Critic, Memorize, NodeRaises, FailRun,
     CompleteRun, ReturnResult, RecordTurn, RecordRaises, Answer, rows
<1>4. ASSUME NEW q \in Runs, AskAgent(q) \/ RunStep(q) PROVE job'[r] = job[r]
  BY <1>3, <1>4 DEF AskAgent, RunStep, StartRun, TrackRaises, PrepareRaises, Clarify, rows
<1>5. ASSUME NEW x \in Resumers, ResumeStep(x) \/ \E q \in Runs : ResumeRead(x, q)
      PROVE  job'[r] = job[r]
  BY <1>3, <1>5 DEF ResumeStep, ResumeRead, ResumeValidate, ResumeClaim, ResumeRaises, rows
<1>6. CASE TakeJob
  BY <1>0, <1>6 DEF TakeJob, Claimable
<1>7. CASE CancelQueued
  <2>1. Head(queue) \in Background
    BY <1>7 DEF CancelQueued, TypeOK
  <2> QED
    BY <1>7, <2>1, FutureInv DEF CancelQueued
<1>8. CASE EditPage \/ Shutdown \/ Exit \/ Crash \/ UNCHANGED vars
  BY <1>8 DEF EditPage, Shutdown, Exit, Crash, vars, rows
<1>9. CASE Restart
  BY <1>9 DEF Restart, RecoveredJob
<1> QED
  BY <1>1, <1>2, <1>4, <1>5, <1>6, <1>7, <1>8, <1>9 DEF Next

\* How a job ended is final: neither a callback that runs late nor the recovery
\* of a restart changes it.
THEOREM JobEndsOnceAlways == Spec => JobEndsOnce
<1>1. TypeOK /\ Inv /\ [Next]_vars => [\A r \in Background : job[r] \in Ended => job'[r] = job[r]]_vars
  BY JobStepEndsOnce
<1> QED
  BY Inductive, <1>1, PTL DEF Spec, JobEndsOnce

-----------------------------------------------------------------------------
(* Edited pages.  What a resume request read before its claim was written   *)
(* by threads that took the run after the request had begun, because a run  *)
(* that the request could read was held by nobody.                          *)

Awaits(x) == work[x].phase \in {"validate", "claim"}

SincePast == \A x \in Threads : work[x].since <= page

HoldersNotice ==
    \A x \in Resumers, y \in Threads :
        /\ Awaits(x) /\ Holds(y) /\ work[y].run = work[x].run
        /\ "retrieve" \in work[y].done \ saved[work[x].run].nodes
        => work[y].basis >= work[x].since

ClaimNotices ==
    \A x \in Resumers :
        work[x].phase = "claim" /\ "retrieve" \in saved[work[x].run].nodes =>
            saved[work[x].run].basis >= work[x].since

Noticed == SincePast /\ HoldersNotice /\ ClaimNotices /\ EarlierEditIsNoticed

LEMMA InitNoticed == Init => Noticed
<1> SUFFICES ASSUME Init PROVE Noticed
  OBVIOUS
<1>1. \A x \in Threads : work[x].phase = "idle" /\ work[x].since = 0
  BY DEF Init, Idle, Busy
<1>2. SincePast
  BY <1>1 DEF Init, SincePast
<1>3. HoldersNotice /\ ClaimNotices /\ EarlierEditIsNoticed
  BY <1>1 DEF HoldersNotice, ClaimNotices, EarlierEditIsNoticed, Awaits, Threads
<1> QED
  BY <1>2, <1>3 DEF Noticed

LEMMA MoveNoticed ==
  ASSUME TypeOK, Noticed, NEW x \in Threads, NEW p \in Phases, Moved(x, p),
         UNCHANGED <<saved, page>>, p \notin {"validate", "claim", "graph"},
         p \in {"failing", "closing", "record"} => Holds(x)
  PROVE  Noticed'
<1>1. \A y \in Threads :
        /\ Holds(y)' => Holds(y)
        /\ Awaits(y)' => Awaits(y)
        /\ work'[y].phase \in {"claim", "graph"} => work'[y].phase = work[y].phase
        /\ work'[y].run = work[y].run /\ work'[y].done = work[y].done
        /\ work'[y].basis = work[y].basis /\ work'[y].since = work[y].since
  BY DEF Moved, Holds, Awaits
<1>2. SincePast'
  BY <1>1 DEF Noticed, SincePast
<1>3. HoldersNotice'
  BY <1>1 DEF Noticed, HoldersNotice, Threads
<1>4. ClaimNotices' /\ EarlierEditIsNoticed'
  BY <1>1 DEF Noticed, ClaimNotices, EarlierEditIsNoticed, Threads
<1> QED
  BY <1>2, <1>3, <1>4 DEF Noticed

LEMMA IdleNoticed ==
  ASSUME TypeOK, Noticed, UNCHANGED <<saved, page>>,
         \A y \in Threads : work'[y] = work[y] \/ (work'[y].phase = "idle" /\ work'[y].since = 0)
  PROVE  Noticed'
<1>0. page \in Nat
  BY BoundsAssumption DEF TypeOK
<1>1. \A y \in Threads :
        /\ Holds(y)' \/ Awaits(y)' => work'[y] = work[y]
        /\ work'[y].phase \in {"claim", "graph"} => work'[y] = work[y]
  BY DEF Holds, Awaits
<1>2. SincePast'
  BY <1>0 DEF Noticed, SincePast
<1>3. HoldersNotice'
  BY <1>1 DEF Noticed, HoldersNotice, Threads, Awaits, Holds
<1>4. ClaimNotices' /\ EarlierEditIsNoticed'
  BY <1>1 DEF Noticed, ClaimNotices, EarlierEditIsNoticed, Threads
<1> QED
  BY <1>2, <1>3, <1>4 DEF Noticed

LEMMA PageType == TypeOK => page \in Nat /\ \A x \in Threads : work[x].since \in Nat /\ work[x].basis \in Nat
<1> SUFFICES ASSUME TypeOK, NEW x \in Threads
             PROVE  page \in Nat /\ work[x].since \in Nat /\ work[x].basis \in Nat
  BY BoundsAssumption DEF TypeOK
<1>1. work[x] \in WorkType
  BY DEF TypeOK
<1> QED
  BY <1>1, BoundsAssumption DEF TypeOK, WorkType

\* A thread that retrieves sees the page as it is.
LEMMA NodeNoticed ==
  ASSUME TypeOK, Inv, Noticed, NEW x \in Threads,
         (\E n \in Nodes : RunNode(x, n)) \/ Retrieve(x) \/ Critic(x)
         \/ (Memorize(x) /\ ~Goto(x, "failing"))
  PROVE  Noticed'
<1>0. /\ work[x].phase = "graph" /\ work'[x].phase = "graph"
      /\ work'[x].run = work[x].run /\ work'[x].since = work[x].since
      /\ \A y \in Threads \ {x} : work'[y] = work[y]
      /\ UNCHANGED <<saved, page>>
      /\ \/ work'[x].basis = work[x].basis /\ "retrieve" \notin work'[x].done \ work[x].done
         \/ work'[x].basis = page /\ "retrieve" \notin work[x].done
  BY NodeStep
<1>1. page \in Nat /\ \A y \in Threads : work[y].since \in Nat /\ work[y].since <= page
  BY PageType DEF Noticed, SincePast
<1>2. SincePast'
  BY <1>0 DEF Noticed, SincePast
<1>3. \A y \in Threads :
        /\ Holds(y)' <=> Holds(y)
        /\ Awaits(y)' => work'[y] = work[y] /\ Awaits(y)
        /\ work'[y].run = work[y].run
  BY <1>0 DEF Holds, Awaits
<1>4. HoldersNotice'
  <2> SUFFICES ASSUME NEW w \in Resumers, NEW y \in Threads,
                      (/\ Awaits(w) /\ Holds(y) /\ work[y].run = work[w].run
                       /\ "retrieve" \in work[y].done \ saved[work[w].run].nodes)'
               PROVE  work'[y].basis >= work'[w].since
    BY DEF HoldersNotice
  <2>1. /\ w \in Threads /\ Awaits(w) /\ Holds(y) /\ work'[w] = work[w]
        /\ work[y].run = work[w].run
    BY <1>3 DEF Threads
  <2>2. CASE work'[y].basis = work[y].basis /\ "retrieve" \in work[y].done
    BY <1>0, <2>1, <2>2 DEF Noticed, HoldersNotice
  <2>3. CASE work'[y].basis = page
    BY <1>1, <2>1, <2>3
  <2> QED
    BY <1>0, <2>2, <2>3
<1>5. ClaimNotices'
  BY <1>0, <1>3 DEF Noticed, ClaimNotices, Threads, Awaits
<1>6. EarlierEditIsNoticed'
  BY <1>0, <1>1 DEF Noticed, EarlierEditIsNoticed, Threads
<1> QED
  BY <1>2, <1>4, <1>5, <1>6 DEF Noticed

\* What a thread saves is what it has, which the others have noticed.
LEMMA SavedNoticed ==
  ASSUME TypeOK, Inv, Noticed, NEW x \in Threads, Holds(x),
         NEW nodes \in SUBSET work[x].done, saved[work[x].run].nodes \subseteq nodes,
         saved' = [saved EXCEPT ![work[x].run] = Checkpoint(x, nodes)],
         UNCHANGED page,
         \/ UNCHANGED work /\ \A y \in Threads : Holds(y)' <=> Holds(y)
         \/ \E p \in {"raised", "stopped", "closing"} : Moved(x, p)
  PROVE  Noticed'
<1> DEFINE r == work[x].run
<1>0. HolderRow(x) /\ r \in Runs /\ saved \in [Runs -> CheckpointType]
  BY BusyThread DEF Inv, HoldersRun, Holds, TypeOK
<1>1. /\ saved'[r].nodes = nodes
      /\ "retrieve" \in nodes => saved'[r].basis = work[x].basis
      /\ \A q \in Runs \ {r} : saved'[q] = saved[q]
  BY <1>0 DEF Checkpoint
<1>2. \A y \in Threads :
        /\ Holds(y)' => Holds(y)
        /\ Awaits(y)' => Awaits(y)
        /\ work'[y].phase \in {"claim", "graph"} => work'[y].phase = work[y].phase
        /\ work'[y].run = work[y].run /\ work'[y].done = work[y].done
        /\ work'[y].basis = work[y].basis /\ work'[y].since = work[y].since
  BY DEF Moved, Holds, Awaits
<1>3. SincePast'
  BY <1>2 DEF Noticed, SincePast
<1>4. \A w \in Resumers : Awaits(w) => work[w].run \in Runs /\ w \in Threads
  BY BusyThread DEF Inv, Awaits, Threads
<1> HIDE DEF r
<1>5. HoldersNotice'
  <2> SUFFICES ASSUME NEW w \in Resumers, NEW y \in Threads,
                      (/\ Awaits(w) /\ Holds(y) /\ work[y].run = work[w].run
                       /\ "retrieve" \in work[y].done \ saved[work[w].run].nodes)'
               PROVE  work'[y].basis >= work'[w].since
    BY DEF HoldersNotice
  <2>1. /\ w \in Threads /\ Awaits(w) /\ Holds(y) /\ work[y].run = work[w].run
        /\ work[w].run \in Runs
        /\ "retrieve" \in work[y].done /\ "retrieve" \notin saved'[work[w].run].nodes
        /\ work'[y].basis = work[y].basis /\ work'[w].since = work[w].since
    BY <1>2, <1>4 DEF Threads
  <2>2. "retrieve" \notin saved[work[w].run].nodes
    BY <1>1, <2>1 DEF r
  <2> QED
    BY <2>1, <2>2 DEF Noticed, HoldersNotice
<1>6. ClaimNotices'
  <2> SUFFICES ASSUME NEW w \in Resumers,
                      (work[w].phase = "claim" /\ "retrieve" \in saved[work[w].run].nodes)'
               PROVE  saved'[work'[w].run].basis >= work'[w].since
    BY DEF ClaimNotices
  <2>1. /\ w \in Threads /\ work[w].phase = "claim" /\ Awaits(w) /\ work[w].run \in Runs
        /\ work'[w].run = work[w].run /\ work'[w].since = work[w].since
        /\ "retrieve" \in saved'[work[w].run].nodes
    BY <1>2, <1>4 DEF Threads, Awaits
  <2>2. CASE work[w].run # r
    BY <1>1, <2>1, <2>2 DEF Noticed, ClaimNotices
  <2>3. CASE work[w].run = r
    <3>1. saved'[r].basis = work[x].basis /\ "retrieve" \in work[x].done
      BY <1>1, <2>1, <2>3
    <3>2. CASE "retrieve" \in saved[r].nodes
      BY <1>0, <2>1, <2>3, <3>1, <3>2 DEF HolderRow, Noticed, ClaimNotices, r
    <3>3. CASE "retrieve" \notin saved[r].nodes
      BY <2>1, <2>3, <3>1, <3>3 DEF Noticed, HoldersNotice, r
    <3> QED
      BY <3>2, <3>3
  <2> QED
    BY <2>2, <2>3
<1>7. EarlierEditIsNoticed'
  BY <1>2 DEF Noticed, EarlierEditIsNoticed, Threads
<1> QED
  BY <1>3, <1>5, <1>6, <1>7 DEF Noticed

\* A run that a request can read is held by nobody.
LEMMA ReadNoticed ==
  ASSUME TypeOK, Inv, Noticed, NEW x \in Resumers, NEW r \in Runs, ResumeRead(x, r)
  PROVE  Noticed'
<1>0. x \in Threads /\ r \in Threads /\ run[r].status = "failed" /\ UNCHANGED <<saved, page>>
  BY DEF Threads, ResumeRead, rows
<1>1. Began(x, "validate", r, NoCheckpoint, page)
  BY <1>0, BusyBegins, NoCheckpointType DEF ResumeRead, Phases, TypeOK
<1>2. \A y \in Threads \ {x} : work'[y] = work[y]
  BY <1>1 DEF Began
<1>3. ~Holds(x)' /\ work'[x].phase = "validate" /\ work'[x].run = r /\ work'[x].since = page
  BY <1>1 DEF Began, Holds
<1>4. \A y \in Threads : Holds(y) => work[y].run # r
  BY <1>0 DEF Inv, HoldersRun, HolderRow
<1>5. SincePast'
  BY <1>0, <1>2, <1>3, PageType DEF Noticed, SincePast
<1>6. HoldersNotice'
  <2>1. \A y \in Threads : Holds(y)' => y # x /\ Holds(y) /\ work'[y] = work[y]
    BY <1>2, <1>3 DEF Holds
  <2> QED
    BY <1>0, <1>2, <1>3, <1>4, <2>1 DEF Noticed, HoldersNotice, Awaits, Threads
<1>7. ClaimNotices' /\ EarlierEditIsNoticed'
  BY <1>0, <1>2, <1>3 DEF Noticed, ClaimNotices, EarlierEditIsNoticed, Threads
<1> QED
  BY <1>5, <1>6, <1>7 DEF Noticed

\* A request that validated its checkpoint has noticed the edits before it.
LEMMA ValidateNoticed ==
  ASSUME TypeOK, Inv, Noticed, NEW x \in Resumers, ResumeValidate(x)
  PROVE  Noticed'
<1>0. x \in Threads /\ work[x].phase = "validate" /\ UNCHANGED <<saved, page>>
  BY DEF Threads, ResumeValidate, rows
<1>1. CASE ~PagesUnchanged(x)
  <2>1. Moved(x, "stopped")
    BY <1>0, <1>1, GotoMoves DEF ResumeValidate, Phases
  <2> QED
    BY <1>0, <2>1, MoveNoticed DEF Phases
<1>2. CASE PagesUnchanged(x)
  <2>1. Moved(x, "claim")
    BY <1>0, <1>2, GotoMoves DEF ResumeValidate, Phases
  <2>2. \A y \in Threads :
          /\ Holds(y)' => Holds(y)
          /\ Awaits(y)' => Awaits(y)
          /\ work'[y].phase = "claim" /\ y # x => work[y].phase = "claim"
          /\ work'[y].phase = "graph" => work[y].phase = "graph"
          /\ work'[y].run = work[y].run /\ work'[y].done = work[y].done
          /\ work'[y].basis = work[y].basis /\ work'[y].since = work[y].since
    BY <1>0, <2>1 DEF Moved, Holds, Awaits
  <2>3. SincePast'
    BY <1>0, <2>2 DEF Noticed, SincePast
  <2>4. HoldersNotice'
    BY <1>0, <2>2 DEF Noticed, HoldersNotice, Threads
  <2>5. "retrieve" \in saved[work[x].run].nodes => saved[work[x].run].basis >= work[x].since
    BY <1>0, <1>2, PageType DEF PagesUnchanged, Noticed, SincePast
  <2>6. ClaimNotices' /\ EarlierEditIsNoticed'
    BY <1>0, <2>2, <2>5 DEF Noticed, ClaimNotices, EarlierEditIsNoticed, Threads
  <2> QED
    BY <2>3, <2>4, <2>6 DEF Noticed
<1> QED
  BY <1>1, <1>2

LEMMA ClaimNoticed ==
  ASSUME TypeOK, Inv, Noticed, NEW x \in Resumers, ResumeClaim(x)
  PROVE  Noticed'
<1> DEFINE r == work[x].run
<1>0. /\ x \in Threads /\ r \in Runs /\ r \in Threads /\ work[x].phase = "claim"
      /\ UNCHANGED <<saved, page>>
  BY BusyThread DEF Threads, ResumeClaim, Inv
<1>1. CASE ~ClaimsRun(r)
  <2>1. Moved(x, "stopped")
    BY <1>0, <1>1, GotoMoves DEF ResumeClaim, Phases
  <2> QED
    BY <1>0, <2>1, MoveNoticed DEF Phases
<1>2. CASE ClaimsRun(r)
  <2>0. work[x].since \in 0 .. MaxEdits /\ saved[r] \in CheckpointType
    BY <1>0 DEF TypeOK, WorkType
  <2>1. Began(x, "graph", r, saved[r], work[x].since)
    BY <1>0, <1>2, <2>0, BusyBegins DEF ResumeClaim, Phases
  <2> HIDE DEF r
  <2>2. /\ \A y \in Threads \ {x} : work'[y] = work[y]
        /\ work'[x].phase = "graph" /\ work'[x].run = r /\ work'[x].done = saved[r].nodes
        /\ work'[x].basis = saved[r].basis /\ work'[x].since = work[x].since
    BY <2>1 DEF Began
  <2>3. SincePast'
    BY <1>0, <2>2 DEF Noticed, SincePast
  <2>4. HoldersNotice'
    <3>1. \A y \in Threads : Awaits(y)' => y # x /\ Awaits(y) /\ work'[y] = work[y]
      BY <2>2 DEF Awaits
    <3>2. \A y \in Threads : y # x /\ Holds(y)' => Holds(y) /\ work'[y] = work[y]
      BY <2>2 DEF Holds
    <3> QED
      BY <1>0, <2>2, <3>1, <3>2 DEF Noticed, HoldersNotice, Threads
  <2>5. ClaimNotices'
    BY <1>0, <2>2 DEF Noticed, ClaimNotices, Threads
  <2>6. "retrieve" \in saved[r].nodes => saved[r].basis >= work[x].since
    BY <1>0 DEF Noticed, ClaimNotices, r
  <2>7. EarlierEditIsNoticed'
    BY <1>0, <2>2, <2>6 DEF Noticed, EarlierEditIsNoticed, Threads
  <2> QED
    BY <2>3, <2>4, <2>5, <2>7 DEF Noticed
<1> QED
  BY <1>1, <1>2

LEMMA StartNoticed ==
  ASSUME TypeOK, Inv, Noticed, NEW r \in Runs, StartRun(r)
  PROVE  Noticed'
<1>0. r \in Threads /\ r \notin Resumers /\ UNCHANGED <<saved, page>>
  BY ResumersAssumption DEF Threads, StartRun
<1>1. Began(r, "graph", r, NoCheckpoint, page)
  BY <1>0, BusyBegins, NoCheckpointType DEF StartRun, Phases, TypeOK
<1>2. /\ \A y \in Threads \ {r} : work'[y] = work[y]
      /\ work'[r].phase = "graph" /\ work'[r].since = page /\ work'[r].done = {}
  BY <1>1 DEF Began, NoCheckpoint
<1>3. SincePast'
  BY <1>0, <1>2, PageType DEF Noticed, SincePast
<1>4. HoldersNotice'
  <2>1. \A w \in Resumers : w \in Threads /\ work'[w] = work[w]
    BY <1>0, <1>2 DEF Threads
  <2>2. \A y \in Threads : y # r /\ Holds(y)' => Holds(y) /\ work'[y] = work[y]
    BY <1>2 DEF Holds
  <2> QED
    BY <1>0, <1>2, <2>1, <2>2 DEF Noticed, HoldersNotice, Awaits
<1>5. ClaimNotices' /\ EarlierEditIsNoticed'
  BY <1>0, <1>2 DEF Noticed, ClaimNotices, EarlierEditIsNoticed, Threads
<1> QED
  BY <1>3, <1>4, <1>5 DEF Noticed

LEMMA GraphNoticed ==
  ASSUME TypeOK, Inv, Noticed, NEW x \in Threads, GraphStep(x)
  PROVE  Noticed'
<1>0. work[x] \in WorkType
  BY DEF TypeOK
<1>1. ASSUME NEW n \in Nodes, SaveNode(x, n) PROVE Noticed'
  <2>1. Holds(x) /\ UNCHANGED <<work, page>> /\ n \in work[x].done
    BY <1>1 DEF SaveNode, Holds
  <2>2. saved[work[x].run].nodes \cup {n} \in SUBSET work[x].done
    BY <2>1 DEF Inv, HoldersRun, HolderRow
  <2>3. saved' = [saved EXCEPT ![work[x].run] = Checkpoint(x, saved[work[x].run].nodes \cup {n})]
    BY <1>1 DEF SaveNode
  <2>4. \A y \in Threads : Holds(y)' <=> Holds(y)
    BY <2>1 DEF Holds
  <2> QED
    BY <2>1, <2>2, <2>3, <2>4, SavedNoticed
<1>2. CASE (\E n \in Nodes : RunNode(x, n)) \/ Retrieve(x) \/ Critic(x)
           \/ (Memorize(x) /\ ~Goto(x, "failing"))
  BY <1>2, NodeNoticed
<1>3. CASE (Memorize(x) /\ Goto(x, "failing")) \/ NodeRaises(x) \/ ReturnResult(x)
  <2>1. (Moved(x, "failing") \/ Moved(x, "record")) /\ Holds(x) /\ UNCHANGED <<saved, page>>
    BY <1>3, GotoMoves DEF Memorize, Ready, NodeRaises, ReturnResult, Phases, Holds, rows
  <2> QED
    BY <2>1, MoveNoticed DEF Phases
<1>4. CASE RecordRaises(x) \/ RecordTurn(x)
  <2>1. /\ Moved(x, "raised") \/ Moved(x, "stopped") \/ Moved(x, "finish")
        /\ UNCHANGED <<saved, page>>
    BY <1>4, RaisedPhase, GotoMoves DEF RecordRaises, RecordTurn, Phases, rows
  <2> QED
    BY <2>1, MoveNoticed DEF Phases
<1>5. CASE Answer(x)
  <2>1. Idle(x).phase = "idle" /\ Idle(x).since = 0
    BY DEF Idle, Busy
  <2> QED
    BY <1>5, <2>1, IdleNoticed DEF Answer, rows, TypeOK
<1>6. CASE FailRun(x)
  <2>1. Holds(x) /\ UNCHANGED page /\ (Moved(x, "raised") \/ Moved(x, "stopped"))
        /\ saved' = [saved EXCEPT ![work[x].run] = Checkpoint(x, work[x].done)]
    BY <1>6, RaisedPhase, GotoMoves DEF FailRun, Holds, Phases
  <2>2. saved[work[x].run].nodes \subseteq work[x].done
    BY <2>1 DEF Inv, HoldersRun, HolderRow
  <2> QED
    BY <2>1, <2>2, SavedNoticed
<1>7. CASE CompleteRun(x)
  <2>1. Holds(x) /\ UNCHANGED page /\ Moved(x, "closing") /\ work[x].done = Nodes
        /\ saved' = [saved EXCEPT ![work[x].run] = Checkpoint(x, Nodes)]
    BY <1>7, GotoMoves DEF CompleteRun, Holds, Phases
  <2>2. saved[work[x].run].nodes \subseteq work[x].done
    BY <2>1 DEF Inv, HoldersRun, HolderRow
  <2> QED
    BY <2>1, <2>2, SavedNoticed
<1> QED
  BY <1>1, <1>2, <1>3, <1>4, <1>5, <1>6, <1>7 DEF GraphStep

LEMMA NextNoticed == TypeOK /\ Inv /\ Noticed /\ [Next]_vars => Noticed'
<1> SUFFICES ASSUME TypeOK, Inv, Noticed, [Next]_vars PROVE Noticed'
  OBVIOUS
<1>0. Runs \subseteq Threads /\ Resumers \subseteq Threads /\ Background \subseteq Threads
  BY BackgroundAssumption DEF Threads
<1>1. ASSUME UNCHANGED <<work, saved, page>> PROVE Noticed'
  BY <1>1, IdleNoticed
<1>2. ASSUME NEW r \in Background, Admit(r) \/ SubmitStep(r) PROVE Noticed'
  BY <1>1, <1>2 DEF Admit, SubmitStep, InsertJob, SubmitJob, SubmitRaises, AttachCallback, rows
<1>3. ASSUME NEW r \in Background, JobStep(r) PROVE Noticed'
  <2>1. CASE FinishJob(r) \/ FailJob(r)
    <3>1. /\ Moved(r, "raised") \/ Moved(r, "returned")
          /\ UNCHANGED <<saved, page>>
      BY <2>1, <1>0, GotoMoves DEF FinishJob, FailJob, Phases
    <3> QED
      BY <3>1, <1>0, MoveNoticed DEF Phases
  <2>2. CASE Return(r)
    <3>1. Idle(r).phase = "idle" /\ Idle(r).since = 0
      BY DEF Idle, Busy
    <3> QED
      BY <2>2, <3>1, <1>0, IdleNoticed DEF Return, TypeOK
  <2> QED
    BY <1>3, <2>1, <2>2 DEF JobStep
<1>4. ASSUME NEW r \in Runs, AskAgent(r) \/ RunStep(r) PROVE Noticed'
  <2>1. CASE AskAgent(r)
    <3>1. Moved(r, "prepare") /\ UNCHANGED <<saved, page>>
      BY <2>1, <1>0, GotoMoves DEF AskAgent, Phases, rows
    <3> QED
      BY <3>1, <1>0, MoveNoticed DEF Phases
  <2>2. CASE TrackRaises(r) \/ PrepareRaises(r) \/ Clarify(r)
    <3>1. /\ Moved(r, "raised") \/ Moved(r, "stopped") \/ Moved(r, "finish")
          /\ UNCHANGED <<saved, page>>
      BY <2>2, <1>0, RaisedPhase, GotoMoves DEF TrackRaises, PrepareRaises, Clarify, Phases, rows
    <3> QED
      BY <3>1, <1>0, MoveNoticed DEF Phases
  <2> QED
    BY <1>0, <1>4, <2>1, <2>2, StartNoticed, GraphNoticed DEF RunStep
<1>5. ASSUME NEW x \in Resumers, ResumeStep(x) PROVE Noticed'
  <2>1. CASE ResumeRaises(x)
    <3>1. Moved(x, "stopped") /\ UNCHANGED <<saved, page>>
      BY <2>1, <1>0, GotoMoves DEF ResumeRaises, Phases, rows
    <3> QED
      BY <3>1, <1>0, MoveNoticed DEF Phases
  <2> QED
    BY <1>0, <1>5, <2>1, ValidateNoticed, ClaimNoticed, GraphNoticed DEF ResumeStep
<1>6. ASSUME NEW x \in Resumers, NEW r \in Runs, ResumeRead(x, r) PROVE Noticed'
  BY <1>6, ReadNoticed
<1>7. CASE TakeJob
  <2>1. Head(queue) \in Threads
    BY <1>0, <1>7 DEF TakeJob, TypeOK
  <2>2. \E p \in {"prepare", "returned", "raised"} : Goto(Head(queue), p)
    BY <1>7 DEF TakeJob
  <2>3. \E p \in {"prepare", "returned", "raised"} : Moved(Head(queue), p)
    BY <2>1, <2>2, GotoMoves DEF Phases
  <2> QED
    BY <1>7, <2>1, <2>3, MoveNoticed DEF TakeJob, Phases
<1>8. CASE EditPage
  <2>1. UNCHANGED <<work, saved>> /\ page' = page + 1
    BY <1>8 DEF EditPage
  <2>2. SincePast'
    BY <2>1, PageType DEF Noticed, SincePast
  <2> QED
    BY <2>1, <2>2 DEF Noticed, HoldersNotice, ClaimNotices, EarlierEditIsNoticed, Awaits, Holds
<1>9. CASE CancelQueued \/ Shutdown \/ Restart \/ UNCHANGED vars
  BY <1>1, <1>9 DEF CancelQueued, Shutdown, Restart, vars, rows
<1>10. CASE Exit \/ Crash
  <2>1. UNCHANGED <<saved, page>> /\ work' = [x \in Threads |-> Idle(x)]
    BY <1>10 DEF Exit, Crash, Stop, rows
  <2>2. \A x : Idle(x).phase = "idle" /\ Idle(x).since = 0
    BY DEF Idle, Busy
  <2> QED
    BY <2>1, <2>2, IdleNoticed
<1> QED
  BY <1>2, <1>3, <1>4, <1>5, <1>6, <1>7, <1>8, <1>9, <1>10 DEF Next

\* A page that was edited before a resume request came is noticed by it: the
\* hashes are compared before the claim, and a rival's later checkpoint is newer.
THEOREM EarlierEditIsNoticedAlways == Spec => []EarlierEditIsNoticed
<1>1. Init => Noticed
  BY InitNoticed
<1>2. TypeOK /\ Inv /\ Noticed /\ [Next]_vars => Noticed'
  BY NextNoticed
<1>3. Noticed => EarlierEditIsNoticed
  BY DEF Noticed
<1> QED
  BY Inductive, <1>1, <1>2, <1>3, PTL DEF Spec

-----------------------------------------------------------------------------
(* The admissions.  A job holds one from submit_review until the done       *)
(* callback, whichever of the thread, the request and the shutdown is last; *)
(* its future says how far it is, and a thread of the executor runs only    *)
(* while the future does.                                                   *)

Admissions ==
    /\ \A r \in Background :
          /\ request[r] \in {"none", "admitted", "inserted"} => future[r] = "none"
          /\ request[r] = "submitted" => future[r] # "none"
          /\ work[r].phase # "idle" => future[r] = "running"
    /\ \A i \in 1 .. Len(queue) : future[queue[i]] = "pending"
    /\ \A i, j \in 1 .. Len(queue) : queue[i] = queue[j] => i = j
    /\ server = "down" => queue = <<>> /\ \A r \in Background : request[r] = "none"

Balanced ==
    /\ Admissions
    /\ IsFiniteSet(Holding)
    /\ AdmissionsBalance

\* What a step may do to the count: leave it, take one permit, give one back.
LEMMA Kept ==
  ASSUME Balanced, Holding' = Holding, permits' = permits, server' # "down" => server # "down"
  PROVE  IsFiniteSet(Holding)' /\ AdmissionsBalance'
  BY DEF Balanced, AdmissionsBalance

LEMMA Taken ==
  ASSUME TypeOK, Balanced, server # "down", NEW r \in Background, r \notin Holding,
         Holding' = Holding \cup {r}, permits > 0, permits' = permits - 1
  PROVE  IsFiniteSet(Holding)' /\ AdmissionsBalance'
<1>1. IsFiniteSet(Holding) /\ permits + Cardinality(Holding) = Limit
  BY DEF Balanced, AdmissionsBalance
<1> DEFINE H == Holding
<1>2. IsFiniteSet(H \cup {r}) /\ Cardinality(H \cup {r}) = Cardinality(H) + 1
  BY <1>1, FS_AddElement
<1>3. Cardinality(H) \in Nat /\ permits \in Nat
  BY <1>1, FS_CardinalityType DEF TypeOK
<1> HIDE DEF H
<1>4. permits + Cardinality(H) = Limit /\ Holding' = H \cup {r}
  BY <1>1 DEF H
<1>5. IsFiniteSet(Holding') /\ Cardinality(Holding') = Cardinality(H) + 1
  BY <1>2, <1>4
<1>6. permits' + Cardinality(Holding') = Limit
  BY <1>3, <1>4, <1>5
<1> QED
  BY <1>5, <1>6 DEF AdmissionsBalance

LEMMA GivenBack ==
  ASSUME TypeOK, Balanced, server # "down", NEW r \in Background, r \in Holding,
         Holding' = Holding \ {r}, permits' = permits + 1
  PROVE  IsFiniteSet(Holding)' /\ AdmissionsBalance'
<1>1. IsFiniteSet(Holding) /\ permits + Cardinality(Holding) = Limit
  BY DEF Balanced, AdmissionsBalance
<1> DEFINE H == Holding
<1>2. IsFiniteSet(H \ {r}) /\ Cardinality(H \ {r}) = Cardinality(H) - 1
  BY <1>1, FS_RemoveElement
<1>3. Cardinality(H) \in Nat /\ permits \in Nat
  BY <1>1, FS_CardinalityType DEF TypeOK
<1> HIDE DEF H
<1>4. permits + Cardinality(H) = Limit /\ Holding' = H \ {r}
  BY <1>1 DEF H
<1>5. IsFiniteSet(Holding') /\ Cardinality(Holding') = Cardinality(H) - 1
  BY <1>2, <1>4
<1>6. permits' + Cardinality(Holding') = Limit
  BY <1>3, <1>4, <1>5
<1> QED
  BY <1>5, <1>6 DEF AdmissionsBalance

LEMMA InitBalanced == Init => Balanced
<1> SUFFICES ASSUME Init PROVE Balanced
  OBVIOUS
<1>1. Admissions
  <2>1. \A r \in Background : request[r] = "none" /\ future[r] = "none" /\ work[r].phase = "idle"
    BY BackgroundAssumption DEF Init, Idle, Busy, Threads
  <2>2. Len(queue) = 0
    BY DEF Init
  <2>3. server # "down"
    BY DEF Init
  <2> QED
    BY <2>1, <2>2, <2>3 DEF Admissions
<1>2. Holding = {}
  BY DEF Init, Holding
<1>3. permits = Limit /\ Limit \in Nat
  BY BoundsAssumption DEF Init
<1> QED
  BY <1>1, <1>2, <1>3, FS_EmptySet DEF Balanced, AdmissionsBalance

\* A thread that does not come from the pool's queue, or that goes on in it.
LEMMA ThreadBalanced ==
  ASSUME TypeOK, Balanced, UNCHANGED pool,
         \A r \in Background : work'[r].phase # "idle" => work[r].phase # "idle"
  PROVE  Balanced'
<1>1. UNCHANGED <<server, permits, queue, request, future>>
  BY DEF pool
<1>2. Admissions'
  BY <1>1 DEF Balanced, Admissions
<1>3. Holding' = Holding
  BY <1>1 DEF Holding
<1> QED
  BY <1>1, <1>2, <1>3, Kept DEF Balanced

LEMMA MoveBalanced ==
  ASSUME TypeOK, Balanced, UNCHANGED pool, NEW x \in Threads, work[x].phase # "idle",
         \A y \in Threads \ {x} : work'[y] = work[y]
  PROVE  Balanced'
  BY ThreadBalanced, BackgroundAssumption DEF Threads

LEMMA GraphBalanced ==
  ASSUME TypeOK, Balanced, NEW x \in Threads, GraphStep(x)
  PROVE  Balanced'
<1>1. UNCHANGED pool
  BY DEF GraphStep, RunNode, SaveNode, Retrieve, Critic, Memorize, NodeRaises, FailRun,
     CompleteRun, ReturnResult, RecordTurn, RecordRaises, Answer
<1>2. work[x].phase # "idle"
  BY DEF GraphStep, RunNode, SaveNode, Retrieve, Critic, Memorize, NodeRaises, FailRun,
     CompleteRun, ReturnResult, RecordTurn, RecordRaises, Answer, Ready, MayRecord
<1>3. work \in [Threads -> WorkType]
  BY DEF TypeOK
<1>4. \A y \in Threads \ {x} : work'[y] = work[y]
  <2>1. work' = work \/ (\E f : work' = [work EXCEPT ![x] = f])
    BY DEF GraphStep, RunNode, SaveNode, Retrieve, Critic, Memorize, NodeRaises, FailRun,
       CompleteRun, ReturnResult, RecordTurn, RecordRaises, Answer, Goto
  <2> QED
    BY <2>1, <1>3
<1> QED
  BY <1>1, <1>2, <1>4, MoveBalanced

LEMMA SubmitBalanced ==
  ASSUME TypeOK, Inv, Balanced, NEW r \in Background, Admit(r) \/ SubmitStep(r)
  PROVE  Balanced'
<1>0. /\ request \in [Background -> {"none", "admitted", "inserted", "submitted", "ended"}]
      /\ future \in [Background -> {"none", "pending", "running", "done", "cancelled"}]
      /\ queue \in Seq(Background) /\ permits \in Nat
  BY DEF TypeOK
<1>1. CASE Admit(r)
  <2>1. UNCHANGED <<server, queue, future, work>> /\ server # "down"
    BY <1>1 DEF Admit
  <2>2. /\ request[r] = "none" /\ request'[r] = "admitted"
        /\ \A q \in Background \ {r} : request'[q] = request[q]
    BY <1>0, <1>1 DEF Admit
  <2>3. Admissions'
    BY <2>1, <2>2 DEF Balanced, Admissions
  <2>4. r \notin Holding /\ Holding' = Holding \cup {r}
    BY <2>1, <2>2 DEF Holding
  <2> QED
    BY <1>1, <2>1, <2>3, <2>4, Taken DEF Balanced, Admit
<1>2. CASE InsertJob(r)
  <2>1. UNCHANGED <<server, queue, future, work, permits>>
    BY <1>2 DEF InsertJob
  <2>2. /\ request[r] = "admitted" /\ request'[r] = "inserted"
        /\ \A q \in Background \ {r} : request'[q] = request[q]
    BY <1>0, <1>2 DEF InsertJob
  <2>3. Admissions'
    BY <2>1, <2>2 DEF Balanced, Admissions
  <2>4. Holding' = Holding
    BY <2>1, <2>2 DEF Holding
  <2> QED
    BY <2>1, <2>3, <2>4, Kept DEF Balanced
<1>3. CASE SubmitJob(r)
  <2>1. UNCHANGED <<server, work, permits>> /\ server = "up" /\ queue' = Append(queue, r)
    BY <1>3 DEF SubmitJob
  <2>2. /\ request[r] = "inserted" /\ request'[r] = "submitted" /\ future'[r] = "pending"
        /\ \A q \in Background \ {r} : request'[q] = request[q] /\ future'[q] = future[q]
    BY <1>0, <1>3 DEF SubmitJob
  <2>3. /\ Len(queue') = Len(queue) + 1 /\ Len(queue) \in Nat
        /\ queue'[Len(queue) + 1] = r
        /\ \A i \in 1 .. Len(queue) : queue'[i] = queue[i] /\ queue[i] \in Background
    BY <1>0, <2>1
  <2>4. \A i \in 1 .. Len(queue) : queue[i] # r
    BY <2>2 DEF Balanced, Admissions
  <2>5. \A q \in Background :
          /\ request'[q] \in {"none", "admitted", "inserted"} => future'[q] = "none"
          /\ request'[q] = "submitted" => future'[q] # "none"
          /\ work'[q].phase # "idle" => future'[q] = "running"
    BY <2>1, <2>2 DEF Balanced, Admissions
  <2>6. \A i \in 1 .. Len(queue') : future'[queue'[i]] = "pending"
    BY <2>2, <2>3, <2>4 DEF Balanced, Admissions
  <2>7. \A i, j \in 1 .. Len(queue') : queue'[i] = queue'[j] => i = j
    BY <2>3, <2>4 DEF Balanced, Admissions
  <2>8. Admissions'
    BY <2>1, <2>5, <2>6, <2>7 DEF Admissions
  <2>9. Holding' = Holding
    BY <2>2 DEF Holding
  <2> QED
    BY <2>1, <2>8, <2>9, Kept DEF Balanced
<1>4. CASE SubmitRaises(r)
  <2>1. UNCHANGED <<server, queue, future, work>> /\ permits' = permits + 1
    BY <1>4 DEF SubmitRaises
  <2>2. /\ request[r] \in {"admitted", "inserted"} /\ request'[r] = "ended"
        /\ \A q \in Background \ {r} : request'[q] = request[q]
    BY <1>0, <1>4 DEF SubmitRaises
  <2>3. server # "down"
    BY <2>2 DEF Balanced, Admissions
  <2>4. future[r] = "none"
    BY <2>2 DEF Balanced, Admissions
  <2>5. Admissions'
    BY <2>1, <2>2, <2>3 DEF Balanced, Admissions
  <2>6. r \in Holding /\ Holding' = Holding \ {r}
    BY <2>1, <2>2, <2>4 DEF Holding
  <2> QED
    BY <2>1, <2>3, <2>5, <2>6, GivenBack DEF Balanced
<1>5. CASE AttachCallback(r)
  <2>1. UNCHANGED <<server, queue, future, work>>
    BY <1>5 DEF AttachCallback
  <2>2. /\ request[r] = "submitted" /\ request'[r] = "ended"
        /\ \A q \in Background \ {r} : request'[q] = request[q]
    BY <1>0, <1>5 DEF AttachCallback
  <2>3. server # "down" /\ future[r] # "none"
    BY <2>2 DEF Balanced, Admissions
  <2>4. Admissions'
    BY <2>1, <2>2, <2>3 DEF Balanced, Admissions
  <2>5. CASE future[r] \in {"done", "cancelled"}
    <3>1. permits' = permits + 1
      BY <1>5, <2>5 DEF AttachCallback, Finished, Released
    <3>2. r \in Holding /\ Holding' = Holding \ {r}
      BY <2>1, <2>2, <2>5 DEF Holding
    <3> QED
      BY <2>3, <2>4, <3>1, <3>2, GivenBack DEF Balanced
  <2>6. CASE future[r] \in {"pending", "running"}
    <3>1. permits' = permits
      BY <1>5, <2>6 DEF AttachCallback
    <3>2. Holding' = Holding
      BY <2>1, <2>2, <2>6 DEF Holding
    <3> QED
      BY <2>1, <2>4, <3>1, <3>2, Kept DEF Balanced
  <2> QED
    BY <1>0, <2>3, <2>5, <2>6
<1> QED
  BY <1>1, <1>2, <1>3, <1>4, <1>5 DEF SubmitStep

\* The callback of a future that ends gives the permit back if the request has
\* attached it, and leaves it to the request otherwise.
LEMMA FutureBalanced ==
  ASSUME TypeOK, Balanced, NEW r \in Background, NEW how \in {"done", "cancelled"},
         FutureEnds(r, how), future[r] \in {"pending", "running"},
         UNCHANGED <<server, request>>
  PROVE  /\ IsFiniteSet(Holding)' /\ AdmissionsBalance'
         /\ future'[r] = how /\ request[r] \in {"submitted", "ended"} /\ server # "down"
         /\ \A q \in Background \ {r} : future'[q] = future[q]
<1>1. /\ request \in [Background -> {"none", "admitted", "inserted", "submitted", "ended"}]
      /\ future \in [Background -> {"none", "pending", "running", "done", "cancelled"}]
  BY DEF TypeOK
<1>2. future'[r] = how /\ \A q \in Background \ {r} : future'[q] = future[q]
  BY <1>1 DEF FutureEnds
<1>3. request[r] \in {"submitted", "ended"}
  BY <1>1 DEF Balanced, Admissions
<1>4. server # "down"
  BY <1>3 DEF Balanced, Admissions
<1>5. CASE request[r] = "ended"
  <2>1. permits' = permits + 1
    BY <1>5 DEF FutureEnds, Finished, Released
  <2>2. r \in Holding /\ Holding' = Holding \ {r}
    BY <1>2, <1>5 DEF Holding
  <2> QED
    BY <1>2, <1>3, <1>4, <2>1, <2>2, GivenBack
<1>6. CASE request[r] = "submitted"
  <2>1. permits' = permits
    BY <1>6 DEF FutureEnds
  <2>2. Holding' = Holding
    BY <1>2, <1>6 DEF Holding
  <2> QED
    BY <1>2, <1>3, <1>4, <2>1, <2>2, Kept
<1> QED
  BY <1>3, <1>5, <1>6

LEMMA ReturnBalanced ==
  ASSUME TypeOK, Balanced, NEW r \in Background, Return(r)
  PROVE  Balanced'
<1>0. r \in Threads /\ work \in [Threads -> WorkType] /\ queue \in Seq(Background)
  BY BackgroundAssumption DEF TypeOK, Threads
<1>1. future[r] = "running"
  BY DEF Return, Balanced, Admissions
<1>2. UNCHANGED <<server, queue, request>> /\ FutureEnds(r, "done")
  BY DEF Return
<1>3. work'[r].phase = "idle" /\ \A y \in Threads \ {r} : work'[y] = work[y]
  BY <1>0 DEF Return, Idle, Busy
<1>4. /\ IsFiniteSet(Holding)' /\ AdmissionsBalance'
      /\ future'[r] = "done" /\ request[r] \in {"submitted", "ended"} /\ server # "down"
      /\ \A q \in Background \ {r} : future'[q] = future[q]
  BY <1>1, <1>2, FutureBalanced
<1>5. \A i \in 1 .. Len(queue) : queue[i] \in Background \ {r}
  BY <1>0, <1>1 DEF Balanced, Admissions
<1>6. Admissions'
  BY <1>2, <1>3, <1>4, <1>5, BackgroundAssumption DEF Balanced, Admissions, Threads
<1> QED
  BY <1>4, <1>6 DEF Balanced

LEMMA CancelBalanced ==
  ASSUME TypeOK, Balanced, CancelQueued
  PROVE  Balanced'
<1> DEFINE r == Head(queue)
<1>0. queue \in Seq(Background) /\ queue # <<>>
  BY DEF TypeOK, CancelQueued
<1>1. /\ r \in Background /\ r = queue[1] /\ Len(queue) \in Nat /\ 1 \in 1 .. Len(queue)
      /\ queue' = Tail(queue) /\ Len(queue') = Len(queue) - 1
      /\ \A i \in 1 .. Len(queue') : queue'[i] = queue[i + 1] /\ i + 1 \in 1 .. Len(queue)
  BY <1>0 DEF CancelQueued
<1>2. FutureEnds(r, "cancelled") /\ UNCHANGED <<server, request, work>> /\ server = "closing"
  BY DEF CancelQueued
<1> HIDE DEF r
<1>3. future[r] = "pending"
  BY <1>1 DEF Balanced, Admissions
<1>4. /\ IsFiniteSet(Holding)' /\ AdmissionsBalance'
      /\ future'[r] = "cancelled" /\ request[r] \in {"submitted", "ended"}
      /\ \A q \in Background \ {r} : future'[q] = future[q]
  BY <1>1, <1>2, <1>3, FutureBalanced
<1>5. \A i \in 1 .. Len(queue') : queue'[i] \in Background /\ queue'[i] # r
  <2> SUFFICES ASSUME NEW i \in 1 .. Len(queue') PROVE queue'[i] \in Background /\ queue'[i] # r
    OBVIOUS
  <2>1. queue'[i] = queue[i + 1] /\ i + 1 \in 1 .. Len(queue) /\ i + 1 # 1
    BY <1>1
  <2> QED
    BY <1>0, <1>1, <2>1 DEF Balanced, Admissions
<1>6. \A i \in 1 .. Len(queue') : future'[queue'[i]] = "pending"
  BY <1>1, <1>4, <1>5 DEF Balanced, Admissions
<1>7. \A i, j \in 1 .. Len(queue') : queue'[i] = queue'[j] => i = j
  <2> SUFFICES ASSUME NEW i \in 1 .. Len(queue'), NEW j \in 1 .. Len(queue'), queue'[i] = queue'[j]
               PROVE  i = j
    OBVIOUS
  <2>1. i + 1 = j + 1
    BY <1>1 DEF Balanced, Admissions
  <2> QED
    BY <1>1, <2>1
<1>8. Admissions'
  BY <1>2, <1>3, <1>4, <1>6, <1>7 DEF Balanced, Admissions
<1> QED
  BY <1>4, <1>8 DEF Balanced

LEMMA TakeBalanced ==
  ASSUME TypeOK, Balanced, TakeJob
  PROVE  Balanced'
<1> DEFINE r == Head(queue)
<1>0. /\ queue \in Seq(Background) /\ queue # <<>> /\ work \in [Threads -> WorkType]
      /\ future \in [Background -> {"none", "pending", "running", "done", "cancelled"}]
  BY DEF TypeOK, TakeJob
<1>1. /\ r \in Background /\ r = queue[1] /\ Len(queue) \in Nat /\ 1 \in 1 .. Len(queue)
      /\ queue' = Tail(queue) /\ Len(queue') = Len(queue) - 1
      /\ \A i \in 1 .. Len(queue') : queue'[i] = queue[i + 1] /\ i + 1 \in 1 .. Len(queue)
  BY <1>0 DEF TakeJob
<1>2. /\ UNCHANGED <<server, request, permits>>
      /\ future'[r] = "running" /\ \A q \in Background \ {r} : future'[q] = future[q]
  BY <1>0, <1>1 DEF TakeJob
<1>3. \A y \in Threads \ {r} : work'[y] = work[y]
  BY <1>0 DEF TakeJob, Goto
<1> HIDE DEF r
<1>4. future[r] = "pending" /\ server # "down"
  BY <1>0, <1>1 DEF Balanced, Admissions
<1>5. \A i \in 1 .. Len(queue') : queue'[i] \in Background /\ queue'[i] # r
  <2> SUFFICES ASSUME NEW i \in 1 .. Len(queue') PROVE queue'[i] \in Background /\ queue'[i] # r
    OBVIOUS
  <2>1. queue'[i] = queue[i + 1] /\ i + 1 \in 1 .. Len(queue) /\ i + 1 # 1
    BY <1>1
  <2> QED
    BY <1>0, <1>1, <2>1 DEF Balanced, Admissions
<1>6. \A i \in 1 .. Len(queue') : future'[queue'[i]] = "pending"
  BY <1>1, <1>2, <1>5 DEF Balanced, Admissions
<1>7. \A i, j \in 1 .. Len(queue') : queue'[i] = queue'[j] => i = j
  <2> SUFFICES ASSUME NEW i \in 1 .. Len(queue'), NEW j \in 1 .. Len(queue'), queue'[i] = queue'[j]
               PROVE  i = j
    OBVIOUS
  <2>1. i + 1 = j + 1
    BY <1>1 DEF Balanced, Admissions
  <2> QED
    BY <1>1, <2>1
<1>8. Admissions'
  BY <1>2, <1>3, <1>4, <1>6, <1>7, BackgroundAssumption DEF Balanced, Admissions, Threads
<1>9. Holding' = Holding
  BY <1>2, <1>4 DEF Holding
<1> QED
  BY <1>2, <1>8, <1>9, Kept DEF Balanced

LEMMA StopBalanced ==
  ASSUME TypeOK, Stop
  PROVE  Balanced'
<1>1. server' = "down" /\ queue' = <<>> /\ Len(queue') = 0
  BY DEF Stop
<1>2. \A r \in Background : request'[r] = "none" /\ future'[r] = "none" /\ work'[r].phase = "idle"
  BY BackgroundAssumption DEF Stop, Idle, Busy, Threads
<1>3. Holding' = {}
  BY <1>2 DEF Holding
<1> QED
  BY <1>1, <1>2, <1>3, FS_EmptySet DEF Balanced, Admissions, AdmissionsBalance

LEMMA RestartBalanced ==
  ASSUME TypeOK, Balanced, Restart
  PROVE  Balanced'
<1>1. /\ server = "down" /\ server' = "up" /\ permits' = Limit
      /\ UNCHANGED <<queue, request, future, work>>
  BY DEF Restart
<1>2. Admissions'
  BY <1>1 DEF Balanced, Admissions
<1>3. Holding' = {}
  BY <1>1 DEF Balanced, Admissions, Holding
<1>4. Limit \in Nat
  BY BoundsAssumption
<1> QED
  BY <1>1, <1>2, <1>3, <1>4, FS_EmptySet DEF Balanced, AdmissionsBalance

LEMMA NextBalanced == TypeOK /\ Inv /\ Balanced /\ [Next]_vars => Balanced'
<1> SUFFICES ASSUME TypeOK, Inv, Balanced, [Next]_vars PROVE Balanced'
  OBVIOUS
<1>0. Runs \subseteq Threads /\ Resumers \subseteq Threads /\ work \in [Threads -> WorkType]
  BY DEF Threads, TypeOK
<1>1. ASSUME NEW r \in Background, Admit(r) \/ SubmitStep(r) PROVE Balanced'
  BY <1>1, SubmitBalanced
<1>2. ASSUME NEW r \in Background, FinishJob(r) \/ FailJob(r) PROVE Balanced'
  BY <1>0, <1>2, BackgroundAssumption, MoveBalanced DEF FinishJob, FailJob, Goto
<1>3. ASSUME NEW r \in Runs, AskAgent(r) PROVE Balanced'
  <2>1. UNCHANGED pool /\ r \notin Background /\ \A y \in Threads \ {r} : work'[y] = work[y]
    BY <1>0, <1>3 DEF AskAgent, Goto
  <2> QED
    BY <1>0, <2>1, BackgroundAssumption, ThreadBalanced
<1>4. ASSUME NEW r \in Runs, RunStep(r) PROVE Balanced'
  <2>1. CASE GraphStep(r)
    BY <1>0, <2>1, GraphBalanced
  <2>2. CASE StartRun(r) \/ TrackRaises(r) \/ PrepareRaises(r) \/ Clarify(r)
    <3>1. UNCHANGED pool /\ work[r].phase # "idle" /\ \A y \in Threads \ {r} : work'[y] = work[y]
      BY <1>0, <2>2 DEF StartRun, TrackRaises, PrepareRaises, Clarify, Goto
    <3> QED
      BY <1>0, <3>1, MoveBalanced
  <2> QED
    BY <1>4, <2>1, <2>2 DEF RunStep
<1>5. ASSUME NEW x \in Resumers, ResumeStep(x) \/ (\E r \in Runs : ResumeRead(x, r)) PROVE Balanced'
  <2>1. CASE GraphStep(x)
    BY <1>0, <2>1, GraphBalanced
  <2>2. CASE ResumeValidate(x) \/ ResumeClaim(x) \/ ResumeRaises(x)
             \/ (\E r \in Runs : ResumeRead(x, r))
    <3>1. UNCHANGED pool /\ \A y \in Threads \ {x} : work'[y] = work[y]
      BY <1>0, <2>2 DEF ResumeValidate, ResumeClaim, ResumeRaises, ResumeRead, Goto
    <3>2. x \notin Background
      BY BackgroundAssumption, ResumersAssumption
    <3> QED
      BY <1>0, <3>1, <3>2, BackgroundAssumption, ThreadBalanced
  <2> QED
    BY <1>5, <2>1, <2>2 DEF ResumeStep
<1>6. CASE EditPage \/ UNCHANGED vars
  BY <1>6, ThreadBalanced DEF EditPage, vars
<1>7. CASE Shutdown
  <2>1. server # "down" /\ server' = "closing" /\ UNCHANGED <<permits, queue, request, future, work>>
    BY <1>7 DEF Shutdown
  <2>2. Admissions' /\ Holding' = Holding
    BY <2>1 DEF Balanced, Admissions, Holding
  <2> QED
    BY <2>1, <2>2, Kept DEF Balanced
<1>8. ASSUME NEW r \in Background, JobStep(r) PROVE Balanced'
  BY <1>2, <1>8, ReturnBalanced DEF JobStep
<1>9. CASE Exit \/ Crash
  BY <1>9, StopBalanced DEF Exit, Crash
<1> QED
  BY <1>1, <1>3, <1>4, <1>5, <1>6, <1>7, <1>8, <1>9, TakeBalanced, CancelBalanced,
     RestartBalanced DEF Next

\* submit_review and its done callback: no admission leaks and none is given
\* back twice, however the request, the thread and the shutdown interleave.
THEOREM AdmissionsBalanceAlways == Spec => []AdmissionsBalance
<1>1. Init => Balanced
  BY InitBalanced
<1>2. (TypeOK /\ Inv) /\ (TypeOK /\ Inv)' /\ Balanced /\ [Next]_vars => Balanced'
  BY NextBalanced
<1>3. Balanced => AdmissionsBalance
  BY DEF Balanced
<1> QED
  BY Inductive, <1>1, <1>2, <1>3, PTL DEF Spec

=============================================================================
