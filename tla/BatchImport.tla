----------------------------- MODULE BatchImport -----------------------------
(***************************************************************************)
(* One batch import: the request that registers it (app/routes/documents.py *)
(* batch_import_documents), the arq job that indexes its files and the      *)
(* reconciler that puts a lost job back into the queue (app/tasks.py), and  *)
(* the indexing of one file (services.index_upload).                        *)
(*                                                                          *)
(* SQLite keeps the batch, its manifest and the dispatch outbox; Redis      *)
(* keeps the job and may lose it at any time; the flock of the batch serves *)
(* whoever works on it, and the kernel releases it when its owner dies.     *)
(***************************************************************************)
EXTENDS Naturals, FiniteSets

CONSTANTS
    Files,         \* files of the batch
    Content,       \* the bytes of each file
    Workers,       \* arq worker processes
    Concurrency,   \* indexing_concurrency
    MaxFaults,     \* bound on crashes, losses of Redis, failed dispatches,
                   \* timeouts and jobs given up
    Reconciler, NoOne

ASSUME FilesAssumption == IsFiniteSet(Files) /\ Files # {}
ASSUME ContentAssumption == DOMAIN Content = Files
ASSUME ConcurrencyAssumption == Concurrency \in Nat \ {0}
ASSUME MaxFaultsAssumption == MaxFaults \in Nat
ASSUME OwnerAssumption == Reconciler \notin Workers /\ NoOne \notin Workers \cup {Reconciler}

VARIABLES
    batch,       \* status of the batch_imports row, "none" before it exists
    dispatch,    \* state of the batch_dispatch row
    file,        \* status of each batch_import_files row
    staged,      \* files present in the staging directory
    documents,   \* files whose import key has a documents row
    job,         \* the arq job in Redis
    lock,        \* owner of the flock
    request,     \* progress of the HTTP request
    reconciler,  \* progress of the reconciler on this batch
    worker,      \* progress of each worker process
    thread,      \* progress of each worker's coroutine for each file
    stray,       \* <<file, step>> of native threads whose coroutine is gone
    faults

vars == <<batch, dispatch, file, staged, documents, job, lock, request, reconciler,
          worker, thread, stray, faults>>

sqlite == <<batch, dispatch, file, documents>>
queue  == <<job, lock>>
procs  == <<request, reconciler, worker, thread, stray>>

-----------------------------------------------------------------------------
TERMINAL_BATCH_STATES == {"completed", "completed_with_errors", "failed"}

Unfinished == {"pending", "processing"}

Indexing == {"open", "writing", "indexed", "broken"}

Active(w)  == {f \in Files : thread[w][f] \in Indexing}
Waiting(w) == {f \in Files : thread[w][f] = "waiting"}

NoThreads == [f \in Files |-> "none"]

-----------------------------------------------------------------------------
(* Mistakes the code could contain; PROJECT.json pairs each with the        *)
(* definition it replaces and the property that must notice it.             *)

IgnoresLock(w)      == TRUE
ForgetsInterrupted  == {"pending"}
ReopensFinished     == FALSE
CountsOnlyFailures  == IF \E f \in Files : file[f] = "failed" THEN "completed_with_errors" ELSE "completed"
CleansInFinally     == {}

-----------------------------------------------------------------------------
Init ==
    /\ batch = "none" /\ dispatch = "none"
    /\ file = [f \in Files |-> "none"]
    /\ staged = {} /\ documents = {}
    /\ job = "absent" /\ lock = NoOne
    /\ request = "start" /\ reconciler = "idle"
    /\ worker = [w \in Workers |-> "idle"]
    /\ thread = [w \in Workers |-> NoThreads]
    /\ stray = {}
    /\ faults = 0

Fault == faults < MaxFaults /\ faults' = faults + 1

Request(phase)     == request' = phase /\ UNCHANGED <<reconciler, worker, thread, stray>>
Reconcile(phase)   == reconciler' = phase /\ UNCHANGED <<request, worker, thread, stray>>
Worker(w, phase)   == worker' = [worker EXCEPT ![w] = phase] /\ UNCHANGED <<request, reconciler>>
Thread(w, f, step) == thread' = [thread EXCEPT ![w][f] = step]
                      /\ UNCHANGED <<request, reconciler, worker, stray>>

-----------------------------------------------------------------------------
(* The request                                                              *)

RegisterBatch ==
    /\ request = "start"
    /\ batch' = "queued"
    /\ Request("staging")
    /\ UNCHANGED <<dispatch, file, staged, documents, queue, faults>>

StageFile(f) ==
    /\ request = "staging" /\ f \notin staged
    /\ staged' = staged \cup {f}
    /\ Request("staging")
    /\ UNCHANGED <<sqlite, queue, faults>>

\* The manifest and the outbox row commit together.
PersistManifest ==
    /\ request = "staging" /\ staged = Files
    /\ file' = [f \in Files |-> "pending"]
    /\ dispatch' = "pending"
    /\ Request("enqueueing")
    /\ UNCHANGED <<batch, staged, documents, queue, faults>>

\* arq ignores an id that is queued, running or has a result.
Enqueued == IF job = "absent" THEN "queued" ELSE job

\* Redis accepts the job; the answer may still be lost.
EnqueueJob ==
    /\ request = "enqueueing"
    /\ job' = Enqueued
    /\ Request("discharging") \/ Request("cleanup")
    /\ UNCHANGED <<sqlite, staged, lock, faults>>

MarkDischarged ==
    /\ request = "discharging"
    /\ dispatch' = "discharged"
    /\ Request("accepted")
    /\ UNCHANGED <<batch, file, documents, staged, queue, faults>>

\* A file is too large, the client is gone, Redis or SQLite fail.
RequestFails ==
    /\ request \in {"staging", "enqueueing", "discharging"}
    /\ Request("cleanup")
    /\ UNCHANGED <<sqlite, staged, queue, faults>>

\* The except branch reads the batch and the outbox row in autocommit ...
CleanupReadBatch ==
    /\ request = "cleanup"
    /\ Request(IF batch # "queued" THEN "accepted" ELSE "unretained")
    /\ UNCHANGED <<sqlite, staged, queue, faults>>

DispatchPending == dispatch = "pending"

CleanupReadDispatch ==
    /\ request = "unretained"
    /\ Request(IF DispatchPending THEN "accepted" ELSE "failing")
    /\ UNCHANGED <<sqlite, staged, queue, faults>>

\* ... and then fails whatever it finds.
CleanupFailBatch ==
    /\ request = "failing"
    /\ batch' = "failed"
    /\ file' = [f \in Files |-> IF file[f] = "pending" THEN "failed" ELSE file[f]]
    /\ Request("removing")
    /\ UNCHANGED <<dispatch, documents, staged, queue, faults>>

CleanupRemoveFiles ==
    /\ request = "removing"
    /\ staged' = {}
    /\ Request("refused")
    /\ UNCHANGED <<sqlite, queue, faults>>

-----------------------------------------------------------------------------
(* The reconciler, at startup and every fifteen seconds.  Two of them take   *)
(* turns through the lock, so one stands for all.                            *)

ReconcileLock ==
    /\ reconciler = "idle" /\ lock = NoOne
    /\ dispatch # "none" /\ batch \in {"queued", "processing"}
    /\ lock' = Reconciler
    /\ Reconcile("repairing")
    /\ UNCHANGED <<sqlite, staged, job, faults>>

\* WATCH makes the look at the job and the removal of its remains one step.
ReconcileRepair ==
    /\ reconciler = "repairing"
    /\ IF job \in {"queued", "running"}
       THEN Reconcile("succeeded") /\ UNCHANGED job
       ELSE Reconcile("enqueueing") /\ job' = "absent"
    /\ UNCHANGED <<sqlite, staged, lock, faults>>

ReconcileEnqueue ==
    /\ reconciler = "enqueueing"
    /\ job' = Enqueued
    /\ Reconcile("succeeded")
    /\ UNCHANGED <<sqlite, staged, lock, faults>>

ReconcileFails ==
    /\ reconciler \in {"repairing", "enqueueing"}
    /\ Fault
    /\ Reconcile("failed")
    /\ UNCHANGED <<sqlite, staged, queue>>

\* _mark_dispatched; the lock is closed with the block.
ReconcileMark ==
    /\ reconciler \in {"succeeded", "failed"}
    /\ dispatch' = IF reconciler = "succeeded" THEN "discharged" ELSE "pending"
    /\ lock' = NoOne
    /\ Reconcile("idle")
    /\ UNCHANGED <<batch, file, documents, staged, job, faults>>

-----------------------------------------------------------------------------
(* The worker                                                               *)

TakeJob(w) ==
    /\ worker[w] = "idle" /\ job = "queued"
    /\ job' = "running"
    /\ Worker(w, "starting")
    /\ UNCHANGED <<sqlite, staged, lock, thread, stray, faults>>

MayOwn(w) == lock = NoOne

OwnBatch(w) ==
    /\ worker[w] = "starting" /\ MayOwn(w)
    /\ lock' = w
    /\ Worker(w, "owner")
    /\ UNCHANGED <<sqlite, staged, job, thread, stray, faults>>

\* Retry(defer=1); after five tries in a row arq gives the job up.
RetryLater(w) ==
    /\ worker[w] = "starting" /\ ~MayOwn(w)
    /\ \/ job' = "queued" /\ UNCHANGED faults
       \/ job' = "result" /\ Fault
    /\ Worker(w, "idle")
    /\ UNCHANGED <<sqlite, staged, lock, thread, stray>>

\* The end of process_batch_import: the lock is closed, arq records the job.
EndJob(w, outcome) ==
    /\ lock' = IF lock = w THEN NoOne ELSE lock
    /\ job' = outcome
    /\ Worker(w, "idle")
    /\ thread' = [thread EXCEPT ![w] = NoThreads]

AlreadyFinished == batch \in TERMINAL_BATCH_STATES

ReadBatch(w) ==
    /\ worker[w] = "owner"
    /\ IF AlreadyFinished
       THEN EndJob(w, "result")
       ELSE Worker(w, "resuming") /\ UNCHANGED <<queue, thread>>
    /\ UNCHANGED <<sqlite, staged, stray, faults>>

Resumable == Unfinished

\* The transaction that marks the batch and selects what is left to do.
ResumeBatch(w) ==
    /\ worker[w] = "resuming"
    /\ batch' = "processing"
    /\ thread' = [thread EXCEPT ![w] =
                     [f \in Files |-> IF file[f] \in Resumable THEN "waiting" ELSE "none"]]
    /\ Worker(w, "indexing")
    /\ UNCHANGED <<dispatch, file, documents, staged, queue, stray, faults>>

OpenFile(w, f) ==
    /\ worker[w] = "indexing" /\ f \in Waiting(w)
    /\ Cardinality(Active(w)) < Concurrency
    /\ file' = [file EXCEPT ![f] = "processing"]
    /\ Thread(w, f, "open")
    /\ UNCHANGED <<batch, dispatch, documents, staged, queue, faults>>

SameCase(f) == {g \in documents : Content[g] = Content[f]}

\* index_upload up to its transaction: a known import key and known bytes are
\* done, other bytes are extracted, which may fail.
Looked(f) ==
    IF f \notin staged THEN {"broken"}
    ELSE IF f \in documents \/ SameCase(f) # {} THEN {"indexed"}
    ELSE {"writing", "broken"}

LookUpFile(w, f) ==
    /\ thread[w][f] = "open"
    /\ \E step \in Looked(f) : Thread(w, f, step)
    /\ UNCHANGED <<sqlite, staged, queue, faults>>

\* INSERT ... ON CONFLICT(import_key) DO NOTHING
InsertDocument(w, f) ==
    /\ thread[w][f] = "writing"
    /\ documents' = documents \cup {f}
    /\ Thread(w, f, "indexed")
    /\ UNCHANGED <<batch, dispatch, file, staged, queue, faults>>

Completed == "completed"

MarkFile(w, f) ==
    /\ thread[w][f] \in {"indexed", "broken"}
    /\ file' = [file EXCEPT ![f] = IF thread[w][f] = "indexed" THEN Completed ELSE "failed"]
    /\ Thread(w, f, "none")
    /\ UNCHANGED <<batch, dispatch, documents, staged, queue, faults>>

\* _batch_progress
Outcome ==
    LET ok == {f \in Files : file[f] = "completed"}
        ko == {f \in Files : file[f] = "failed"}
    IN  IF ok \cup ko # Files THEN batch
        ELSE IF ko = {} THEN "completed"
        ELSE IF ok # {} THEN "completed_with_errors" ELSE "failed"

FinalizeBatch(w) ==
    /\ worker[w] = "indexing" /\ Active(w) \cup Waiting(w) = {}
    /\ batch' = Outcome
    /\ Worker(w, "cleaning")
    /\ UNCHANGED <<dispatch, file, documents, staged, queue, thread, stray, faults>>

CleanBatchFiles(w) ==
    /\ worker[w] = "cleaning"
    /\ staged' = {}
    /\ EndJob(w, "result")
    /\ UNCHANGED <<sqlite, stray, faults>>

\* The job times out or the worker shuts down: files being indexed are
\* finished first, the others are left.
CancelJob(w) ==
    /\ worker[w] = "indexing"
    /\ Fault
    /\ worker' = [worker EXCEPT ![w] = "draining"]
    /\ thread' = [thread EXCEPT ![w] =
                     [f \in Files |-> IF f \in Waiting(w) THEN "none" ELSE thread[w][f]]]
    /\ UNCHANGED <<sqlite, staged, queue, request, reconciler, stray>>

StagedAfterDrain == staged

DrainJob(w) ==
    /\ worker[w] = "draining" /\ Active(w) = {}
    /\ EndJob(w, "result") \/ EndJob(w, "queued")
    /\ staged' = StagedAfterDrain
    /\ UNCHANGED <<sqlite, stray, faults>>

\* A second cancellation, the shutdown of a worker whose job has timed out say,
\* reaches `await work` and the gather of the drain: the coroutines and the job
\* end, the lock is free, and the native threads run on without them.
LeftRunning(w) == {<<f, thread[w][f]>> : f \in {g \in Files : thread[w][g] \in {"open", "writing"}}}

CancelDrain(w) ==
    /\ worker[w] = "draining" /\ Active(w) # {}
    /\ Fault
    /\ stray' = stray \cup LeftRunning(w)
    /\ EndJob(w, "result") \/ EndJob(w, "queued")
    /\ UNCHANGED <<sqlite, staged>>

\* Such a thread goes on with index_upload; nobody marks its file, and one whose
\* process dies takes no further step.
StrayLooksUp(f) ==
    /\ <<f, "open">> \in stray
    /\ stray' = (stray \ {<<f, "open">>})
                  \cup (IF "writing" \in Looked(f) THEN {<<f, "writing">>} ELSE {})
    /\ UNCHANGED <<sqlite, staged, queue, request, reconciler, worker, thread, faults>>

StrayInserts(f) ==
    /\ <<f, "writing">> \in stray
    /\ documents' = documents \cup {f}
    /\ stray' = stray \ {<<f, "writing">>}
    /\ UNCHANGED <<batch, dispatch, file, staged, queue, request, reconciler, worker, thread,
                    faults>>

-----------------------------------------------------------------------------
(* Faults                                                                   *)

CrashRequest ==
    /\ request \notin {"start", "accepted", "refused", "dead", "cut"}
    /\ Fault
    /\ Request(IF request = "removing" THEN "cut" ELSE "dead")
    /\ UNCHANGED <<sqlite, staged, queue>>

CrashWorker(w) ==
    /\ worker[w] # "idle"
    /\ Fault
    /\ Worker(w, "idle")
    /\ thread' = [thread EXCEPT ![w] = NoThreads]
    /\ lock' = IF lock = w THEN NoOne ELSE lock
    /\ UNCHANGED <<sqlite, staged, job, stray>>

CrashReconciler ==
    /\ reconciler # "idle"
    /\ Fault
    /\ Reconcile("idle")
    /\ lock' = NoOne
    /\ UNCHANGED <<sqlite, staged, job>>

LoseRedis ==
    /\ job # "absent"
    /\ Fault
    /\ job' = "absent"
    /\ UNCHANGED <<sqlite, staged, lock, procs>>

\* The in-progress marker of a dead or overdue worker expires.
MarkerExpires ==
    /\ job = "running"
    /\ \A w \in Workers : worker[w] \in {"idle", "draining"}
    /\ job' = "queued"
    /\ UNCHANGED <<sqlite, staged, lock, procs, faults>>

\* Nothing is left to do once the batch is over and everybody has stopped.
Rest ==
    /\ batch \in TERMINAL_BATCH_STATES \/ dispatch = "none"
    /\ request \in {"accepted", "refused", "dead", "cut"}
    /\ reconciler = "idle" /\ job \in {"absent", "result"}
    /\ \A w \in Workers : worker[w] = "idle"
    /\ UNCHANGED vars

-----------------------------------------------------------------------------
RequestStep ==
    \/ RegisterBatch \/ PersistManifest \/ EnqueueJob \/ MarkDischarged \/ RequestFails
    \/ \E f \in Files : StageFile(f)
    \/ CleanupReadBatch \/ CleanupReadDispatch \/ CleanupFailBatch \/ CleanupRemoveFiles

ReconcileStep ==
    ReconcileLock \/ ReconcileRepair \/ ReconcileEnqueue \/ ReconcileMark

IndexStep(w) ==
    \E f \in Files :
        OpenFile(w, f) \/ LookUpFile(w, f) \/ InsertDocument(w, f) \/ MarkFile(w, f)

WorkerStep(w) ==
    \/ TakeJob(w) \/ OwnBatch(w) \/ RetryLater(w) \/ ReadBatch(w) \/ ResumeBatch(w)
    \/ IndexStep(w) \/ FinalizeBatch(w) \/ CleanBatchFiles(w) \/ DrainJob(w)

FaultStep ==
    \/ ReconcileFails \/ CrashRequest \/ CrashReconciler \/ LoseRedis \/ MarkerExpires
    \/ \E w \in Workers : CancelJob(w) \/ CancelDrain(w) \/ CrashWorker(w)

StrayStep == \E f \in Files : StrayLooksUp(f) \/ StrayInserts(f)

Next ==
    \/ RequestStep \/ ReconcileStep \/ (\E w \in Workers : WorkerStep(w)) \/ StrayStep
    \/ FaultStep \/ Rest

Spec == Init /\ [][Next]_vars

\* The processes keep running, an abandoned marker expires, cron fires.  The
\* reconciler holds the lock for moments every fifteen seconds, a worker asks
\* for it every second: it finds it free again and again, and gets it.
Fairness ==
    /\ WF_vars(RequestStep)
    /\ WF_vars(ReconcileStep)
    /\ WF_vars(MarkerExpires)
    /\ \A w \in Workers :
          /\ WF_vars(WorkerStep(w))
          /\ SF_vars(TakeJob(w) /\ lock = NoOne)
          /\ SF_vars(OwnBatch(w))

FairSpec == Spec /\ Fairness
-----------------------------------------------------------------------------
\* Every variable stays in its type.
TypeOK ==
    /\ batch \in {"none", "queued", "processing"} \cup TERMINAL_BATCH_STATES
    /\ dispatch \in {"none", "pending", "discharged"}
    /\ file \in [Files -> {"none", "completed", "failed"} \cup Unfinished]
    /\ staged \subseteq Files
    /\ documents \subseteq Files
    /\ job \in {"absent", "queued", "running", "result"}
    /\ lock \in Workers \cup {Reconciler, NoOne}
    /\ request \in {"start", "staging", "enqueueing", "discharging", "cleanup", "unretained",
                    "failing", "removing", "accepted", "refused", "dead", "cut"}
    /\ reconciler \in {"idle", "repairing", "enqueueing", "succeeded", "failed"}
    /\ worker \in [Workers -> {"idle", "starting", "owner", "resuming", "indexing", "cleaning",
                               "draining"}]
    /\ thread \in [Workers -> [Files -> {"none", "waiting"} \cup Indexing]]
    /\ stray \subseteq Files \X {"open", "writing"}
    /\ faults \in 0 .. MaxFaults

\* The coroutines of two workers never index files of the batch at the same time,
\* even after Redis lost the job of one that still runs and the job was dispatched
\* again.  A native thread that a second cancellation left behind is not theirs.
OneWorkerAtATime ==
    \A v, w \in Workers : Active(v) # {} /\ Active(w) # {} => v = w

\* A file is reported as completed only when its bytes are in the case.
CompletedIsIndexed ==
    \A f \in Files : file[f] = "completed" => SameCase(f) # {}

\* A batch the client was told is accepted keeps the inputs of its unfinished
\* files, whatever crashes, is lost, or is cleaned up.
AcceptedKeepsInputs ==
    request = "accepted" => \A f \in Files : file[f] \in Unfinished => f \in staged

\* The request has failed the batch, at a moment when a worker may have it.
RequestFailedIt == request \in {"removing", "refused", "cut"}

\* _batch_progress: a batch that reports completion agrees with its files, and
\* one that failed lost all of them, unless the request's except branch failed
\* it: that one may overwrite the outcome of a worker whose files are indexed.
OutcomeIsTrue ==
    /\ batch = "completed" => \A f \in Files : file[f] = "completed"
    /\ batch = "completed_with_errors" =>
          /\ \E f \in Files : file[f] = "completed"
          /\ \E f \in Files : file[f] = "failed"
          /\ \A f \in Files : file[f] \notin Unfinished
    /\ batch = "failed" /\ ~RequestFailedIt => \A f \in Files : file[f] = "failed"

\* A batch that has ended is not reopened and keeps its outcome, however often
\* its job is delivered again; only a request that is failing it interferes.
EndIsFinal ==
    [][/\ batch \in TERMINAL_BATCH_STATES
       /\ request # "failing" /\ ~RequestFailedIt
       => UNCHANGED batch]_vars

\* A batch whose manifest is stored ends, whatever crashes or is lost.
ManifestLeadsToEnd ==
    (dispatch # "none") ~> (batch \in TERMINAL_BATCH_STATES)

\* Comment in the except branch: the inputs of a worker that owns the files are
\* not deleted.
WorkerKeepsInputs ==
    \A w \in Workers, f \in Files : thread[w][f] \in {"waiting", "open"} => f \in staged

-----------------------------------------------------------------------------
(* The inductive invariant behind OneWorkerAtATime, CompletedIsIndexed and   *)
(* AcceptedKeepsInputs.                                                      *)

Owning == {"owner", "resuming", "indexing", "cleaning", "draining"}

\* The lock is held exactly by who works on the batch.
LockIsHeld ==
    /\ \A w \in Workers : worker[w] \in Owning <=> lock = w
    /\ reconciler # "idle" <=> lock = Reconciler
    /\ \A w \in Workers, f \in Files :
          thread[w][f] # "none" => worker[w] \in {"indexing", "draining"}

IndexedHasBytes ==
    \A w \in Workers, f \in Files : thread[w][f] = "indexed" => SameCase(f) # {}

\* Nobody works on a batch before its manifest is stored.
ManifestFirst ==
    /\ request \in {"start", "staging"} => dispatch = "none"
    /\ request \in {"enqueueing", "discharging"} => dispatch # "none"
    /\ dispatch = "none" =>
          job = "absent" /\ lock = NoOne /\ \A w \in Workers : worker[w] = "idle"

\* A worker that runs knows every unfinished file, one that cleans left none.
WorkIsKnown ==
    \A w \in Workers, f \in Files :
        \/ worker[w] = "indexing" /\ thread[w][f] = "none"
        \/ worker[w] = "cleaning"
        => file[f] \notin Unfinished

InputsKept ==
    request # "refused" =>
        \A f \in Files :
            file[f] \in Unfinished \/ (\E w \in Workers : thread[w][f] # "none") => f \in staged

IInv ==
    /\ TypeOK /\ LockIsHeld /\ IndexedHasBytes /\ CompletedIsIndexed
    /\ ManifestFirst /\ WorkIsKnown /\ InputsKept
=============================================================================
