-------------------------- MODULE BatchImport_proof --------------------------
(***************************************************************************)
(* Theorems about BatchImport.  Whoever works on the batch holds its lock, *)
(* nobody works on it before its manifest is stored, and a worker knows    *)
(* every unfinished file; from these it follows that only one worker       *)
(* indexes, that what is reported as completed is in the case, that an     *)
(* accepted batch keeps the inputs it still needs, and that the outcome    *)
(* which a finished batch reports is that of its files.                    *)
(***************************************************************************)
EXTENDS BatchImport, TLAPS

LEMMA EachStep ==
  ASSUME [Next]_vars, NEW P,
         RegisterBatch => P,
         PersistManifest => P,
         EnqueueJob => P,
         MarkDischarged => P,
         RequestFails => P,
         CleanupReadBatch => P,
         CleanupReadDispatch => P,
         CleanupFailBatch => P,
         CleanupRemoveFiles => P,
         CrashRequest => P,
         ReconcileLock => P,
         ReconcileRepair => P,
         ReconcileEnqueue => P,
         ReconcileFails => P,
         ReconcileMark => P,
         CrashReconciler => P,
         LoseRedis => P,
         MarkerExpires => P,
         \A f \in Files : StageFile(f) => P,
         \A w \in Workers : TakeJob(w) => P,
         \A w \in Workers : OwnBatch(w) => P,
         \A w \in Workers : RetryLater(w) => P,
         \A w \in Workers : ReadBatch(w) => P,
         \A w \in Workers : ResumeBatch(w) => P,
         \A w \in Workers : FinalizeBatch(w) => P,
         \A w \in Workers : CleanBatchFiles(w) => P,
         \A w \in Workers : CancelJob(w) => P,
         \A w \in Workers : DrainJob(w) => P,
         \A w \in Workers : CancelDrain(w) => P,
         \A f \in Files : StrayLooksUp(f) => P,
         \A f \in Files : StrayInserts(f) => P,
         \A w \in Workers : CrashWorker(w) => P,
         \A w \in Workers, f \in Files : OpenFile(w, f) => P,
         \A w \in Workers, f \in Files : LookUpFile(w, f) => P,
         \A w \in Workers, f \in Files : InsertDocument(w, f) => P,
         \A w \in Workers, f \in Files : MarkFile(w, f) => P,
         UNCHANGED vars => P
  PROVE  P
<1>1. CASE RequestStep
  BY <1>1, Zenon DEF RequestStep
<1>2. CASE ReconcileStep
  BY <1>2, Zenon DEF ReconcileStep
<1>3. ASSUME NEW w \in Workers, WorkerStep(w) PROVE P
  BY <1>3, Zenon DEF WorkerStep, IndexStep
<1>4. CASE FaultStep
  BY <1>4, Zenon DEF FaultStep
<1>5. CASE Rest \/ UNCHANGED vars
  BY <1>5, Zenon DEF Rest
<1>6. CASE StrayStep
  BY <1>6, Zenon DEF StrayStep
<1> QED
  BY <1>1, <1>2, <1>3, <1>4, <1>5, <1>6, Zenon DEF Next

LEMMA InitInv == Init => IInv
<1> SUFFICES ASSUME Init PROVE IInv
  OBVIOUS
<1> USE DEF Init, NoThreads
<1>1. TypeOK
  BY MaxFaultsAssumption DEF TypeOK
<1>2. LockIsHeld
  BY OwnerAssumption DEF LockIsHeld, Owning
<1>3. IndexedHasBytes /\ CompletedIsIndexed
  BY DEF IndexedHasBytes, CompletedIsIndexed
<1>4. ManifestFirst
  BY DEF ManifestFirst
<1>5. WorkIsKnown /\ InputsKept
  BY DEF WorkIsKnown, InputsKept, Unfinished
<1> QED
  BY <1>1, <1>2, <1>3, <1>4, <1>5 DEF IInv

\* Every step keeps the types.
LEMMA NextType ==
  ASSUME TypeOK, [Next]_vars
  PROVE  TypeOK'
<1> USE DEF sqlite, queue, procs, Fault, Request, Reconcile, Worker, Thread, NoThreads,
   TypeOK, Unfinished, Indexing, TERMINAL_BATCH_STATES
<1>1. RegisterBatch \/ PersistManifest \/ EnqueueJob \/ MarkDischarged => TypeOK'
  BY DEF RegisterBatch, PersistManifest, EnqueueJob, Enqueued, MarkDischarged
<1>2. RequestFails \/ CleanupReadBatch \/ CleanupReadDispatch => TypeOK'
  BY DEF RequestFails, CleanupReadBatch, CleanupReadDispatch, DispatchPending
<1>3. CleanupFailBatch => TypeOK'
  BY DEF CleanupFailBatch
<1>4. CleanupRemoveFiles \/ CrashRequest => TypeOK'
  BY MaxFaultsAssumption DEF CleanupRemoveFiles, CrashRequest
<1>5. ReconcileLock \/ ReconcileRepair \/ ReconcileEnqueue \/ ReconcileFails \/
   ReconcileMark \/ CrashReconciler \/ LoseRedis \/ MarkerExpires => TypeOK'
  BY MaxFaultsAssumption DEF ReconcileLock, ReconcileRepair, ReconcileEnqueue, Enqueued,
     ReconcileFails, ReconcileMark, CrashReconciler, LoseRedis, MarkerExpires
<1>6. ASSUME NEW f \in Files, StageFile(f)
      PROVE  TypeOK'
  BY <1>6 DEF StageFile
<1>7. ASSUME NEW w \in Workers, TakeJob(w) \/ OwnBatch(w)
      PROVE  TypeOK'
  BY <1>7 DEF TakeJob, OwnBatch, MayOwn
<1>8. ASSUME NEW w \in Workers, RetryLater(w)
      PROVE  TypeOK'
  BY <1>8, MaxFaultsAssumption DEF RetryLater, MayOwn
<1>9. ASSUME NEW w \in Workers, ReadBatch(w)
      PROVE  TypeOK'
  <2>1. CASE EndJob(w, "result")
    BY <1>9, <2>1 DEF ReadBatch, EndJob
  <2>2. CASE Worker(w, "resuming") /\ UNCHANGED <<queue, thread>>
    BY <1>9, <2>2 DEF ReadBatch
  <2> QED
    BY <1>9, <2>1, <2>2 DEF ReadBatch
<1>10. ASSUME NEW w \in Workers, ResumeBatch(w)
      PROVE  TypeOK'
  BY <1>10 DEF ResumeBatch, Resumable
<1>11. ASSUME NEW w \in Workers, FinalizeBatch(w)
      PROVE  TypeOK'
  <2>1. batch' \in TERMINAL_BATCH_STATES \cup {batch}
    <3>1. Outcome \in TERMINAL_BATCH_STATES \cup {batch}
      BY DEF Outcome
    <3> QED
      BY <1>11, <3>1 DEF FinalizeBatch
  <2> QED
    BY <1>11, <2>1 DEF FinalizeBatch
<1>12. ASSUME NEW w \in Workers, CleanBatchFiles(w)
      PROVE  TypeOK'
  BY <1>12 DEF CleanBatchFiles, EndJob
<1>13. ASSUME NEW w \in Workers, DrainJob(w)
      PROVE  TypeOK'
  <2>1. staged' \subseteq Files /\ batch' \in {"none", "queued", "processing"} \cup TERMINAL_BATCH_STATES
    BY <1>13 DEF DrainJob, StagedAfterDrain
  <2>2. \/ EndJob(w, "result") /\ UNCHANGED <<sqlite, stray, faults>>
        \/ EndJob(w, "queued") /\ UNCHANGED <<sqlite, stray, faults>>
    BY <1>13 DEF DrainJob
  <2>3. /\ job' \in {"absent", "queued", "running", "result"}
        /\ lock' \in Workers \cup {Reconciler, NoOne}
        /\ worker' \in [Workers -> {"idle", "starting", "owner", "resuming", "indexing", "cleaning",
                                   "draining"}]
        /\ thread' \in [Workers -> [Files -> {"none", "waiting"} \cup Indexing]]
        /\ UNCHANGED <<request, reconciler>>
    <3>1. CASE EndJob(w, "result")
      BY <3>1 DEF EndJob
    <3>2. CASE EndJob(w, "queued")
      BY <3>2 DEF EndJob
    <3> QED
      BY <2>2, <3>1, <3>2
  <2> QED
    BY <2>1, <2>2, <2>3
<1>14. ASSUME NEW w \in Workers, CrashWorker(w)
      PROVE  TypeOK'
  BY <1>14, MaxFaultsAssumption DEF CrashWorker
<1>15. ASSUME NEW w \in Workers, CancelJob(w)
      PROVE  TypeOK'
  BY <1>15, MaxFaultsAssumption DEF CancelJob
<1>16. ASSUME NEW w \in Workers, NEW f \in Files, OpenFile(w, f) \/ LookUpFile(w, f)
      PROVE  TypeOK'
  BY <1>16 DEF OpenFile, LookUpFile, Looked
<1>17. ASSUME NEW w \in Workers, NEW f \in Files, InsertDocument(w, f) \/ MarkFile(w, f)
      PROVE  TypeOK'
  BY <1>17 DEF InsertDocument, MarkFile, Completed
<1>18. UNCHANGED vars => TypeOK'
  BY DEF vars, sqlite, queue, procs
<1>19. ASSUME NEW w \in Workers, CancelDrain(w)
      PROVE  TypeOK'
  <2>1. stray' \subseteq Files \X {"open", "writing"}
    BY <1>19 DEF CancelDrain, LeftRunning
  <2>2. /\ UNCHANGED <<sqlite, staged, request, reconciler>>
        /\ faults' \in 0 .. MaxFaults
    BY <1>19, MaxFaultsAssumption DEF CancelDrain, EndJob
  <2>3. EndJob(w, "result") \/ EndJob(w, "queued")
    BY <1>19 DEF CancelDrain
  <2>4. /\ job' \in {"absent", "queued", "running", "result"}
        /\ lock' \in Workers \cup {Reconciler, NoOne}
        /\ worker' \in [Workers -> {"idle", "starting", "owner", "resuming", "indexing", "cleaning",
                                   "draining"}]
        /\ thread' \in [Workers -> [Files -> {"none", "waiting"} \cup Indexing]]
    <3>1. CASE EndJob(w, "result")
      BY <3>1 DEF EndJob
    <3>2. CASE EndJob(w, "queued")
      BY <3>2 DEF EndJob
    <3> QED
      BY <2>3, <3>1, <3>2
  <2> QED
    BY <2>1, <2>2, <2>4
<1>20. ASSUME NEW f \in Files, StrayLooksUp(f) \/ StrayInserts(f)
      PROVE  TypeOK'
  BY <1>20 DEF StrayLooksUp, StrayInserts
<1> QED
  BY <1>1, <1>2, <1>3, <1>4, <1>5, <1>6, <1>7, <1>8, <1>9, <1>10, <1>11, <1>12, <1>13,
     <1>14, <1>15, <1>16, <1>17, <1>18, <1>19, <1>20, EachStep, Zenon

\* Every step leaves the lock with who works on the batch.
LEMMA NextLock ==
  ASSUME TypeOK, LockIsHeld, [Next]_vars
  PROVE  LockIsHeld'
<1> USE DEF sqlite, queue, procs, Fault, Request, Reconcile, Worker, Thread, NoThreads,
   TypeOK, LockIsHeld, Owning
<1>1. RegisterBatch \/ PersistManifest \/ EnqueueJob \/ MarkDischarged \/ RequestFails \/
   CleanupReadBatch \/ CleanupReadDispatch \/ CleanupFailBatch \/ CleanupRemoveFiles \/
   CrashRequest => LockIsHeld'
  BY DEF RegisterBatch, PersistManifest, EnqueueJob, Enqueued, MarkDischarged, RequestFails,
     CleanupReadBatch, CleanupReadDispatch, DispatchPending, CleanupFailBatch,
     CleanupRemoveFiles, CrashRequest
<1>2. ReconcileLock \/ ReconcileRepair \/ ReconcileEnqueue \/ ReconcileFails \/
   ReconcileMark \/ CrashReconciler \/ LoseRedis \/ MarkerExpires => LockIsHeld'
  BY OwnerAssumption DEF ReconcileLock, ReconcileRepair, ReconcileEnqueue, Enqueued,
     ReconcileFails, ReconcileMark, CrashReconciler, LoseRedis, MarkerExpires
<1>3. ASSUME NEW f \in Files, StageFile(f)
      PROVE  LockIsHeld'
  BY <1>3 DEF StageFile
<1>4. ASSUME NEW w \in Workers, TakeJob(w)
      PROVE  LockIsHeld'
  BY <1>4 DEF TakeJob
<1>5. ASSUME NEW w \in Workers, OwnBatch(w)
      PROVE  LockIsHeld'
  BY <1>5, OwnerAssumption DEF OwnBatch, MayOwn
<1>6. ASSUME NEW w \in Workers, RetryLater(w)
      PROVE  LockIsHeld'
  BY <1>6 DEF RetryLater, MayOwn
<1>7. ASSUME NEW w \in Workers, ReadBatch(w)
      PROVE  LockIsHeld'
  BY <1>7, OwnerAssumption DEF ReadBatch, AlreadyFinished, EndJob, TERMINAL_BATCH_STATES
<1>8. ASSUME NEW w \in Workers, ResumeBatch(w)
      PROVE  LockIsHeld'
  BY <1>8 DEF ResumeBatch, Resumable
<1>9. ASSUME NEW w \in Workers, FinalizeBatch(w)
      PROVE  LockIsHeld'
  BY <1>9 DEF FinalizeBatch, Outcome, Active, Waiting
<1>10. ASSUME NEW w \in Workers, CleanBatchFiles(w)
      PROVE  LockIsHeld'
  BY <1>10, OwnerAssumption DEF CleanBatchFiles, EndJob
<1>11. ASSUME NEW w \in Workers, DrainJob(w)
      PROVE  LockIsHeld'
  <2>1. lock = w /\ lock' = NoOne
    BY <1>11 DEF DrainJob, EndJob
  <2>2. worker' = [worker EXCEPT ![w] = "idle"] /\ UNCHANGED reconciler
    BY <1>11 DEF DrainJob, EndJob
  <2>3. thread' = [thread EXCEPT ![w] = [f \in Files |-> "none"]]
    BY <1>11 DEF DrainJob, EndJob
  <2> QED
    BY <2>1, <2>2, <2>3, OwnerAssumption
<1>12. ASSUME NEW w \in Workers, CrashWorker(w)
      PROVE  LockIsHeld'
  BY <1>12, OwnerAssumption DEF CrashWorker
<1>13. ASSUME NEW w \in Workers, CancelJob(w)
      PROVE  LockIsHeld'
  BY <1>13 DEF CancelJob
<1>14. ASSUME NEW w \in Workers, NEW f \in Files, OpenFile(w, f)
      PROVE  LockIsHeld'
  BY <1>14 DEF OpenFile, Waiting
<1>15. ASSUME NEW w \in Workers, NEW f \in Files, LookUpFile(w, f)
      PROVE  LockIsHeld'
  BY <1>15 DEF LookUpFile, Looked
<1>16. ASSUME NEW w \in Workers, NEW f \in Files, InsertDocument(w, f)
      PROVE  LockIsHeld'
  BY <1>16 DEF InsertDocument
<1>17. ASSUME NEW w \in Workers, NEW f \in Files, MarkFile(w, f)
      PROVE  LockIsHeld'
  BY <1>17 DEF MarkFile, Completed
<1>18. UNCHANGED vars => LockIsHeld'
  BY DEF vars, sqlite, queue, procs
<1>19. ASSUME NEW w \in Workers, CancelDrain(w)
      PROVE  LockIsHeld'
  <2>1. lock = w /\ lock' = NoOne
    BY <1>19 DEF CancelDrain, EndJob
  <2>2. worker' = [worker EXCEPT ![w] = "idle"] /\ UNCHANGED reconciler
    BY <1>19 DEF CancelDrain, EndJob
  <2>3. thread' = [thread EXCEPT ![w] = [f \in Files |-> "none"]]
    BY <1>19 DEF CancelDrain, EndJob
  <2> QED
    BY <2>1, <2>2, <2>3, OwnerAssumption
<1>20. ASSUME NEW f \in Files, StrayLooksUp(f) \/ StrayInserts(f)
      PROVE  LockIsHeld'
  BY <1>20 DEF StrayLooksUp, StrayInserts
<1> QED
  BY <1>1, <1>2, <1>3, <1>4, <1>5, <1>6, <1>7, <1>8, <1>9, <1>10, <1>11, <1>12, <1>13,
     <1>14, <1>15, <1>16, <1>17, <1>18, <1>19, <1>20, EachStep, Zenon

\* What is indexed or completed has its bytes in the case.
LEMMA NextBytes ==
  ASSUME TypeOK, IndexedHasBytes, CompletedIsIndexed, [Next]_vars
  PROVE  (IndexedHasBytes /\ CompletedIsIndexed)'
<1> USE DEF sqlite, queue, procs, Fault, Request, Reconcile, Worker, Thread, NoThreads,
   TypeOK, IndexedHasBytes, CompletedIsIndexed, SameCase
<1>1. RegisterBatch \/ PersistManifest \/ EnqueueJob \/ MarkDischarged \/ RequestFails \/
   CleanupReadBatch \/ CleanupReadDispatch \/ CleanupFailBatch \/ CleanupRemoveFiles \/
   CrashRequest => (IndexedHasBytes /\ CompletedIsIndexed)'
  BY DEF RegisterBatch, PersistManifest, EnqueueJob, Enqueued, MarkDischarged, RequestFails,
     CleanupReadBatch, CleanupReadDispatch, DispatchPending, CleanupFailBatch,
     CleanupRemoveFiles, CrashRequest
<1>2. ReconcileLock \/ ReconcileRepair \/ ReconcileEnqueue \/ ReconcileFails \/
   ReconcileMark \/ CrashReconciler \/ LoseRedis \/ MarkerExpires => (IndexedHasBytes /\
   CompletedIsIndexed)'
  BY DEF ReconcileLock, ReconcileRepair, ReconcileEnqueue, Enqueued, ReconcileFails,
     ReconcileMark, CrashReconciler, LoseRedis, MarkerExpires
<1>3. ASSUME NEW f \in Files, StageFile(f)
      PROVE  (IndexedHasBytes /\ CompletedIsIndexed)'
  BY <1>3 DEF StageFile
<1>4. ASSUME NEW w \in Workers, TakeJob(w) \/ OwnBatch(w) \/ RetryLater(w) \/ ReadBatch(w)
      PROVE  (IndexedHasBytes /\ CompletedIsIndexed)'
  BY <1>4 DEF TakeJob, OwnBatch, MayOwn, RetryLater, ReadBatch, AlreadyFinished, EndJob,
     TERMINAL_BATCH_STATES
<1>5. ASSUME NEW w \in Workers, ResumeBatch(w)
      PROVE  (IndexedHasBytes /\ CompletedIsIndexed)'
  BY <1>5 DEF ResumeBatch, Resumable
<1>6. ASSUME NEW w \in Workers, FinalizeBatch(w) \/ CrashWorker(w)
      PROVE  (IndexedHasBytes /\ CompletedIsIndexed)'
  BY <1>6 DEF FinalizeBatch, CrashWorker
<1>15. ASSUME NEW w \in Workers, CleanBatchFiles(w) \/ DrainJob(w)
       PROVE  (IndexedHasBytes /\ CompletedIsIndexed)'
  <2>1. /\ UNCHANGED <<file, documents>>
        /\ thread' = [thread EXCEPT ![w] = [f \in Files |-> "none"]]
    BY <1>15 DEF CleanBatchFiles, EndJob, DrainJob
  <2> QED
    BY <2>1
<1>7. ASSUME NEW w \in Workers, CancelJob(w)
      PROVE  (IndexedHasBytes /\ CompletedIsIndexed)'
  BY <1>7 DEF CancelJob
<1>8. ASSUME NEW w \in Workers, NEW f \in Files, OpenFile(w, f)
      PROVE  (IndexedHasBytes /\ CompletedIsIndexed)'
  BY <1>8 DEF OpenFile
<1>9. ASSUME NEW w \in Workers, NEW f \in Files, LookUpFile(w, f)
      PROVE  (IndexedHasBytes /\ CompletedIsIndexed)'
  BY <1>9 DEF LookUpFile, Looked
<1>10. ASSUME NEW w \in Workers, NEW f \in Files, InsertDocument(w, f)
      PROVE  (IndexedHasBytes /\ CompletedIsIndexed)'
  BY <1>10 DEF InsertDocument
<1>11. ASSUME NEW w \in Workers, NEW f \in Files, MarkFile(w, f)
      PROVE  (IndexedHasBytes /\ CompletedIsIndexed)'
  BY <1>11 DEF MarkFile, Completed
<1>12. UNCHANGED vars => (IndexedHasBytes /\ CompletedIsIndexed)'
  BY DEF vars, sqlite, queue, procs
<1>13. ASSUME NEW w \in Workers, CancelDrain(w)
      PROVE  (IndexedHasBytes /\ CompletedIsIndexed)'
  BY <1>13 DEF CancelDrain, EndJob
<1>14. ASSUME NEW f \in Files, StrayLooksUp(f) \/ StrayInserts(f)
      PROVE  (IndexedHasBytes /\ CompletedIsIndexed)'
  BY <1>14 DEF StrayLooksUp, StrayInserts
<1> QED
  BY <1>1, <1>2, <1>3, <1>4, <1>5, <1>6, <1>7, <1>8, <1>9, <1>10, <1>11, <1>12, <1>13, <1>14,
     <1>15, EachStep, Zenon

\* Nobody starts before the manifest is stored.
LEMMA NextManifest ==
  ASSUME TypeOK, LockIsHeld, ManifestFirst, [Next]_vars
  PROVE  ManifestFirst'
<1> USE DEF sqlite, queue, procs, Fault, Request, Reconcile, Worker, Thread, NoThreads,
   TypeOK, ManifestFirst, Owning
<1>1. RegisterBatch \/ PersistManifest \/ EnqueueJob \/ MarkDischarged \/ RequestFails \/
   CleanupReadBatch \/ CleanupReadDispatch \/ CleanupFailBatch \/ CleanupRemoveFiles \/
   CrashRequest => ManifestFirst'
  BY DEF RegisterBatch, PersistManifest, EnqueueJob, Enqueued, MarkDischarged, RequestFails,
     CleanupReadBatch, CleanupReadDispatch, DispatchPending, CleanupFailBatch,
     CleanupRemoveFiles, CrashRequest
<1>2. ReconcileLock \/ ReconcileRepair \/ ReconcileEnqueue \/ ReconcileFails \/
   ReconcileMark \/ CrashReconciler \/ LoseRedis \/ MarkerExpires => ManifestFirst'
  BY OwnerAssumption DEF ReconcileLock, ReconcileRepair, ReconcileEnqueue, Enqueued,
     ReconcileFails, ReconcileMark, CrashReconciler, LoseRedis, MarkerExpires, LockIsHeld
<1>3. ASSUME NEW f \in Files, StageFile(f)
      PROVE  ManifestFirst'
  BY <1>3 DEF StageFile
<1>4. ASSUME NEW w \in Workers, TakeJob(w) \/ OwnBatch(w) \/ RetryLater(w) \/ ReadBatch(w)
   \/ ResumeBatch(w)
      PROVE  ManifestFirst'
  BY <1>4 DEF TakeJob, OwnBatch, MayOwn, RetryLater, ReadBatch, AlreadyFinished, EndJob,
     TERMINAL_BATCH_STATES, ResumeBatch, Resumable
<1>5. ASSUME NEW w \in Workers, FinalizeBatch(w) \/ CleanBatchFiles(w) \/ DrainJob(w) \/
   CrashWorker(w) \/ CancelJob(w)
      PROVE  ManifestFirst'
  BY <1>5 DEF FinalizeBatch, Outcome, CleanBatchFiles, EndJob, DrainJob, StagedAfterDrain,
     CrashWorker, CancelJob
<1>6. ASSUME NEW w \in Workers, NEW f \in Files, OpenFile(w, f) \/ LookUpFile(w, f) \/
   InsertDocument(w, f) \/ MarkFile(w, f)
      PROVE  ManifestFirst'
  BY <1>6 DEF OpenFile, LookUpFile, Looked, InsertDocument, MarkFile, Completed
<1>7. UNCHANGED vars => ManifestFirst'
  BY DEF vars, sqlite, queue, procs
<1>8. ASSUME NEW w \in Workers, CancelDrain(w)
      PROVE  ManifestFirst'
  BY <1>8 DEF CancelDrain, EndJob
<1>9. ASSUME NEW f \in Files, StrayLooksUp(f) \/ StrayInserts(f)
      PROVE  ManifestFirst'
  BY <1>9 DEF StrayLooksUp, StrayInserts
<1> QED
  BY <1>1, <1>2, <1>3, <1>4, <1>5, <1>6, <1>7, <1>8, <1>9, EachStep, Zenon

\* A worker that runs knows what is unfinished.
LEMMA NextWork ==
  ASSUME TypeOK, LockIsHeld, ManifestFirst, WorkIsKnown, [Next]_vars
  PROVE  WorkIsKnown'
<1> USE DEF sqlite, queue, procs, Fault, Request, Reconcile, Worker, Thread, NoThreads,
   TypeOK, WorkIsKnown, Unfinished
<1>1. RegisterBatch \/ EnqueueJob \/ MarkDischarged \/ RequestFails \/ CleanupReadBatch \/
   CleanupReadDispatch \/ CleanupRemoveFiles \/ CrashRequest => WorkIsKnown'
  BY DEF RegisterBatch, EnqueueJob, Enqueued, MarkDischarged, RequestFails,
     CleanupReadBatch, CleanupReadDispatch, DispatchPending, CleanupRemoveFiles,
     CrashRequest
<1>2. PersistManifest => WorkIsKnown'
  BY DEF PersistManifest, ManifestFirst
<1>3. CleanupFailBatch => WorkIsKnown'
  BY DEF CleanupFailBatch
<1>4. ReconcileLock \/ ReconcileRepair \/ ReconcileEnqueue \/ ReconcileFails \/
   ReconcileMark \/ CrashReconciler \/ LoseRedis \/ MarkerExpires => WorkIsKnown'
  BY DEF ReconcileLock, ReconcileRepair, ReconcileEnqueue, Enqueued, ReconcileFails,
     ReconcileMark, CrashReconciler, LoseRedis, MarkerExpires
<1>5. ASSUME NEW f \in Files, StageFile(f)
      PROVE  WorkIsKnown'
  BY <1>5 DEF StageFile
<1>6. ASSUME NEW w \in Workers, TakeJob(w) \/ OwnBatch(w) \/ RetryLater(w)
      PROVE  WorkIsKnown'
  BY <1>6 DEF TakeJob, OwnBatch, MayOwn, RetryLater
<1>7. ASSUME NEW w \in Workers, ReadBatch(w)
      PROVE  WorkIsKnown'
  BY <1>7 DEF ReadBatch, AlreadyFinished, EndJob, TERMINAL_BATCH_STATES
<1>8. ASSUME NEW w \in Workers, ResumeBatch(w)
      PROVE  WorkIsKnown'
  BY <1>8 DEF ResumeBatch, Resumable
<1>9. ASSUME NEW w \in Workers, FinalizeBatch(w)
      PROVE  WorkIsKnown'
  BY <1>9 DEF FinalizeBatch, Outcome, Active, Waiting, Indexing
<1>10. ASSUME NEW w \in Workers, CleanBatchFiles(w) \/ DrainJob(w) \/ CrashWorker(w)
      PROVE  WorkIsKnown'
  BY <1>10 DEF CleanBatchFiles, EndJob, DrainJob, StagedAfterDrain, CrashWorker
<1>11. ASSUME NEW w \in Workers, CancelJob(w)
      PROVE  WorkIsKnown'
  BY <1>11 DEF CancelJob
<1>12. ASSUME NEW w \in Workers, NEW f \in Files, OpenFile(w, f)
      PROVE  WorkIsKnown'
  BY <1>12 DEF OpenFile, LockIsHeld, Owning
<1>13. ASSUME NEW w \in Workers, NEW f \in Files, LookUpFile(w, f)
      PROVE  WorkIsKnown'
  BY <1>13 DEF LookUpFile, Looked
<1>14. ASSUME NEW w \in Workers, NEW f \in Files, InsertDocument(w, f)
      PROVE  WorkIsKnown'
  BY <1>14 DEF InsertDocument
<1>15. ASSUME NEW w \in Workers, NEW f \in Files, MarkFile(w, f)
      PROVE  WorkIsKnown'
  BY <1>15 DEF MarkFile, Completed
<1>16. UNCHANGED vars => WorkIsKnown'
  BY DEF vars, sqlite, queue, procs
<1>17. ASSUME NEW w \in Workers, CancelDrain(w)
      PROVE  WorkIsKnown'
  BY <1>17 DEF CancelDrain, EndJob
<1>18. ASSUME NEW f \in Files, StrayLooksUp(f) \/ StrayInserts(f)
      PROVE  WorkIsKnown'
  BY <1>18 DEF StrayLooksUp, StrayInserts
<1> QED
  BY <1>1, <1>2, <1>3, <1>4, <1>5, <1>6, <1>7, <1>8, <1>9, <1>10, <1>11, <1>12, <1>13,
     <1>14, <1>15, <1>16, <1>17, <1>18, EachStep, Zenon

\* Inputs of unfinished files go only with a refusal.
LEMMA NextInputs ==
  ASSUME TypeOK, LockIsHeld, ManifestFirst, WorkIsKnown, InputsKept, [Next]_vars
  PROVE  InputsKept'
<1> USE DEF sqlite, queue, procs, Fault, Request, Reconcile, Worker, Thread, NoThreads,
   TypeOK, InputsKept, Unfinished
<1>1. RegisterBatch \/ EnqueueJob \/ MarkDischarged \/ RequestFails \/ CleanupReadBatch \/
   CleanupReadDispatch \/ CleanupRemoveFiles \/ CrashRequest => InputsKept'
  BY DEF RegisterBatch, EnqueueJob, Enqueued, MarkDischarged, RequestFails,
     CleanupReadBatch, CleanupReadDispatch, DispatchPending, CleanupRemoveFiles,
     CrashRequest
<1>2. PersistManifest => InputsKept'
  BY DEF PersistManifest, ManifestFirst
<1>3. CleanupFailBatch => InputsKept'
  BY DEF CleanupFailBatch
<1>4. ReconcileLock \/ ReconcileRepair \/ ReconcileEnqueue \/ ReconcileFails \/
   ReconcileMark \/ CrashReconciler \/ LoseRedis \/ MarkerExpires => InputsKept'
  BY DEF ReconcileLock, ReconcileRepair, ReconcileEnqueue, Enqueued, ReconcileFails,
     ReconcileMark, CrashReconciler, LoseRedis, MarkerExpires
<1>5. ASSUME NEW f \in Files, StageFile(f)
      PROVE  InputsKept'
  BY <1>5 DEF StageFile
<1>6. ASSUME NEW w \in Workers, TakeJob(w) \/ OwnBatch(w) \/ RetryLater(w)
      PROVE  InputsKept'
  BY <1>6 DEF TakeJob, OwnBatch, MayOwn, RetryLater
<1>7. ASSUME NEW w \in Workers, ReadBatch(w)
      PROVE  InputsKept'
  BY <1>7 DEF ReadBatch, AlreadyFinished, EndJob, TERMINAL_BATCH_STATES
<1>8. ASSUME NEW w \in Workers, ResumeBatch(w)
      PROVE  InputsKept'
  BY <1>8 DEF ResumeBatch, Resumable
<1>9. ASSUME NEW w \in Workers, FinalizeBatch(w)
      PROVE  InputsKept'
  BY <1>9 DEF FinalizeBatch, Outcome
<1>10. ASSUME NEW w \in Workers, CleanBatchFiles(w)
      PROVE  InputsKept'
  BY <1>10 DEF CleanBatchFiles, EndJob, LockIsHeld, WorkIsKnown, Owning
<1>11. ASSUME NEW w \in Workers, DrainJob(w) \/ CrashWorker(w)
      PROVE  InputsKept'
  BY <1>11 DEF DrainJob, EndJob, StagedAfterDrain, CrashWorker
<1>12. ASSUME NEW w \in Workers, CancelJob(w)
      PROVE  InputsKept'
  BY <1>12 DEF CancelJob, Waiting
<1>13. ASSUME NEW w \in Workers, NEW f \in Files, OpenFile(w, f)
      PROVE  InputsKept'
  BY <1>13 DEF OpenFile, Waiting
<1>14. ASSUME NEW w \in Workers, NEW f \in Files, LookUpFile(w, f)
      PROVE  InputsKept'
  BY <1>14 DEF LookUpFile, Looked
<1>15. ASSUME NEW w \in Workers, NEW f \in Files, InsertDocument(w, f)
      PROVE  InputsKept'
  BY <1>15 DEF InsertDocument
<1>16. ASSUME NEW w \in Workers, NEW f \in Files, MarkFile(w, f)
      PROVE  InputsKept'
  BY <1>16 DEF MarkFile, Completed
<1>17. UNCHANGED vars => InputsKept'
  BY DEF vars, sqlite, queue, procs
<1>18. ASSUME NEW w \in Workers, CancelDrain(w)
      PROVE  InputsKept'
  BY <1>18 DEF CancelDrain, EndJob
<1>19. ASSUME NEW f \in Files, StrayLooksUp(f) \/ StrayInserts(f)
      PROVE  InputsKept'
  BY <1>19 DEF StrayLooksUp, StrayInserts
<1> QED
  BY <1>1, <1>2, <1>3, <1>4, <1>5, <1>6, <1>7, <1>8, <1>9, <1>10, <1>11, <1>12, <1>13,
     <1>14, <1>15, <1>16, <1>17, <1>18, <1>19, EachStep, Zenon

-----------------------------------------------------------------------------
\* The invariant holds in every reachable state.
THEOREM Invariance == Spec => []IInv
<1>1. IInv /\ [Next]_vars => IInv'
  BY NextType, NextLock, NextBytes, NextManifest, NextWork, NextInputs DEF IInv
<1> QED
  BY InitInv, <1>1, PTL DEF Spec

\* Every variable stays in its type, for any files, workers and number of faults.
THEOREM TypeCorrect == Spec => []TypeOK
<1>1. IInv => TypeOK
  BY DEF IInv
<1> QED
  BY <1>1, Invariance, PTL

\* Two workers never index files of the batch at the same time, however often
\* Redis loses the job and the reconciler dispatches it again.
THEOREM OneIndexer == Spec => []OneWorkerAtATime
<1>1. IInv => OneWorkerAtATime
  BY DEF IInv, LockIsHeld, OneWorkerAtATime, Active, Indexing, Owning
<1> QED
  BY <1>1, Invariance, PTL

\* A file reported as completed has its bytes in the case, whatever crashes.
THEOREM CompletedTrue == Spec => []CompletedIsIndexed
<1>1. IInv => CompletedIsIndexed
  BY DEF IInv
<1> QED
  BY <1>1, Invariance, PTL

\* An accepted batch keeps the inputs of its unfinished files, whatever crashes,
\* is lost or is cleaned up.
THEOREM InputsSafe == Spec => []AcceptedKeepsInputs
<1>1. IInv => AcceptedKeepsInputs
  BY DEF IInv, InputsKept, AcceptedKeepsInputs
<1> QED
  BY <1>1, Invariance, PTL

-----------------------------------------------------------------------------
(* The outcome.  The batch is ended by the worker that holds its lock, after  *)
(* it has seen the end of every file; until the next worker has read that    *)
(* outcome nobody writes the status of a file, and that worker stops.  The   *)
(* request may fail the batch at any moment, which is why the batch can be   *)
(* failed while a worker is at its files.                                    *)

CompletedStates == {"completed", "completed_with_errors"}

AtWork == {"resuming", "indexing", "draining"}

WorkIsOpen ==
    \A w \in Workers : worker[w] \in AtWork =>
        /\ batch \notin CompletedStates
        /\ batch = "failed" => RequestFailedIt

RequestOpens ==
    /\ request = "start" => batch = "none"
    /\ request = "staging" => batch = "queued"

OutcomeInv == OutcomeIsTrue /\ WorkIsOpen /\ RequestOpens

LEMMA InitOutcome == Init => OutcomeInv
  BY DEF Init, OutcomeInv, OutcomeIsTrue, WorkIsOpen, RequestOpens, CompletedStates, AtWork

\* The files are as they were, the batch is not ended by this step, and a request
\* that has failed it has done so for good.
LEMMA FilesKept ==
  ASSUME OutcomeIsTrue, UNCHANGED file, RequestFailedIt => RequestFailedIt',
         batch' \in TERMINAL_BATCH_STATES => batch' = batch
  PROVE  OutcomeIsTrue'
  BY DEF OutcomeIsTrue, TERMINAL_BATCH_STATES

LEMMA NextOutcome ==
  ASSUME IInv, OutcomeInv, [Next]_vars
  PROVE  OutcomeInv'
<1> USE DEF sqlite, queue, procs, Fault, Request, Reconcile, Worker, Thread
<1>0. /\ worker \in [Workers -> {"idle", "starting", "owner", "resuming", "indexing", "cleaning",
                                 "draining"}]
      /\ OutcomeIsTrue /\ WorkIsOpen /\ RequestOpens
      /\ \A w \in Workers : request \in {"start", "staging"} => worker[w] = "idle"
  BY DEF IInv, TypeOK, OutcomeInv, ManifestFirst
\* Steps that leave the batch and its files alone and open no work.
<1>1. ASSUME UNCHANGED <<batch, file>>,
             \A w \in Workers : worker'[w] \in AtWork => worker[w] \in AtWork,
             RequestFailedIt => RequestFailedIt',
             request' \in {"start", "staging"} => request' = request
      PROVE  OutcomeInv'
  <2>1. OutcomeIsTrue'
    BY <1>0, <1>1, FilesKept
  <2> QED
    BY <1>0, <1>1, <2>1 DEF OutcomeInv, WorkIsOpen, RequestOpens
<1>2. EnqueueJob \/ MarkDischarged \/ RequestFails \/ CleanupReadBatch \/ CleanupReadDispatch
      \/ CleanupRemoveFiles \/ CrashRequest \/ ReconcileLock \/ ReconcileRepair
      \/ ReconcileEnqueue \/ ReconcileFails \/ ReconcileMark \/ CrashReconciler \/ LoseRedis
      \/ MarkerExpires => OutcomeInv'
  BY <1>1 DEF EnqueueJob, MarkDischarged, RequestFails, CleanupReadBatch, CleanupReadDispatch,
     CleanupRemoveFiles, CrashRequest, ReconcileLock, ReconcileRepair, ReconcileEnqueue,
     ReconcileFails, ReconcileMark, CrashReconciler, LoseRedis, MarkerExpires, RequestFailedIt
<1>3. ASSUME NEW f \in Files, StageFile(f) PROVE OutcomeInv'
  BY <1>1, <1>3 DEF StageFile, RequestFailedIt
<1>4. ASSUME NEW w \in Workers, TakeJob(w) \/ OwnBatch(w) \/ RetryLater(w) \/ CleanBatchFiles(w)
                                \/ CancelJob(w) \/ DrainJob(w) \/ CancelDrain(w) \/ CrashWorker(w)
      PROVE  OutcomeInv'
  BY <1>0, <1>1, <1>4 DEF TakeJob, OwnBatch, RetryLater, CleanBatchFiles, EndJob, CancelJob,
     DrainJob, CancelDrain, CrashWorker, AtWork, RequestFailedIt
<1>5. ASSUME NEW w \in Workers, NEW f \in Files, LookUpFile(w, f) \/ InsertDocument(w, f)
      PROVE  OutcomeInv'
  BY <1>1, <1>5 DEF LookUpFile, InsertDocument, RequestFailedIt
<1>6. ASSUME NEW f \in Files, StrayLooksUp(f) \/ StrayInserts(f)
      PROVE  OutcomeInv'
  BY <1>1, <1>6 DEF StrayLooksUp, StrayInserts, RequestFailedIt
\* Steps of the request that write the batch or its files.
<1>7. RegisterBatch \/ PersistManifest => OutcomeInv'
  BY <1>0 DEF RegisterBatch, PersistManifest, OutcomeInv, OutcomeIsTrue, WorkIsOpen,
     RequestOpens, CompletedStates, AtWork
<1>8. CleanupFailBatch => OutcomeInv'
  BY <1>0 DEF CleanupFailBatch, OutcomeInv, OutcomeIsTrue, WorkIsOpen, RequestOpens,
     CompletedStates, RequestFailedIt
\* A worker that reads the batch goes on only if it has not ended.
<1>9. ASSUME NEW w \in Workers, ReadBatch(w) PROVE OutcomeInv'
  <2>1. UNCHANGED <<batch, file, request>> /\ \A v \in Workers \ {w} : worker'[v] = worker[v]
    BY <1>0, <1>9 DEF ReadBatch, EndJob
  <2>2. worker'[w] = "idle" \/ batch \notin TERMINAL_BATCH_STATES
    BY <1>0, <1>9 DEF ReadBatch, EndJob, AlreadyFinished
  <2>3. OutcomeIsTrue' /\ RequestOpens'
    BY <1>0, <2>1, FilesKept DEF RequestOpens, RequestFailedIt
  <2> QED
    BY <1>0, <2>1, <2>2, <2>3 DEF OutcomeInv, WorkIsOpen, AtWork, RequestFailedIt,
       TERMINAL_BATCH_STATES, CompletedStates
<1>10. ASSUME NEW w \in Workers, ResumeBatch(w) PROVE OutcomeInv'
  BY <1>0, <1>10 DEF ResumeBatch, OutcomeInv, OutcomeIsTrue, WorkIsOpen, RequestOpens,
     CompletedStates
\* While a worker writes the status of a file the batch has not ended.
<1>11. ASSUME NEW w \in Workers, NEW f \in Files, OpenFile(w, f) \/ MarkFile(w, f)
       PROVE  OutcomeInv'
  <2>1. worker[w] \in {"indexing", "draining"}
    BY <1>11 DEF OpenFile, MarkFile, IInv, LockIsHeld
  <2>2. /\ UNCHANGED <<batch, request, worker>> /\ batch \notin CompletedStates
        /\ batch = "failed" => RequestFailedIt
    BY <1>0, <1>11, <2>1 DEF OpenFile, MarkFile, WorkIsOpen, AtWork
  <2> QED
    BY <1>0, <2>2 DEF OutcomeInv, OutcomeIsTrue, WorkIsOpen, RequestOpens, CompletedStates,
       RequestFailedIt
\* The outcome is computed from the files; no other worker has the lock.
<1>12. ASSUME NEW w \in Workers, FinalizeBatch(w) PROVE OutcomeInv'
  <2>1. UNCHANGED <<file, request>> /\ batch' = Outcome /\ worker'[w] = "cleaning"
        /\ \A v \in Workers \ {w} : worker'[v] = worker[v]
    BY <1>0, <1>12 DEF FinalizeBatch
  <2>2. /\ worker[w] = "indexing" /\ batch \notin CompletedStates
        /\ batch = "failed" => RequestFailedIt
    BY <1>0, <1>12 DEF FinalizeBatch, WorkIsOpen, AtWork
  <2>3. \A v \in Workers \ {w} : worker[v] \notin AtWork
    BY <2>2 DEF IInv, LockIsHeld, Owning, AtWork
  <2>4. batch' \in TERMINAL_BATCH_STATES /\ batch' # batch =>
          {f \in Files : file[f] = "completed"} \cup {f \in Files : file[f] = "failed"} = Files
    BY <2>1 DEF Outcome
  <2>5. OutcomeIsTrue'
    <3>1. batch' = batch => OutcomeIsTrue'
      BY <1>0, <2>1, <2>2 DEF OutcomeIsTrue, CompletedStates, RequestFailedIt
    <3>2. batch' # batch => OutcomeIsTrue'
      BY <2>1, <2>4 DEF Outcome, OutcomeIsTrue, TERMINAL_BATCH_STATES, Unfinished
    <3> QED
      BY <3>1, <3>2
  <2>6. RequestOpens'
    BY <1>0, <2>1, <2>2 DEF RequestOpens
  <2> QED
    BY <2>1, <2>3, <2>5, <2>6 DEF OutcomeInv, WorkIsOpen, AtWork
<1>13. UNCHANGED vars => OutcomeInv'
  BY <1>1 DEF vars, RequestFailedIt
<1> QED
  BY <1>2, <1>3, <1>4, <1>5, <1>6, <1>7, <1>8, <1>9, <1>10, <1>11, <1>12, <1>13, EachStep, Zenon

\* _batch_progress: what a finished batch reports agrees with its files, though
\* the outcome and the files are written in different transactions; a batch that
\* failed although a file was indexed was failed by its request.
THEOREM OutcomeTrue == Spec => []OutcomeIsTrue
<1>1. OutcomeInv => OutcomeIsTrue
  BY DEF OutcomeInv
<1>2. IInv /\ OutcomeInv /\ [Next]_vars => OutcomeInv'
  BY NextOutcome
<1> QED
  BY InitOutcome, Invariance, <1>1, <1>2, PTL DEF Spec

\* A batch that has ended keeps its outcome: the only steps that write it are the
\* registration, which is over, the failing request, and those of a worker that
\* is at the files, and none is there once a worker has ended it.
LEMMA EndStays ==
  ASSUME IInv, OutcomeInv, [Next]_vars,
         batch \in TERMINAL_BATCH_STATES, request # "failing", ~RequestFailedIt
  PROVE  UNCHANGED batch
<1> USE DEF sqlite, queue, procs, Fault, Request, Reconcile, Worker, Thread
<1>1. \A w \in Workers : worker[w] \notin AtWork
  BY DEF OutcomeInv, WorkIsOpen, TERMINAL_BATCH_STATES, CompletedStates
<1>2. request # "start"
  BY DEF OutcomeInv, RequestOpens, TERMINAL_BATCH_STATES
<1>3. RegisterBatch \/ PersistManifest \/ EnqueueJob \/ MarkDischarged \/ RequestFails
      \/ CleanupReadBatch \/ CleanupReadDispatch \/ CleanupFailBatch \/ CleanupRemoveFiles
      \/ CrashRequest => UNCHANGED batch
  BY <1>2 DEF RegisterBatch, PersistManifest, EnqueueJob, MarkDischarged, RequestFails,
     CleanupReadBatch, CleanupReadDispatch, CleanupFailBatch, CleanupRemoveFiles, CrashRequest
<1>4. ReconcileLock \/ ReconcileRepair \/ ReconcileEnqueue \/ ReconcileFails \/ ReconcileMark
      \/ CrashReconciler \/ LoseRedis \/ MarkerExpires => UNCHANGED batch
  BY DEF ReconcileLock, ReconcileRepair, ReconcileEnqueue, ReconcileFails, ReconcileMark,
     CrashReconciler, LoseRedis, MarkerExpires
<1>5. ASSUME NEW w \in Workers, TakeJob(w) \/ OwnBatch(w) \/ RetryLater(w) \/ ReadBatch(w)
                                \/ ResumeBatch(w) \/ FinalizeBatch(w) \/ CleanBatchFiles(w)
                                \/ CancelJob(w) \/ DrainJob(w) \/ CancelDrain(w) \/ CrashWorker(w)
      PROVE  UNCHANGED batch
  BY <1>1, <1>5 DEF TakeJob, OwnBatch, RetryLater, ReadBatch, ResumeBatch, FinalizeBatch, AtWork,
     CleanBatchFiles, CancelJob, DrainJob, CancelDrain, CrashWorker
<1>6. ASSUME NEW w \in Workers, NEW f \in Files,
             OpenFile(w, f) \/ LookUpFile(w, f) \/ InsertDocument(w, f) \/ MarkFile(w, f)
      PROVE  UNCHANGED batch
  BY <1>6 DEF OpenFile, LookUpFile, InsertDocument, MarkFile
<1>7. ASSUME NEW f \in Files, StageFile(f) \/ StrayLooksUp(f) \/ StrayInserts(f)
      PROVE  UNCHANGED batch
  BY <1>7 DEF StageFile, StrayLooksUp, StrayInserts
<1>8. UNCHANGED vars => UNCHANGED batch
  BY DEF vars
<1> QED
  BY <1>3, <1>4, <1>5, <1>6, <1>7, <1>8, EachStep, Zenon

\* _process_batch_import: a batch that has ended is not reopened by a job that is
\* delivered again, for any number of files, workers and faults.
THEOREM EndedOnce == Spec => EndIsFinal
<1>1. IInv /\ OutcomeInv /\ [Next]_vars =>
        [/\ batch \in TERMINAL_BATCH_STATES
         /\ request # "failing" /\ ~RequestFailedIt
         => UNCHANGED batch]_vars
  BY EndStays
<1>2. IInv /\ OutcomeInv /\ [Next]_vars => OutcomeInv'
  BY NextOutcome
<1> QED
  BY InitOutcome, Invariance, <1>1, <1>2, PTL DEF Spec, EndIsFinal
=============================================================================
