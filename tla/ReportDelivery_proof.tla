------------------------ MODULE ReportDelivery_proof ------------------------
(* Proofs about ReportDelivery, for every set of cases, reports, templates, *)
(* users and requests.                                                      *)
EXTENDS ReportDelivery, TLAPS

LEMMA InitType == Init => TypeOK
  BY CaseOfAssumption, BoundsAssumption
  DEF Init, TypeOK, ReportRow, NoReport, Statuses, Material, Revisions, Deleted,
      SubmissionType, Idle, ExportType, PreviewType, DeliveryRow, Snapshot, SnapshotOf

LEMMA StatusRow ==
  ASSUME NEW ids, NEW row \in ReportRow(ids), NEW s \in Statuses
  PROVE  [row EXCEPT !.status = s] \in ReportRow(ids)
  BY DEF ReportRow

LEMMA FrozenRow ==
  ASSUME NEW ids, NEW row \in ReportRow(ids), NEW n \in ids
  PROVE  [row EXCEPT !.status = "in_review", !.frozen = n] \in ReportRow(ids)
  BY DEF ReportRow, Statuses

LEMMA NextType == TypeOK /\ SubmissionInv /\ [Next]_vars => TypeOK'
<1> SUFFICES ASSUME TypeOK, SubmissionInv, [Next]_vars PROVE TypeOK'
  OBVIOUS
<1> USE CaseOfAssumption, BoundsAssumption
    DEF TypeOK, vars, dbVars, fileVars, subVars, history
<1>1. ASSUME NEW r \in Reports, NEW t \in Templates \cup {None}, CreateReport(r, t) PROVE TypeOK'
  <2>1. report' \in [Reports -> ReportRow(1 .. Len(versions))]
    BY <1>1 DEF CreateReport, ReportRow, Statuses, NoReport
  <2> QED
    BY <1>1, <2>1 DEF CreateReport
<1>2. ASSUME NEW r \in Reports, SubmitBegin(r) PROVE TypeOK'
  <2>1. submission' \in SubmissionType
    BY <1>2 DEF SubmitBegin, TakeWriterLock, SubmissionType
  <2> QED
    BY <1>2, <2>1 DEF SubmitBegin, TakeWriterLock
<1>3. ASSUME NEW r \in Reports, Return(r) PROVE TypeOK'
  <2>1. [report[r] EXCEPT !.status = "returned"] \in ReportRow(1 .. Len(versions))
    BY StatusRow DEF Statuses
  <2> QED
    BY <1>3, <2>1 DEF Return
<1>4. ASSUME NEW r \in Reports, Approve(r) PROVE TypeOK'
  <2>0. \A q \in Reports : report[q] \in ReportRow(1 .. Len(versions))
    OBVIOUS
  <2>1. [report[r] EXCEPT !.status = "approved", !.approved = report[r].frozen]
            \in ReportRow(1 .. Len(versions))
    BY <2>0 DEF ReportRow, Statuses
  <2>2. ASSUME NEW q \in Reports
        PROVE  [report[q] EXCEPT !.status = "voided", !.supersededBy = r]
                  \in ReportRow(1 .. Len(versions))
    BY <2>0 DEF ReportRow, Statuses
  <2>3. report[r].frozen \in 1 .. Len(versions)
    BY <1>4 DEF Approve, ReportRow
  <2> QED
    BY <1>4, <2>1, <2>2, <2>3 DEF Approve
<1>5. ASSUME NEW r \in Reports, Void(r) PROVE TypeOK'
  <2>1. [report[r] EXCEPT !.status = "voided"] \in ReportRow(1 .. Len(versions))
    BY StatusRow DEF Statuses
  <2> QED
    BY <1>5, <2>1 DEF Void
<1>6. CASE SubmitCollect
  <2> DEFINE r == submission.report
             t == report[r].template
  <2>1. r \in Reports
    BY <1>6 DEF SubmitCollect, SubmissionType, Idle
  <2>2. t \in Templates \cup {None}
    BY <2>1 DEF ReportRow
  <2>3. SourceOf(CaseOf[r], t) \in SourceType
    BY <1>6, <2>1, <2>2 DEF SubmitCollect, SourceOf, SourceType, Material, Deleted,
                            TemplateExists
  <2>4. submission' = [phase |-> "collected", report |-> r, template |-> t,
                       source |-> SourceOf(CaseOf[r], t)]
    BY <1>6 DEF SubmitCollect
  <2> HIDE DEF r, t
  <2>5. submission' \in SubmissionType
    BY <2>1, <2>2, <2>3, <2>4 DEF SubmissionType
  <2> QED
    BY <1>6, <2>5 DEF SubmitCollect
<1>7. CASE SubmitRender
  BY <1>7 DEF SubmitRender, SubmissionType, Idle, Material
<1>8. CASE SubmitRename
  <2>1. attempts \in 1 .. attempts
    BY <1>8 DEF SubmitRename, SubmissionInv, Idle
  <2> DEFINE open == [phase : {"rendered", "renamed"}, report : Reports,
                      template : Templates \cup {None}, source : SourceType,
                      sheet : Revisions]
  <2>2. submission \in open
    BY <1>8 DEF SubmitRename, SubmissionType, Idle
  <2>3. submission' \in open
    BY <1>8, <2>2 DEF SubmitRename
  <2>4. submission' \in SubmissionType
    BY <2>3 DEF SubmissionType
  <2> QED
    BY <1>8, <2>1, <2>4 DEF SubmitRename
<1>9. CASE SubmitCommit
  <2> DEFINE n == Len(versions) + 1
             s == submission
             row == [report |-> s.report, template |-> s.template, source |-> s.source,
                     sheet |-> s.sheet, dir |-> attempts]
  <2>1. s \in [phase : {"renamed"}, report : Reports, template : Templates \cup {None},
                source : SourceType, sheet : Revisions]
    BY <1>9 DEF SubmitCommit, BodyWritten, SubmissionType, Idle
  <2>2. row \in VersionRow
    BY <2>1, <1>9 DEF SubmitCommit, SubmissionInv, Idle, VersionRow
  <2>3. versions' \in Seq(VersionRow) /\ Len(versions') = n
    BY <2>2, <1>9 DEF SubmitCommit
  <2>4. 1 .. Len(versions) \subseteq 1 .. n /\ n \in 1 .. n
    OBVIOUS
  <2>5. ASSUME NEW q \in Reports PROVE report[q] \in ReportRow(1 .. n)
    BY <2>4 DEF ReportRow
  <2>6. [report[s.report] EXCEPT !.status = "in_review", !.frozen = n] \in ReportRow(1 .. n)
    BY <2>1, <2>4, <2>5, FrozenRow
  <2>7. report' \in [Reports -> ReportRow(1 .. n)]
    BY <2>1, <2>5, <2>6, <1>9 DEF SubmitCommit, NewVersionId
  <2>8. export' \in [Exports -> ExportType(1 .. n)]
    BY <2>4, <1>9 DEF SubmitCommit, ExportType
  <2>9. deliveries' \subseteq DeliveryRow(1 .. n)
    BY <2>4, <1>9 DEF SubmitCommit, DeliveryRow
  <2>10. lastApproved' \in [Cases -> (1 .. n) \cup {0}]
    BY <2>4, <1>9 DEF SubmitCommit
  <2>11. submission' \in SubmissionType
    BY <1>9 DEF SubmitCommit, SubmissionType
  <2> QED
    BY <1>9, <2>3, <2>7, <2>8, <2>9, <2>10, <2>11 DEF SubmitCommit, ReleaseWriterLock
<1>10. CASE SubmitFail
  BY <1>10 DEF SubmitFail, SubmissionType
<1>11. ASSUME NEW c \in Cases, UpdateDocument(c) PROVE TypeOK'
  BY <1>11 DEF UpdateDocument, ChangeMaterial, Remember, Material, Snapshot, SnapshotOf
<1>12. ASSUME NEW c \in Cases, UpdateEvidence(c) PROVE TypeOK'
  BY <1>12 DEF UpdateEvidence, ChangeMaterial, Remember, Material, Snapshot, SnapshotOf
<1>13. ASSUME NEW c \in Cases, CorrectPageText(c) PROVE TypeOK'
  BY <1>13 DEF CorrectPageText, ChangeMaterial, Remember, Material, Snapshot, SnapshotOf
<1>14. ASSUME NEW c \in Cases, ImportTransactions(c) PROVE TypeOK'
  BY <1>14 DEF ImportTransactions, ChangeMaterial, Remember, Material, Snapshot, SnapshotOf
<1>15. ASSUME NEW c \in Cases, NEW users \in SUBSET Users, SetExportRight(c, users) PROVE TypeOK'
  BY <1>15 DEF SetExportRight
<1>16. ASSUME NEW t \in Templates, UpdateTemplate(t) PROVE TypeOK'
  <2>1. templates' \in [Templates -> 0 .. Deleted]
    BY <1>16 DEF UpdateTemplate, Deleted
  <2>2. ASSUME NEW c \in Cases PROVE SnapshotOf(c)' \in Snapshot
    BY <1>16, <2>1 DEF UpdateTemplate, Material, Snapshot, SnapshotOf
  <2>3. seen' \in [Cases -> SUBSET Snapshot]
    BY <1>16, <2>2 DEF UpdateTemplate, Remember
  <2> QED
    BY <1>16, <2>1, <2>3 DEF UpdateTemplate
<1>17. ASSUME NEW t \in Templates, DeleteTemplate(t) PROVE TypeOK'
  <2>1. templates' \in [Templates -> 0 .. Deleted]
    BY <1>17 DEF DeleteTemplate, Deleted
  <2>a. ASSUME NEW c \in Cases PROVE SnapshotOf(c)' \in Snapshot
    BY <1>17, <2>1 DEF DeleteTemplate, Material, Snapshot, SnapshotOf
  <2>2. seen' \in [Cases -> SUBSET Snapshot]
    BY <1>17, <2>a DEF DeleteTemplate, Remember
  <2>3. ASSUME NEW q \in Reports
        PROVE  [report[q] EXCEPT !.template = None] \in ReportRow(1 .. Len(versions))
    <3>1. report[q] \in ReportRow(1 .. Len(versions))
      OBVIOUS
    <3> QED
      BY <3>1 DEF ReportRow
  <2> QED
    BY <1>17, <2>1, <2>2, <2>3 DEF DeleteTemplate
<1>18. ASSUME NEW x \in Exports, NEW u \in Users, NEW r \in Reports, ExportOpen(x, u, r) PROVE TypeOK'
  BY <1>18 DEF ExportOpen, ExportType, ReportRow
<1>19. ASSUME NEW x \in Exports, ExportVerify(x) PROVE TypeOK'
  <2>1. export[x] \in ExportType(1 .. Len(versions)) \ {Idle}
    BY <1>19 DEF ExportVerify, ExportType, Idle
  <2>2. [export[x] EXCEPT !.phase = "verified"] \in ExportType(1 .. Len(versions))
    BY <2>1 DEF ExportType
  <2>3. Idle \in ExportType(1 .. Len(versions))
    BY DEF ExportType
  <2> QED
    BY <1>19, <2>2, <2>3 DEF ExportVerify, Proceed
<1>20. ASSUME NEW x \in Exports, ExportAssemble(x) PROVE TypeOK'
  <2>1. export[x] \in ExportType(1 .. Len(versions)) \ {Idle}
    BY <1>20 DEF ExportAssemble, ExportType, Idle
  <2>2. [export[x] EXCEPT !.phase = "assembled"] \in ExportType(1 .. Len(versions))
    BY <2>1 DEF ExportType
  <2>3. Idle \in ExportType(1 .. Len(versions))
    BY DEF ExportType
  <2> QED
    BY <1>20, <2>2, <2>3 DEF ExportAssemble, Proceed
<1>21. ASSUME NEW x \in Exports, RegisterDelivery(x) PROVE TypeOK'
  <2> DEFINE ids == 1 .. Len(versions)
             c == CaseOf[export[x].report]
             v == export[x].version
  <2>1. /\ export[x].report \in Reports /\ c \in Cases
        /\ v \in ids /\ versions[v] \in VersionRow
    <3>1. export[x] \in ExportType(ids) /\ export[x].phase = "assembled"
      BY <1>21 DEF RegisterDelivery
    <3>2. export[x] # Idle
      BY <3>1 DEF Idle
    <3>3. export[x].report \in Reports /\ v \in ids
      BY <3>1, <3>2 DEF ExportType
    <3>4. c \in Cases
      BY <3>3
    <3>5. versions[v] \in VersionRow
      BY <3>3
    <3> QED
      BY <3>3, <3>4, <3>5
  <2>2. SourceOf(c, versions[v].template) \in SourceType
    BY <2>1, <1>21 DEF RegisterDelivery, RegisterAllowed, VersionRow
  <2>3. live[c].sheet \in Revisions
    BY <2>1 DEF Material
  <2> DEFINE d == [report |-> export[x].report, version |-> v, latest |-> lastApproved[c],
                   source |-> SourceOf(c, versions[v].template), sheet |-> live[c].sheet,
                   entitled |-> export[x].user \in mayExport[c]]
  <2>a. d \in DeliveryRow(ids)
    BY <2>1, <2>2, <2>3 DEF DeliveryRow
  <2>4. deliveries' \subseteq DeliveryRow(ids)
    BY <1>21, <2>a DEF RegisterDelivery
  <2>5. Idle \in ExportType(ids)
    BY DEF ExportType
  <2> QED
    BY <1>21, <2>4, <2>5 DEF RegisterDelivery
<1>22. ASSUME NEW x \in Exports, RefuseDelivery(x) PROVE TypeOK'
  BY <1>22 DEF RefuseDelivery, ExportType
<1>23. ASSUME NEW p \in Previews, NEW c \in Cases, PreviewDocuments(p, c) PROVE TypeOK'
  BY <1>23 DEF PreviewDocuments, PreviewType, Material
<1>24. ASSUME NEW p \in Previews, PreviewEvidence(p) PROVE TypeOK'
  BY <1>24 DEF PreviewEvidence, PreviewType, Idle, Material
<1>25. ASSUME NEW p \in Previews, PreviewWrite(p) PROVE TypeOK'
  <2>1. preview[p] \in [phase : {"evidence"}, case : Cases, docs : Revisions,
                        evidence : Revisions]
    BY <1>25 DEF PreviewWrite, PreviewType, Idle
  <2>2. [preview[p] EXCEPT !.phase = "done"] \in PreviewType
    BY <2>1 DEF PreviewType
  <2> QED
    BY <1>25, <2>2 DEF PreviewWrite
<1>26. ASSUME NEW p \in Previews, PreviewGiveUp(p) PROVE TypeOK'
  BY <1>26 DEF PreviewGiveUp, PreviewType
<1>27. CASE Crash
  BY <1>27 DEF Crash, SubmissionType, ExportType, PreviewType
<1>28. ASSUME NEW d \in dirs, DamageFiles(d) PROVE TypeOK'
  BY <1>28 DEF DamageFiles
<1>29. CASE UNCHANGED vars
  BY <1>29
<1> QED
  BY <1>1, <1>2, <1>3, <1>4, <1>5, <1>6, <1>7, <1>8, <1>9, <1>10, <1>11, <1>12, <1>13, <1>14, <1>15, <1>16, <1>17, <1>18, <1>19, <1>20, <1>21, <1>22, <1>23, <1>24, <1>25, <1>26, <1>27, <1>28, <1>29
  DEF Next, SubmitStep, ExportStep, PreviewStep

-----------------------------------------------------------------------------
(* Which steps change which variables                                      *)

LEMMA VersionsFrame == [Next]_vars => SubmitCommit \/ UNCHANGED versions
  BY DEF Next, vars, dbVars, CreateReport, SubmitBegin, Return, Approve, Void, SubmitStep,
         SubmitCollect, SubmitRender, SubmitRename, SubmitFail, UpdateDocument,
         UpdateEvidence, CorrectPageText, ImportTransactions, ChangeMaterial,
         SetExportRight, UpdateTemplate, DeleteTemplate, ExportOpen, ExportStep,
         ExportVerify, ExportAssemble, RegisterDelivery, RefuseDelivery,
         PreviewDocuments, PreviewStep, PreviewEvidence, PreviewWrite, PreviewGiveUp,
         Crash, DamageFiles

LEMMA MaterialFrame == [Next]_vars => Remember \/ UNCHANGED <<live, templates, seen>>
  BY DEF Next, vars, dbVars, history, CreateReport, SubmitBegin, Return, Approve, Void,
         SubmitStep, SubmitCollect, SubmitRender, SubmitRename, SubmitCommit, SubmitFail,
         UpdateDocument, UpdateEvidence, CorrectPageText, ImportTransactions,
         ChangeMaterial, SetExportRight, UpdateTemplate, DeleteTemplate, ExportOpen,
         ExportStep, ExportVerify, ExportAssemble, RegisterDelivery, RefuseDelivery,
         PreviewDocuments, PreviewStep, PreviewEvidence, PreviewWrite, PreviewGiveUp,
         Crash, DamageFiles

LEMMA DeliveriesFrame ==
  [Next]_vars => (\E x \in Exports : RegisterDelivery(x)) \/ UNCHANGED deliveries
  BY DEF Next, vars, history, CreateReport, SubmitBegin, Return, Approve, Void,
         SubmitStep, SubmitCollect, SubmitRender, SubmitRename, SubmitCommit, SubmitFail,
         UpdateDocument, UpdateEvidence, CorrectPageText, ImportTransactions,
         ChangeMaterial, SetExportRight, UpdateTemplate, DeleteTemplate, ExportOpen,
         ExportStep, ExportVerify, ExportAssemble, RefuseDelivery, PreviewDocuments,
         PreviewStep, PreviewEvidence, PreviewWrite, PreviewGiveUp, Crash, DamageFiles

LEMMA DirsGrow == [Next]_vars => dirs \subseteq dirs'
  BY DEF Next, vars, fileVars, CreateReport, SubmitBegin, Return, Approve, Void,
         SubmitStep, SubmitCollect, SubmitRender, SubmitRename, SubmitCommit, SubmitFail,
         UpdateDocument, UpdateEvidence, CorrectPageText, ImportTransactions,
         ChangeMaterial, SetExportRight, UpdateTemplate, DeleteTemplate, ExportOpen,
         ExportStep, ExportVerify, ExportAssemble, RegisterDelivery, RefuseDelivery,
         PreviewDocuments, PreviewStep, PreviewEvidence, PreviewWrite, PreviewGiveUp,
         Crash, DamageFiles

\* The report workflow as the other lemmas need it: who changes a report row or
\* the history of approvals.
LEMMA ReportFrame ==
  [Next]_vars =>
    \/ UNCHANGED <<report, lastApproved>>
    \/ \E r \in Reports, t \in Templates \cup {None} : CreateReport(r, t)
    \/ \E r \in Reports : Return(r) \/ Approve(r) \/ Void(r)
    \/ SubmitCommit
    \/ \E t \in Templates : DeleteTemplate(t)
  BY DEF Next, vars, dbVars, history, SubmitBegin, SubmitStep, SubmitCollect,
         SubmitRender, SubmitRename, SubmitFail, UpdateDocument, UpdateEvidence,
         CorrectPageText, ImportTransactions, ChangeMaterial, SetExportRight,
         UpdateTemplate, ExportOpen, ExportStep, ExportVerify, ExportAssemble,
         RegisterDelivery, RefuseDelivery, PreviewDocuments, PreviewStep,
         PreviewEvidence, PreviewWrite, PreviewGiveUp, Crash, DamageFiles

\* A step of another transaction finds the writer lock free and leaves it free;
\* a read or a file event touches nothing a submission has read.
LEMMA LockFrame ==
  [Next]_vars =>
    \/ SubmitStep
    \/ \E r \in Reports : SubmitBegin(r)
    \/ writer = "free" /\ UNCHANGED <<writer, submission>>
    \/ UNCHANGED <<writer, submission, attempts, report, live, templates, dirs>>
    \/ writer' = "free" /\ submission' = Idle
  BY DEF Next, vars, dbVars, fileVars, subVars, history, CreateReport, Return, Approve,
         Void, UpdateDocument, UpdateEvidence, CorrectPageText, ImportTransactions,
         ChangeMaterial, SetExportRight, UpdateTemplate, DeleteTemplate, ExportOpen,
         ExportStep, ExportVerify, ExportAssemble, RegisterDelivery, RefuseDelivery,
         PreviewDocuments, PreviewStep, PreviewEvidence, PreviewWrite, PreviewGiveUp,
         Crash, DamageFiles

-----------------------------------------------------------------------------
(* The parts of the inductive invariant                                    *)

LEMMA NextSubmission == TypeOK /\ SubmissionInv /\ [Next]_vars => SubmissionInv'
<1> SUFFICES ASSUME TypeOK, SubmissionInv, [Next]_vars PROVE SubmissionInv'
  OBVIOUS
<1>1. ASSUME NEW r \in Reports, SubmitBegin(r) PROVE SubmissionInv'
  BY <1>1 DEF SubmitBegin, TakeWriterLock, CanSubmit, SubmissionInv, Idle, TypeOK, dbVars, fileVars
<1>2. CASE SubmitCollect
  <2>1. submission' # Idle /\ submission'.phase = "collected"
    BY <1>2 DEF SubmitCollect, Idle
  <2> QED
    BY <1>2, <2>1 DEF SubmitCollect, SubmissionInv, Idle, dbVars, fileVars, SourceOf
<1>3. CASE SubmitRender
  <2>1. submission' # Idle /\ submission'.phase = "rendered"
    BY <1>3 DEF SubmitRender, Idle
  <2> QED
    BY <1>3, <2>1 DEF SubmitRender, SubmissionInv, Idle, dbVars, fileVars, SourceOf
<1>4. CASE SubmitRename
  <2> DEFINE open == [phase : {"rendered", "renamed"}, report : Reports,
                      template : Templates \cup {None}, source : SourceType,
                      sheet : Revisions]
  <2>1. submission \in open
    BY <1>4 DEF SubmitRename, TypeOK, SubmissionType, Idle
  <2>2. submission' \in open /\ submission'.phase = "renamed" /\ submission' # Idle
    BY <1>4, <2>1 DEF SubmitRename, Idle
  <2>3. /\ submission'.report = submission.report
        /\ submission'.template = submission.template
        /\ submission'.source = submission.source
        /\ submission'.sheet = submission.sheet
    BY <1>4, <2>1 DEF SubmitRename
  <2> QED
    BY <1>4, <2>2, <2>3 DEF SubmitRename, SubmissionInv, Idle, dbVars, SourceOf
<1>5. CASE SubmitCommit
  BY <1>5 DEF SubmitCommit, ReleaseWriterLock, SubmissionInv, Idle
<1>6. CASE SubmitFail
  BY <1>6 DEF SubmitFail, SubmissionInv, Idle
<1>7. CASE writer = "free" /\ UNCHANGED <<writer, submission>>
  BY <1>7 DEF SubmissionInv, Idle
<1>8. CASE UNCHANGED <<writer, submission, attempts, report, live, templates, dirs>>
  BY <1>8 DEF SubmissionInv, SourceOf
<1>9. CASE writer' = "free" /\ submission' = Idle
  BY <1>9 DEF SubmissionInv, Idle
<1> QED
  BY <1>1, <1>2, <1>3, <1>4, <1>5, <1>6, <1>7, <1>8, <1>9, LockFrame DEF SubmitStep

LEMMA NextLiveIsSeen == TypeOK /\ LiveIsSeen /\ [Next]_vars => LiveIsSeen'
  BY MaterialFrame DEF LiveIsSeen, Remember, SnapshotOf

LEMMA SeenGrows ==
  TypeOK /\ [Next]_vars => \A c \in Cases : seen[c] \subseteq seen'[c]
  BY MaterialFrame DEF Remember, TypeOK

LEMMA SubmittedIsSeen ==
  ASSUME TypeOK, SubmissionInv, LiveIsSeen, submission.phase = "renamed"
  PROVE  \E m \in seen[CaseOf[submission.report]] :
            /\ submission.source.docs = m.docs
            /\ submission.source.evidence = m.evidence
            /\ submission.template # None =>
                  submission.source.revision = m.templates[submission.template]
            /\ submission.sheet = m.sheet
<1> DEFINE c == CaseOf[submission.report]
<1>1. submission.report \in Reports /\ c \in Cases
  BY CaseOfAssumption DEF TypeOK, SubmissionType, Idle
<1>2. submission.source = SourceOf(c, submission.template) /\ submission.sheet = live[c].sheet
  BY DEF SubmissionInv
<1>3. SnapshotOf(c) \in seen[c]
  BY <1>1 DEF LiveIsSeen
<1> QED
  BY <1>2, <1>3 DEF SnapshotOf, SourceOf

LEMMA NextSnapshot ==
  TypeOK /\ SubmissionInv /\ LiveIsSeen /\ VersionIsOneSnapshot /\ [Next]_vars
    => VersionIsOneSnapshot'
<1> SUFFICES ASSUME TypeOK, SubmissionInv, LiveIsSeen, VersionIsOneSnapshot, [Next]_vars
             PROVE  VersionIsOneSnapshot'
  OBVIOUS
<1>1. CASE UNCHANGED versions
  <2>1. ASSUME NEW i \in DOMAIN versions PROVE CaseOf[versions[i].report] \in Cases
    <3>1. versions[i] \in VersionRow
      BY DEF TypeOK
    <3> QED
      BY <3>1, CaseOfAssumption DEF VersionRow
  <2> QED
    BY <1>1, <2>1, SeenGrows DEF VersionIsOneSnapshot
<1>2. CASE SubmitCommit
  <2> DEFINE n == Len(versions) + 1
  <2>1. /\ submission.phase = "renamed" /\ seen' = seen
        /\ versions' = Append(versions,
              [report |-> submission.report, template |-> submission.template,
               source |-> submission.source, sheet |-> submission.sheet, dir |-> attempts])
    BY <1>2 DEF SubmitCommit, BodyWritten, history
  <2>2. /\ DOMAIN versions' = 1 .. n
        /\ DOMAIN versions = 1 .. Len(versions)
        /\ \A i \in 1 .. Len(versions) : versions'[i] = versions[i]
        /\ versions'[n] = [report |-> submission.report, template |-> submission.template,
              source |-> submission.source, sheet |-> submission.sheet, dir |-> attempts]
    BY <2>1 DEF TypeOK
  <2>3. ASSUME NEW i \in 1 .. n
        PROVE  \E m \in seen'[CaseOf[versions'[i].report]] :
                  /\ versions'[i].source.docs = m.docs
                  /\ versions'[i].source.evidence = m.evidence
                  /\ versions'[i].template # None =>
                        versions'[i].source.revision = m.templates[versions'[i].template]
                  /\ versions'[i].sheet = m.sheet
    <3>1. CASE i = n
      BY <2>1, <2>2, <3>1, SubmittedIsSeen
    <3>2. CASE i \in DOMAIN versions
      BY <2>1, <2>2, <3>2 DEF VersionIsOneSnapshot
    <3> QED
      BY <2>2, <3>1, <3>2 DEF TypeOK
  <2> QED
    BY <2>2, <2>3 DEF VersionIsOneSnapshot
<1> QED
  BY <1>1, <1>2, VersionsFrame

LEMMA NextFiles ==
  TypeOK /\ SubmissionInv /\ FrozenRowsHaveFiles /\ [Next]_vars => FrozenRowsHaveFiles'
<1> SUFFICES ASSUME TypeOK, SubmissionInv, FrozenRowsHaveFiles, [Next]_vars
             PROVE  FrozenRowsHaveFiles'
  OBVIOUS
<1>1. CASE UNCHANGED versions
  BY <1>1, DirsGrow DEF FrozenRowsHaveFiles
<1>2. CASE SubmitCommit
  BY <1>2 DEF SubmitCommit, BodyWritten, SubmissionInv, FrozenRowsHaveFiles, TypeOK, fileVars
<1> QED
  BY <1>1, <1>2, VersionsFrame

LEMMA VersionsAppended ==
  ASSUME TypeOK, SubmitCommit
  PROVE  /\ Len(versions) + 1 \in DOMAIN versions'
         /\ versions'[Len(versions) + 1].report = submission.report
         /\ \A i \in DOMAIN versions : i \in DOMAIN versions' /\ versions'[i] = versions[i]
  BY DEF SubmitCommit, TypeOK

LEMMA NextReview ==
  TypeOK /\ SubmissionInv /\ ReviewBoundToFrozenBody /\ [Next]_vars
    => ReviewBoundToFrozenBody'
<1> SUFFICES ASSUME TypeOK, SubmissionInv, ReviewBoundToFrozenBody, [Next]_vars
             PROVE  ReviewBoundToFrozenBody'
  OBVIOUS
<1>1. CASE SubmitCommit
  <2> DEFINE s == submission
  <2>1. s.report \in Reports
    BY <1>1 DEF SubmitCommit, BodyWritten, TypeOK, SubmissionType, Idle
  <2>2. /\ report'[s.report].status = "in_review"
        /\ report'[s.report].frozen = Len(versions) + 1
        /\ \A q \in Reports : q # s.report => report'[q] = report[q]
    BY <1>1, <2>1 DEF SubmitCommit, NewVersionId, TypeOK, ReportRow
  <2> QED
    BY <1>1, <2>1, <2>2, VersionsAppended DEF ReviewBoundToFrozenBody
<1>2. ASSUME NEW r \in Reports, NEW t \in Templates \cup {None}, CreateReport(r, t),
             UNCHANGED versions
      PROVE  ReviewBoundToFrozenBody'
  BY <1>2 DEF CreateReport, NoReport, ReviewBoundToFrozenBody, TypeOK, ReportRow
<1>3. ASSUME NEW r \in Reports, Return(r) \/ Void(r), UNCHANGED versions
      PROVE  ReviewBoundToFrozenBody'
  BY <1>3 DEF Return, Void, ReviewBoundToFrozenBody, TypeOK, ReportRow
<1>4. ASSUME NEW r \in Reports, Approve(r), UNCHANGED versions
      PROVE  ReviewBoundToFrozenBody'
  <2>1. /\ report[r].status = "in_review"
        /\ report'[r].frozen = report[r].frozen /\ report'[r].approved = report[r].frozen
    BY <1>4 DEF Approve, TypeOK, ReportRow
  <2>2. ASSUME NEW q \in Reports, q # r
        PROVE  report'[q] = report[q] \/ report'[q].status = "voided"
    BY <1>4, <2>2 DEF Approve, TypeOK, ReportRow
  <2> QED
    BY <1>4, <2>1, <2>2 DEF ReviewBoundToFrozenBody
<1>5. ASSUME NEW t \in Templates, DeleteTemplate(t), UNCHANGED versions
      PROVE  ReviewBoundToFrozenBody'
  BY <1>5 DEF DeleteTemplate, ReviewBoundToFrozenBody, TypeOK, ReportRow
<1>6. CASE UNCHANGED <<report, versions>>
  BY <1>6 DEF ReviewBoundToFrozenBody
<1> QED
  BY <1>1, <1>2, <1>3, <1>4, <1>5, <1>6, VersionsFrame, ReportFrame

LEMMA NextApprovedIsLast ==
  TypeOK /\ SubmissionInv /\ ApprovedIsLast /\ [Next]_vars => ApprovedIsLast'
<1> SUFFICES ASSUME TypeOK, SubmissionInv, ApprovedIsLast, [Next]_vars
             PROVE  ApprovedIsLast'
  OBVIOUS
<1>1. CASE SubmitCommit
  <2>1. submission.report \in Reports
    BY <1>1 DEF SubmitCommit, BodyWritten, TypeOK, SubmissionType, Idle
  <2> QED
    BY <1>1, <2>1 DEF SubmitCommit, history, ApprovedIsLast, TypeOK, ReportRow
<1>2. ASSUME NEW r \in Reports, NEW t \in Templates \cup {None}, CreateReport(r, t)
      PROVE  ApprovedIsLast'
  BY <1>2 DEF CreateReport, NoReport, history, ApprovedIsLast, TypeOK, ReportRow
<1>3. ASSUME NEW r \in Reports, Return(r) \/ Void(r) PROVE ApprovedIsLast'
  BY <1>3 DEF Return, Void, history, ApprovedIsLast, TypeOK, ReportRow
<1>4. ASSUME NEW r \in Reports, Approve(r) PROVE ApprovedIsLast'
  <2> DEFINE ids == 1 .. Len(versions)
  <2>1. report \in [Reports -> ReportRow(ids)] /\ lastApproved \in [Cases -> ids \cup {0}]
    BY DEF TypeOK
  <2> HIDE DEF ids
  <2>2. lastApproved'[CaseOf[r]] = report[r].frozen
    BY <1>4, <2>1, CaseOfAssumption DEF Approve
  <2>3. report'[r].approved = report[r].frozen
    <3>1. report'[r] = [report[r] EXCEPT !.status = "approved", !.approved = report[r].frozen]
      BY <1>4, <2>1 DEF Approve
    <3>2. report[r] \in ReportRow(ids)
      BY <2>1
    <3> QED
      BY <3>1, <3>2 DEF ReportRow
  <2>4. ASSUME NEW q \in Reports, q # r, report'[q].status = "approved"
        PROVE  report'[q].approved = lastApproved'[CaseOf[q]]
    <3>1. CASE Supersedes(r, q)
      <4>1. report'[q] = [report[q] EXCEPT !.status = "voided", !.supersededBy = r]
        BY <1>4, <2>4, <3>1 DEF Approve
      <4>2. report[q] \in ReportRow(ids)
        BY <2>1
      <4>3. report'[q].status = "voided"
        BY <4>1, <4>2 DEF ReportRow
      <4> QED
        BY <2>4, <4>3
    <3>2. CASE ~Supersedes(r, q)
      <4>1. report'[q] = report[q]
        BY <1>4, <2>4, <3>2 DEF Approve
      <4>2. CaseOf[q] # CaseOf[r]
        BY <2>4, <3>2, <4>1 DEF Supersedes
      <4>3. lastApproved'[CaseOf[q]] = lastApproved[CaseOf[q]]
        BY <1>4, <2>1, <4>2, CaseOfAssumption DEF Approve
      <4> QED
        BY <2>4, <4>1, <4>3 DEF ApprovedIsLast
    <3> QED
      BY <3>1, <3>2
  <2> QED
    BY <2>2, <2>3, <2>4 DEF ApprovedIsLast
<1>5. ASSUME NEW t \in Templates, DeleteTemplate(t) PROVE ApprovedIsLast'
  BY <1>5 DEF DeleteTemplate, ApprovedIsLast, TypeOK, ReportRow
<1>6. CASE UNCHANGED <<report, lastApproved>>
  BY <1>6 DEF ApprovedIsLast
<1> QED
  BY <1>1, <1>2, <1>3, <1>4, <1>5, <1>6, ReportFrame

LEMMA NextNotCreated ==
  TypeOK /\ SubmissionInv /\ NotCreatedYet /\ [Next]_vars => NotCreatedYet'
<1> SUFFICES ASSUME TypeOK, SubmissionInv, NotCreatedYet, [Next]_vars
             PROVE  NotCreatedYet'
  OBVIOUS
<1> USE DEF NotCreatedYet, TypeOK, ReportRow
<1>1. CASE SubmitCommit
  <2>1. submission.report \in Reports
    BY <1>1 DEF SubmitCommit, BodyWritten, SubmissionType, Idle
  <2> QED
    BY <1>1, <2>1 DEF SubmitCommit
<1>2. ASSUME NEW r \in Reports, NEW t \in Templates \cup {None}, CreateReport(r, t)
      PROVE  NotCreatedYet'
  BY <1>2 DEF CreateReport, NoReport
<1>3. ASSUME NEW r \in Reports, Return(r) \/ Void(r) PROVE NotCreatedYet'
  BY <1>3 DEF Return, Void
<1>4. ASSUME NEW r \in Reports, Approve(r) PROVE NotCreatedYet'
  BY <1>4 DEF Approve, Supersedes
<1>5. ASSUME NEW t \in Templates, DeleteTemplate(t) PROVE NotCreatedYet'
  BY <1>5, NoneAssumption DEF DeleteTemplate, NoReport
<1>6. CASE UNCHANGED report
  BY <1>6
<1> QED
  BY <1>1, <1>2, <1>3, <1>4, <1>5, <1>6, ReportFrame

LEMMA NextSuperseded ==
  TypeOK /\ SubmissionInv /\ NotCreatedYet /\ SupersededInOwnCase /\ [Next]_vars
    => SupersededInOwnCase'
<1> SUFFICES ASSUME TypeOK, SubmissionInv, NotCreatedYet, SupersededInOwnCase, [Next]_vars
             PROVE  SupersededInOwnCase'
  OBVIOUS
<1> USE NoneAssumption DEF SupersededInOwnCase, TypeOK, ReportRow
<1>1. CASE SubmitCommit
  <2>1. /\ submission.report \in Reports
        /\ report[submission.report].status \in {"draft", "returned"}
    BY <1>1 DEF SubmitCommit, BodyWritten, SubmissionType, Idle, SubmissionInv
  <2> QED
    BY <1>1, <2>1 DEF SubmitCommit
<1>2. ASSUME NEW r \in Reports, NEW t \in Templates \cup {None}, CreateReport(r, t)
      PROVE  SupersededInOwnCase'
  <2>1. /\ report'[r].supersededBy = None /\ report[r].approved = 0
        /\ \A q \in Reports : q # r => report'[q] = report[q]
    BY <1>2 DEF CreateReport, NoReport, NotCreatedYet
  <2> QED
    BY <2>1
<1>3. ASSUME NEW r \in Reports, Return(r) \/ Void(r) PROVE SupersededInOwnCase'
  <2>1. /\ report[r].status # "voided"
        /\ report'[r].supersededBy = report[r].supersededBy
        /\ report'[r].approved = report[r].approved
        /\ \A q \in Reports : q # r => report'[q] = report[q]
    BY <1>3 DEF Return, Void
  <2> QED
    BY <2>1
<1>4. ASSUME NEW r \in Reports, Approve(r) PROVE SupersededInOwnCase'
  <2>1. /\ report[r].status # "voided"
        /\ report'[r].supersededBy = report[r].supersededBy
        /\ report'[r].approved # 0
    <3>1. report'[r] = [report[r] EXCEPT !.status = "approved", !.approved = report[r].frozen]
      BY <1>4 DEF Approve
    <3>2. report[r].frozen # 0 /\ report[r].status = "in_review"
      BY <1>4 DEF Approve
    <3> QED
      BY <3>1, <3>2
  <2>2. ASSUME NEW q \in Reports, q # r
        PROVE  /\ report'[q].approved = report[q].approved
               /\ \/ report'[q] = report[q]
                  \/ /\ CaseOf[q] = CaseOf[r] /\ report'[q].status = "voided"
                     /\ report'[q].supersededBy = r
    <3>1. \/ report'[q] = report[q]
          \/ /\ CaseOf[q] = CaseOf[r]
             /\ report'[q] = [report[q] EXCEPT !.status = "voided", !.supersededBy = r]
      BY <1>4, <2>2 DEF Approve, Supersedes
    <3>2. CASE report'[q] = report[q]
      BY <3>2
    <3>3. CASE /\ CaseOf[q] = CaseOf[r]
               /\ report'[q] = [report[q] EXCEPT !.status = "voided", !.supersededBy = r]
      <4>1. report[q] \in ReportRow(1 .. Len(versions))
        OBVIOUS
      <4>2. /\ report'[q].approved = report[q].approved
            /\ report'[q].status = "voided" /\ report'[q].supersededBy = r
        BY <3>3, <4>1
      <4> QED
        BY <3>3, <4>2
    <3> QED
      BY <3>1, <3>2, <3>3
  <2>3. ASSUME NEW q \in Reports, NEW s \in Reports, report'[q].supersededBy = s
        PROVE  /\ CaseOf[q] = CaseOf[s] /\ report'[q].status = "voided"
               /\ report'[s].approved # 0
    <3>1. CASE q = r
      BY <2>1, <2>3, <3>1
    <3>2. CASE q # r /\ report'[q] = report[q]
      BY <2>1, <2>2, <2>3, <3>2
    <3>3. CASE q # r /\ report'[q] # report[q]
      BY <2>1, <2>2, <2>3, <3>3
    <3> QED
      BY <3>1, <3>2, <3>3
  <2> QED
    BY <2>3
<1>5. ASSUME NEW t \in Templates, DeleteTemplate(t) PROVE SupersededInOwnCase'
  BY <1>5 DEF DeleteTemplate
<1>6. CASE UNCHANGED report
  BY <1>6
<1> QED
  BY <1>1, <1>2, <1>3, <1>4, <1>5, <1>6, ReportFrame

LEMMA NextDeliveries ==
  ASSUME TypeOK, ApprovedIsLast, DeliveryMatchesLiveCase, DeliveryIsLatestApproval,
         [Next]_vars
  PROVE  DeliveryMatchesLiveCase' /\ DeliveryIsLatestApproval'
<1>1. ASSUME NEW d \in deliveries
      PROVE  versions'[d.version] = versions[d.version]
  <2>1. d.version \in DOMAIN versions
    BY DEF TypeOK, DeliveryRow
  <2> QED
    BY <2>1, VersionsFrame, VersionsAppended
<1>2. CASE UNCHANGED deliveries
  BY <1>1, <1>2 DEF DeliveryMatchesLiveCase, DeliveryIsLatestApproval
<1>3. ASSUME NEW x \in Exports, RegisterDelivery(x)
      PROVE  DeliveryMatchesLiveCase' /\ DeliveryIsLatestApproval'
  <2>1. export[x].report \in Reports
    BY <1>3 DEF RegisterDelivery, TypeOK, ExportType, Idle
  <2>2. versions' = versions
    BY <1>3 DEF RegisterDelivery, dbVars
  <2> DEFINE v == export[x].version
             row == [report |-> export[x].report, version |-> v,
                     latest |-> lastApproved[CaseOf[export[x].report]],
                     source |-> SourceOf(CaseOf[export[x].report], versions[v].template),
                     sheet |-> live[CaseOf[export[x].report]].sheet,
                     entitled |-> export[x].user \in mayExport[CaseOf[export[x].report]]]
  <2>a. deliveries' = deliveries \cup {row} /\ RegisterAllowed(x)
    BY <1>3 DEF RegisterDelivery
  <2>b. versions[row.version].source = row.source /\ versions[row.version].sheet = row.sheet
    BY <2>a DEF RegisterAllowed
  <2>c. row.version = row.latest
    BY <2>a, <2>1 DEF RegisterAllowed, ApprovedIsLast
  <2> HIDE DEF row
  <2>3. DeliveryMatchesLiveCase'
    BY <2>a, <2>b, <2>2 DEF DeliveryMatchesLiveCase
  <2>4. DeliveryIsLatestApproval'
    BY <2>a, <2>c, <2>2 DEF DeliveryIsLatestApproval
  <2> QED
    BY <2>3, <2>4
<1> QED
  BY <1>2, <1>3, DeliveriesFrame

-----------------------------------------------------------------------------
(* Theorems                                                                *)

LEMMA InitInv == Init => IInv
<1> SUFFICES ASSUME Init PROVE IInv
  OBVIOUS
<1>1. TypeOK
  BY InitType
<1>2. LiveIsSeen
  BY DEF Init, LiveIsSeen
<1> QED
  BY <1>1, <1>2, NoneAssumption
  DEF Init, IInv, SubmissionInv, Idle, NoReport, NotCreatedYet, VersionIsOneSnapshot,
      FrozenRowsHaveFiles, ReviewBoundToFrozenBody, ApprovedIsLast,
      SupersededInOwnCase, DeliveryMatchesLiveCase, DeliveryIsLatestApproval

LEMMA NextInv == IInv /\ [Next]_vars => IInv'
  BY NextType, NextSubmission, NextLiveIsSeen, NextSnapshot, NextFiles, NextReview,
     NextApprovedIsLast, NextNotCreated, NextSuperseded, NextDeliveries DEF IInv

\* The inductive invariant holds in every reachable state.
THEOREM Invariance == Spec => []IInv
  BY InitInv, NextInv, PTL DEF Spec

\* Every variable of the report workflow keeps its type.
THEOREM TypeCorrect == Spec => []TypeOK
  BY Invariance, PTL DEF IInv

\* The body of every submission is one snapshot of its case, for any number of
\* concurrent editors: the writer lock is held from the first read to the commit.
THEOREM FrozenSnapshot == Spec => []VersionIsOneSnapshot
  BY Invariance, PTL DEF IInv

\* A version row never outlives a directory that was not completely written.
THEOREM FrozenFiles == Spec => []FrozenRowsHaveFiles
  BY Invariance, PTL DEF IInv

LEMMA OneApproved == IInv => OneApprovedPerCase
<1> SUFFICES ASSUME IInv, NEW q \in Reports, NEW r \in Reports, CaseOf[q] = CaseOf[r],
                    report[q].status = "approved", report[r].status = "approved"
             PROVE  q = r
  BY DEF OneApprovedPerCase
<1>1. report[q].frozen = report[r].frozen
  BY DEF IInv, ApprovedIsLast, ReviewBoundToFrozenBody
<1> QED
  BY <1>1 DEF IInv, ReviewBoundToFrozenBody

\* No interleaving of reviewers leaves a case with two approved reports.
THEOREM SingleApproval == Spec => []OneApprovedPerCase
  BY Invariance, OneApproved, PTL

\* A report in review or approved has a frozen version that is its own, and an
\* approval covers exactly that version: whatever was edited since the
\* submission, the reviewer decides on the body that was frozen.
THEOREM ReviewedBody == Spec => []ReviewBoundToFrozenBody
  BY Invariance, PTL DEF IInv

\* What is registered as delivered has the source and the sheet the case has at
\* that moment, however long the archive took to assemble.
THEOREM SoundDelivery == Spec => []DeliveryMatchesLiveCase
  BY Invariance, PTL DEF IInv

\* ... and it is the version last approved in its case, never one superseded or
\* voided during the assembly.
THEOREM LatestDelivery == Spec => []DeliveryIsLatestApproval
  BY Invariance, PTL DEF IInv

LEMMA StepKeepsApproval ==
  ASSUME IInv, [Next]_vars, NEW r \in Reports
  PROVE  /\ report[r].status = "voided" => report'[r].status = "voided"
         /\ report[r].status = "approved" =>
               /\ report'[r].status \in {"approved", "voided"}
               /\ report'[r].approved = report[r].approved
<1> USE DEF IInv, TypeOK, ReportRow
<1>1. CASE SubmitCommit
  <2>1. /\ submission.report \in Reports
        /\ report[submission.report].status \in {"draft", "returned"}
    BY <1>1 DEF SubmitCommit, BodyWritten, SubmissionType, Idle, SubmissionInv
  <2> QED
    BY <1>1, <2>1 DEF SubmitCommit
<1>2. ASSUME NEW q \in Reports, NEW t \in Templates \cup {None}, CreateReport(q, t)
      PROVE  report[r].status \in {"voided", "approved"} => report'[r] = report[r]
  BY <1>2 DEF CreateReport
<1>3. ASSUME NEW q \in Reports, Return(q) PROVE
        report[r].status \in {"voided", "approved"} => report'[r] = report[r]
  BY <1>3 DEF Return
<1>4. ASSUME NEW q \in Reports, Void(q)
      PROVE  report'[r] = report[r] \/
             (report'[r].status = "voided" /\ report'[r].approved = report[r].approved)
  BY <1>4 DEF Void
<1>5. ASSUME NEW q \in Reports, Approve(q)
      PROVE  \/ report'[r] = report[r]
             \/ report[r].status = "in_review"
             \/ /\ report[r].status = "approved" /\ report'[r].status = "voided"
                /\ report'[r].approved = report[r].approved
  BY <1>5 DEF Approve, Supersedes
<1>6. ASSUME NEW t \in Templates, DeleteTemplate(t)
      PROVE  report'[r].status = report[r].status /\ report'[r].approved = report[r].approved
  BY <1>6 DEF DeleteTemplate
<1> QED
  BY <1>1, <1>2, <1>3, <1>4, <1>5, <1>6, ReportFrame

\* Voiding is final and the version of an approval never moves.
THEOREM FinalApproval == Spec => ApprovalIsFinal
<1>1. IInv /\ [Next]_vars =>
        [\A r \in Reports :
          /\ report[r].status = "voided" => report'[r].status = "voided"
          /\ report[r].status = "approved" =>
                /\ report'[r].status \in {"approved", "voided"}
                /\ report'[r].approved = report[r].approved]_vars
  BY StepKeepsApproval
<1> QED
  BY <1>1, Invariance, PTL DEF Spec, ApprovalIsFinal
=============================================================================
