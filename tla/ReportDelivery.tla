--------------------------- MODULE ReportDelivery ---------------------------
(***************************************************************************)
(* The report workflow of LexVault: prepare, freeze and submit, return,    *)
(* approve, void, export (app/case_reports.py, app/report_delivery.py,     *)
(* services.build_export_package).  Requests run in a thread pool against  *)
(* one SQLite database.  A transaction that starts with BEGIN IMMEDIATE    *)
(* owns the database's writer lock from its first read to its commit;      *)
(* every other read runs in autocommit and sees whatever is committed at   *)
(* that moment.                                                            *)
(*                                                                         *)
(* A transaction is one action, except the submission: it writes files     *)
(* while it holds the lock, and files are not rolled back, so its steps    *)
(* are apart and the process may crash between any two of them.            *)
(***************************************************************************)
EXTENDS Naturals, Sequences, FiniteSets

CONSTANTS
    Cases,        \* the cases of the deployment
    Reports,      \* the reports create_report may create
    CaseOf,       \* the case of each report
    Templates,    \* the custom export templates
    Users,        \* the operators who ask for deliveries
    Exports,      \* formal exports running at the same time
    Previews,     \* preview exports running at the same time
    None,         \* SQL NULL
    MaxEdits,     \* bound: edits of each kind of material
    MaxStates,    \* bound: states the material of a case goes through
    MaxAttempts   \* bound: submissions begun

ASSUME CaseOfAssumption == CaseOf \in [Reports -> Cases]
ASSUME BoundsAssumption == MaxEdits \in Nat /\ MaxStates \in Nat /\ MaxAttempts \in Nat
ASSUME NoneAssumption   == None \notin Reports \cup Templates \cup Cases \cup Users

VARIABLES
    report,       \* case_reports rows
    versions,     \* case_report_versions rows, in the order of their ids
    live,         \* the material of each case, as revisions
    templates,    \* revision of each export template, Deleted when it is gone
    writer,       \* who owns SQLite's writer lock between two steps
    submission,   \* the submission that owns it
    attempts,     \* submissions begun so far; the name of the next directory
    dirs,         \* artifact directories that carry their final name
    lost,         \* artifact directories whose files an operator damaged
    export,       \* formal exports in flight
    preview,      \* preview exports in flight
    mayExport,    \* users who now hold the export right on a case
    deliveries,   \* what '正式交付登记' recorded, with the state at that moment
    lastApproved, \* history: the version approved last in each case
    seen          \* history: every state the material of a case has had

dbVars   == <<report, versions, live, templates, mayExport>>
fileVars == <<dirs, lost>>
subVars  == <<writer, submission, attempts>>
history  == <<deliveries, lastApproved, seen>>
vars     == <<dbVars, fileVars, subVars, export, preview, history>>

-----------------------------------------------------------------------------
(* Data                                                                    *)

Statuses == {"none", "draft", "in_review", "returned", "approved", "voided"}

Deleted == MaxEdits + 1

Revisions == 0 .. MaxEdits

Material == [docs : Revisions, evidence : Revisions, sheet : Revisions]

Snapshot == [docs : Revisions, evidence : Revisions, sheet : Revisions,
             templates : [Templates -> 0 .. Deleted]]

\* What source_digest covers: documents, evidence, the template and its blocks.
\* A report without a template uses the fixed default layout.
SourceType == [docs : Revisions, evidence : Revisions,
               template : Templates \cup {None}, revision : 0 .. Deleted]

VersionRow == [report : Reports, template : Templates \cup {None},
               source : SourceType, sheet : Revisions, dir : 1 .. MaxAttempts]

NoReport == [status |-> "none", template |-> None, frozen |-> 0,
             approved |-> 0, supersededBy |-> None]

Idle == [phase |-> "idle"]

TemplateExists(t) == t = None \/ (t \in Templates /\ templates[t] # Deleted)

\* collect_source reduced to what its digest can tell apart.
SourceOf(c, t) ==
    [docs |-> live[c].docs, evidence |-> live[c].evidence, template |-> t,
     revision |-> IF t = None THEN 0 ELSE templates[t]]

SnapshotOf(c) ==
    [docs |-> live[c].docs, evidence |-> live[c].evidence,
     sheet |-> live[c].sheet, templates |-> templates]

\* verify_body: every frozen file is there and has its recorded digest.
BodyIntact(v) == versions[v].dir \in dirs \ lost

-----------------------------------------------------------------------------
(* Mistakes the code could contain.  Each replaces one definition below and *)
(* must break the property PROJECT.json pairs it with.                      *)

ApprovalLeavesOthers(r, q) == FALSE
ReadsBeforeLock            == writer' = writer
SubmitsApproved(r)         == report[r].status \notin {"none", "in_review", "voided"}
CommitsBeforeRename        == submission.phase \in {"rendered", "renamed"}
KeepsLockOnCommit          == writer' = writer
PreviousVersionId          == Len(versions)
RegistersStaleBody(x) ==
    /\ report[export[x].report].status = "approved"
    /\ report[export[x].report].approved = export[x].version
RegistersUnapproved(x) ==
    LET v == versions[export[x].version]
    IN  /\ TemplateExists(v.template)
        /\ SourceOf(CaseOf[v.report], v.template) = v.source
        /\ live[CaseOf[v.report]].sheet = v.sheet
RefusesOnTimeoutOnly(x)    == writer # "free"

-----------------------------------------------------------------------------
Init ==
    /\ report = [r \in Reports |-> NoReport]
    /\ versions = <<>>
    /\ live = [c \in Cases |-> [docs |-> 0, evidence |-> 0, sheet |-> 0]]
    /\ templates = [t \in Templates |-> 0]
    /\ writer = "free"
    /\ submission = Idle
    /\ attempts = 0
    /\ dirs = {} /\ lost = {}
    /\ export = [x \in Exports |-> Idle]
    /\ preview = [p \in Previews |-> Idle]
    /\ mayExport = [c \in Cases |-> Users]
    /\ deliveries = {}
    /\ lastApproved = [c \in Cases |-> 0]
    /\ seen = [c \in Cases |-> {SnapshotOf(c)}]

-----------------------------------------------------------------------------
(* create_report and act_on_report                                         *)

CreateReport(r, t) ==
    /\ writer = "free"
    /\ report[r].status = "none"
    /\ TemplateExists(t)
    /\ report' = [report EXCEPT ![r] = [NoReport EXCEPT !.status = "draft", !.template = t]]
    /\ UNCHANGED <<versions, live, templates, mayExport, fileVars, subVars,
                   export, preview, history>>

TakeWriterLock == writer' = "submit"

CanSubmit(r) == report[r].status \in {"draft", "returned"}

\* act_on_report(submit), from BEGIN IMMEDIATE to freeze_for_submission.
SubmitBegin(r) ==
    /\ writer = "free"
    /\ CanSubmit(r)
    /\ attempts < MaxAttempts
    /\ TakeWriterLock
    /\ attempts' = attempts + 1
    /\ submission' = [phase |-> "begun", report |-> r]
    /\ UNCHANGED <<dbVars, fileVars, export, preview, history>>

\* freeze_for_submission reads the template and the source.
SubmitCollect ==
    LET r == submission.report
        t == report[r].template
    IN  /\ submission.phase = "begun"
        /\ TemplateExists(t)
        /\ submission' = [phase |-> "collected", report |-> r,
                          template |-> t, source |-> SourceOf(CaseOf[r], t)]
        /\ UNCHANGED <<dbVars, fileVars, writer, attempts, export, preview, history>>

\* freeze_body reads the transaction sheet on a connection of its own and
\* writes the rendered files under a temporary directory name.
SubmitRender ==
    LET s == submission
    IN  /\ s.phase = "collected"
        /\ submission' = [phase |-> "rendered", report |-> s.report,
                          template |-> s.template, source |-> s.source,
                          sheet |-> live[CaseOf[s.report]].sheet]
        /\ UNCHANGED <<dbVars, fileVars, writer, attempts, export, preview, history>>

\* os.replace gives the directory its final name.
SubmitRename ==
    /\ submission.phase = "rendered"
    /\ dirs' = dirs \cup {attempts}
    /\ submission' = [submission EXCEPT !.phase = "renamed"]
    /\ UNCHANGED <<dbVars, lost, writer, attempts, export, preview, history>>

BodyWritten == submission.phase = "renamed"

ReleaseWriterLock == writer' = "free"

\* lastrowid of the version row about to be inserted.
NewVersionId == Len(versions) + 1

\* The version row, the status change and the commit.
SubmitCommit ==
    LET s == submission
    IN  /\ BodyWritten
        /\ versions' = Append(versions,
                [report |-> s.report, template |-> s.template,
                 source |-> s.source, sheet |-> s.sheet, dir |-> attempts])
        /\ report' = [report EXCEPT ![s.report].status = "in_review",
                                    ![s.report].frozen = NewVersionId]
        /\ ReleaseWriterLock
        /\ submission' = Idle
        /\ UNCHANGED <<live, templates, mayExport, fileVars, attempts, export,
                       preview, history>>

\* A missing attachment, a deleted template or a full disk rolls the
\* transaction back and leaves the status alone; a renamed directory stays.
SubmitFail ==
    /\ submission.phase # "idle"
    /\ writer' = "free"
    /\ submission' = Idle
    /\ UNCHANGED <<dbVars, fileVars, attempts, export, preview, history>>

Return(r) ==
    /\ writer = "free"
    /\ report[r].status = "in_review"
    /\ report' = [report EXCEPT ![r].status = "returned"]
    /\ UNCHANGED <<versions, live, templates, mayExport, fileVars, subVars,
                   export, preview, history>>

\* UPDATE ... SET status = '已作废' WHERE case_id = ? AND status = '已批准'
Supersedes(r, q) ==
    q # r /\ CaseOf[q] = CaseOf[r] /\ report[q].status = "approved"

\* The frozen body and the live inputs are verified again, the report that was
\* approved before is voided, and this one is approved, in one transaction.
Approve(r) ==
    LET c == CaseOf[r]
        v == report[r].frozen
    IN  /\ writer = "free"
        /\ report[r].status = "in_review"
        /\ v # 0
        /\ BodyIntact(v)
        /\ SourceOf(c, report[r].template) = versions[v].source
        /\ live[c].sheet = versions[v].sheet
        /\ report' = [q \in Reports |->
                IF q = r
                THEN [report[r] EXCEPT !.status = "approved", !.approved = v]
                ELSE IF Supersedes(r, q)
                THEN [report[q] EXCEPT !.status = "voided", !.supersededBy = r]
                ELSE report[q]]
        /\ lastApproved' = [lastApproved EXCEPT ![c] = v]
        /\ UNCHANGED <<versions, live, templates, mayExport, fileVars, subVars,
                       export, preview, deliveries, seen>>

Void(r) ==
    /\ writer = "free"
    /\ report[r].status \notin {"none", "voided"}
    /\ report' = [report EXCEPT ![r].status = "voided"]
    /\ UNCHANGED <<versions, live, templates, mayExport, fileVars, subVars,
                   export, preview, history>>

-----------------------------------------------------------------------------
(* The material moves under the workflow                                   *)

Remember == seen' = [c \in Cases |-> seen[c] \cup {SnapshotOf(c)'}]

MayMove(c) == Cardinality(seen[c]) < MaxStates

ChangeMaterial(c, docs, evidence, sheet) ==
    /\ writer = "free"
    /\ MayMove(c)
    /\ docs \in Revisions /\ evidence \in Revisions /\ sheet \in Revisions
    /\ live' = [live EXCEPT ![c] = [docs |-> docs, evidence |-> evidence, sheet |-> sheet]]
    /\ UNCHANGED <<report, versions, templates, mayExport, fileVars, subVars,
                   export, preview, deliveries, lastApproved>>
    /\ Remember

\* update_directory, index_upload
UpdateDocument(c) ==
    ChangeMaterial(c, live[c].docs + 1, live[c].evidence, live[c].sheet)

\* create_evidence, update_evidence, delete_evidence
UpdateEvidence(c) ==
    ChangeMaterial(c, live[c].docs, live[c].evidence + 1, live[c].sheet)

\* correct_page_text: the new page version and the evidence that no longer
\* matches it change in one transaction.
CorrectPageText(c) ==
    ChangeMaterial(c, live[c].docs + 1, live[c].evidence + 1, live[c].sheet)

\* persist_bank_transactions
ImportTransactions(c) ==
    ChangeMaterial(c, live[c].docs, live[c].evidence, live[c].sheet + 1)

UpdateTemplate(t) ==
    /\ writer = "free"
    /\ templates[t] < MaxEdits
    /\ \A c \in Cases : MayMove(c)
    /\ templates' = [templates EXCEPT ![t] = @ + 1]
    /\ UNCHANGED <<report, versions, live, mayExport, fileVars, subVars,
                   export, preview, deliveries, lastApproved>>
    /\ Remember

\* case_reports.template_id is ON DELETE SET NULL; the version rows keep it.
DeleteTemplate(t) ==
    /\ writer = "free"
    /\ templates[t] # Deleted
    /\ \A c \in Cases : MayMove(c)
    /\ templates' = [templates EXCEPT ![t] = Deleted]
    /\ report' = [r \in Reports |-> IF report[r].template = t
                                    THEN [report[r] EXCEPT !.template = None]
                                    ELSE report[r]]
    /\ UNCHANGED <<versions, live, mayExport, fileVars, subVars, export,
                   preview, deliveries, lastApproved>>
    /\ Remember

SetExportRight(c, users) ==
    /\ writer = "free"
    /\ mayExport' = [mayExport EXCEPT ![c] = users]
    /\ UNCHANGED <<report, versions, live, templates, fileVars, subVars,
                   export, preview, history>>

-----------------------------------------------------------------------------
(* Formal delivery: build_export_package and build_frozen_package          *)

\* The request is admitted with the rights its principal holds now, and reads
\* the report row it will deliver.
ExportOpen(x, u, r) ==
    /\ export[x].phase = "idle"
    /\ u \in mayExport[CaseOf[r]]
    /\ report[r].status = "approved" /\ report[r].approved # 0
    /\ export' = [export EXCEPT ![x] = [phase |-> "opened", user |-> u, report |-> r,
                                        version |-> report[r].approved]]
    /\ UNCHANGED <<dbVars, fileVars, subVars, preview, history>>

Proceed(x, phase, ok) ==
    export' = [export EXCEPT ![x] = IF ok THEN [@ EXCEPT !.phase = phase] ELSE Idle]

\* verify_body, the template and the source digest, outside any transaction.
ExportVerify(x) ==
    LET v == versions[export[x].version]
    IN  /\ export[x].phase = "opened"
        /\ Proceed(x, "verified", /\ BodyIntact(export[x].version)
                                  /\ TemplateExists(v.template)
                                  /\ SourceOf(CaseOf[v.report], v.template) = v.source)
        /\ UNCHANGED <<dbVars, fileVars, subVars, preview, history>>

\* The sheet is compared, then the ZIP is assembled from the frozen files.
ExportAssemble(x) ==
    LET v == versions[export[x].version]
    IN  /\ export[x].phase = "verified"
        /\ Proceed(x, "assembled", live[CaseOf[v.report]].sheet = v.sheet)
        /\ UNCHANGED <<dbVars, fileVars, subVars, preview, history>>

\* _register_delivery accepts: state, template, source and sheet once more,
\* now under the writer lock.  The principal is the one captured at the start
\* of the request, so the permission tests repeat those of ExportOpen.
RegisterAllowed(x) ==
    LET r == export[x].report
        v == versions[export[x].version]
    IN  /\ report[r].status = "approved"
        /\ report[r].approved = export[x].version
        /\ TemplateExists(v.template)
        /\ SourceOf(CaseOf[r], v.template) = v.source
        /\ live[CaseOf[r]].sheet = v.sheet

RegisterDelivery(x) ==
    LET c == CaseOf[export[x].report]
        v == export[x].version
    IN  /\ export[x].phase = "assembled"
        /\ writer = "free"
        /\ RegisterAllowed(x)
        /\ deliveries' = deliveries \cup
              {[report |-> export[x].report, version |-> v,
                latest |-> lastApproved[c],
                source |-> SourceOf(c, versions[v].template),
                sheet |-> live[c].sheet,
                entitled |-> export[x].user \in mayExport[c]]}
        /\ export' = [export EXCEPT ![x] = Idle]
        /\ UNCHANGED <<dbVars, fileVars, subVars, preview, lastApproved, seen>>

\* The registration is refused, or the busy timeout on the lock expires.
RegisterRefused(x) == writer # "free" \/ ~RegisterAllowed(x)

RefuseDelivery(x) ==
    /\ export[x].phase = "assembled"
    /\ RegisterRefused(x)
    /\ export' = [export EXCEPT ![x] = Idle]
    /\ UNCHANGED <<dbVars, fileVars, subVars, preview, history>>

-----------------------------------------------------------------------------
(* Preview: build_preview_package.  collect_source runs on a connection in *)
(* autocommit here, so its SELECTs are separate reads.                     *)

PreviewDocuments(p, c) ==
    /\ preview[p].phase \in {"idle", "done"}
    /\ preview' = [preview EXCEPT ![p] =
            [phase |-> "documents", case |-> c, docs |-> live[c].docs]]
    /\ UNCHANGED <<dbVars, fileVars, subVars, export, history>>

PreviewEvidence(p) ==
    /\ preview[p].phase = "documents"
    /\ preview' = [preview EXCEPT ![p] =
            [phase |-> "evidence", case |-> @.case, docs |-> @.docs,
             evidence |-> live[@.case].evidence]]
    /\ UNCHANGED <<dbVars, fileVars, subVars, export, history>>

\* The sheet and the attachments are read, the package is written, and the
\* audit row is inserted.
PreviewWrite(p) ==
    /\ preview[p].phase = "evidence"
    /\ writer = "free"
    /\ preview' = [preview EXCEPT ![p].phase = "done"]
    /\ UNCHANGED <<dbVars, fileVars, subVars, export, history>>

\* The busy timeout on the lock expires before the audit row can be written.
PreviewGiveUp(p) ==
    /\ preview[p].phase = "evidence"
    /\ writer # "free"
    /\ preview' = [preview EXCEPT ![p] = Idle]
    /\ UNCHANGED <<dbVars, fileVars, subVars, export, history>>

-----------------------------------------------------------------------------
(* The environment                                                         *)

\* The process dies: requests in flight are gone, the open transaction is
\* rolled back, committed rows and files stay.
Crash ==
    /\ writer' = "free"
    /\ submission' = Idle
    /\ export' = [x \in Exports |-> Idle]
    /\ preview' = [p \in Previews |-> Idle]
    /\ UNCHANGED <<dbVars, fileVars, attempts, history>>

DamageFiles(d) ==
    /\ d \in dirs \ lost
    /\ lost' = lost \cup {d}
    /\ UNCHANGED <<dbVars, dirs, subVars, export, preview, history>>

-----------------------------------------------------------------------------
SubmitStep == SubmitCollect \/ SubmitRender \/ SubmitRename \/ SubmitCommit \/ SubmitFail

ExportStep(x) ==
    ExportVerify(x) \/ ExportAssemble(x) \/ RegisterDelivery(x) \/ RefuseDelivery(x)

PreviewStep(p) == PreviewEvidence(p) \/ PreviewWrite(p) \/ PreviewGiveUp(p)

Next ==
    \/ \E r \in Reports, t \in Templates \cup {None} : CreateReport(r, t)
    \/ \E r \in Reports : SubmitBegin(r) \/ Return(r) \/ Approve(r) \/ Void(r)
    \/ SubmitStep
    \/ \E c \in Cases : \/ UpdateDocument(c) \/ UpdateEvidence(c)
                        \/ CorrectPageText(c) \/ ImportTransactions(c)
                        \/ \E users \in SUBSET Users : SetExportRight(c, users)
    \/ \E t \in Templates : UpdateTemplate(t) \/ DeleteTemplate(t)
    \/ \E x \in Exports, u \in Users, r \in Reports : ExportOpen(x, u, r)
    \/ \E x \in Exports : ExportStep(x)
    \/ \E p \in Previews, c \in Cases : PreviewDocuments(p, c)
    \/ \E p \in Previews : PreviewStep(p)
    \/ Crash
    \/ \E d \in dirs : DamageFiles(d)

Spec == Init /\ [][Next]_vars

\* A request thread that is running keeps running.
Fairness ==
    /\ WF_vars(SubmitStep)
    /\ \A x \in Exports : WF_vars(ExportStep(x))
    /\ \A p \in Previews : WF_vars(PreviewStep(p))

FairSpec == Spec /\ Fairness
-----------------------------------------------------------------------------
(* Types and properties                                                    *)

SubmissionType ==
    {Idle}
    \cup [phase : {"begun"}, report : Reports]
    \cup [phase : {"collected"}, report : Reports,
          template : Templates \cup {None}, source : SourceType]
    \cup [phase : {"rendered", "renamed"}, report : Reports,
          template : Templates \cup {None}, source : SourceType, sheet : Revisions]

ExportType(ids) ==
    {Idle} \cup [phase : {"opened", "verified", "assembled"}, user : Users,
                 report : Reports, version : ids]

PreviewType ==
    {Idle}
    \cup [phase : {"documents"}, case : Cases, docs : Revisions]
    \cup [phase : {"evidence", "done"}, case : Cases, docs : Revisions,
          evidence : Revisions]

ReportRow(ids) ==
    [status : Statuses, template : Templates \cup {None}, frozen : ids \cup {0},
     approved : ids \cup {0}, supersededBy : Reports \cup {None}]

DeliveryRow(ids) ==
    [report : Reports, version : ids, latest : ids \cup {0}, source : SourceType,
     sheet : Revisions, entitled : BOOLEAN]

\* Every variable stays in its type; ids point at rows that exist.
TypeOK ==
    LET ids == 1 .. Len(versions)
    IN  /\ versions \in Seq(VersionRow)
        /\ report \in [Reports -> ReportRow(ids)]
        /\ live \in [Cases -> Material]
        /\ templates \in [Templates -> 0 .. Deleted]
        /\ writer \in {"free", "submit"}
        /\ submission \in SubmissionType
        /\ attempts \in 0 .. MaxAttempts
        /\ dirs \subseteq 1 .. attempts /\ lost \subseteq dirs
        /\ export \in [Exports -> ExportType(ids)]
        /\ preview \in [Previews -> PreviewType]
        /\ mayExport \in [Cases -> SUBSET Users]
        /\ deliveries \subseteq DeliveryRow(ids)
        /\ lastApproved \in [Cases -> ids \cup {0}]
        /\ seen \in [Cases -> SUBSET Snapshot]

\* A case never has two approved reports, whatever reviewers do at the same
\* time: approving one voids the other in the same transaction.
OneApprovedPerCase ==
    \A q, r \in Reports :
        (CaseOf[q] = CaseOf[r] /\ report[q].status = "approved"
            /\ report[r].status = "approved") => q = r

\* An approval voids reports of its own case only, and the report named as the
\* successor really was approved.
SupersededInOwnCase ==
    \A q, r \in Reports : report[q].supersededBy = r =>
        CaseOf[q] = CaseOf[r] /\ report[q].status = "voided" /\ report[r].approved # 0

\* The body a submission froze mixes no two states of the case: the source and
\* the sheet, read in separate steps on separate connections, were both true
\* at some one moment.
VersionIsOneSnapshot ==
    \A i \in DOMAIN versions : \E s \in seen[CaseOf[versions[i].report]] :
        LET v == versions[i]
        IN  /\ v.source.docs = s.docs
            /\ v.source.evidence = s.evidence
            /\ v.template # None => v.source.revision = s.templates[v.template]
            /\ v.sheet = s.sheet

\* A committed version row points at a directory that was completely written,
\* even when the process dies in the middle of a submission.
FrozenRowsHaveFiles == \A i \in DOMAIN versions : versions[i].dir \in dirs

\* What a reviewer decides on, and what an approval points at, is a body that
\* was frozen for that very report.
ReviewBoundToFrozenBody ==
    \A r \in Reports :
        /\ report[r].status \in {"in_review", "approved"} =>
              /\ report[r].frozen \in DOMAIN versions
              /\ versions[report[r].frozen].report = r
        /\ report[r].status = "approved" => report[r].approved = report[r].frozen

\* A registered delivery is a body whose source and sheet were those of the
\* case when it was registered, however long the ZIP took to assemble.
DeliveryMatchesLiveCase ==
    \A d \in deliveries : /\ versions[d.version].source = d.source
                          /\ versions[d.version].sheet = d.sheet

\* A registered delivery is the version that was approved last in its case: an
\* export that started before a newer approval cannot deliver the older one.
DeliveryIsLatestApproval == \A d \in deliveries : d.version = d.latest

\* A voided report stays voided and an approved one can only be voided; the
\* version an approval points at never moves.
ApprovalIsFinal ==
    [][\A r \in Reports :
          /\ report[r].status = "voided" => report'[r].status = "voided"
          /\ report[r].status = "approved" =>
                /\ report'[r].status \in {"approved", "voided"}
                /\ report'[r].approved = report[r].approved]_vars

\* The writer lock a submission takes is released, whatever fails.
WriterLockReleased == (writer = "submit") ~> (writer = "free")

\* An export ends: a formal one registered or refused, a preview written or
\* given up.
ExportsEnd ==
    /\ \A x \in Exports : (export[x].phase # "idle") ~> (export[x].phase = "idle")
    /\ \A p \in Previews : (preview[p].phase \in {"documents", "evidence"})
                              ~> (preview[p].phase \in {"idle", "done"})

\* Docstring of _register_delivery: an operator whose export right was
\* withdrawn while the ZIP was assembled is not registered.
WithdrawnOperatorIsRefused == \A d \in deliveries : d.entitled

-----------------------------------------------------------------------------
(* The inductive invariant                                                 *)

\* While a submission is open it owns the lock, so what it has read is still
\* what the database says.
SubmissionInv ==
    LET s == submission
    IN  /\ writer = "submit" <=> s # Idle
        /\ s # Idle => attempts > 0 /\ report[s.report].status \in {"draft", "returned"}
        /\ s.phase \in {"collected", "rendered", "renamed"} =>
              s.template = report[s.report].template
                /\ s.source = SourceOf(CaseOf[s.report], s.template)
        /\ s.phase \in {"rendered", "renamed"} => s.sheet = live[CaseOf[s.report]].sheet
        /\ s.phase = "renamed" => attempts \in dirs

\* The present material is part of the history.
LiveIsSeen == \A c \in Cases : SnapshotOf(c) \in seen[c]

\* An approved report carries the version that was approved last in its case.
ApprovedIsLast ==
    \A r \in Reports : report[r].status = "approved" =>
        report[r].approved = lastApproved[CaseOf[r]]

\* A report that was not created yet has no history.
NotCreatedYet == \A r \in Reports : report[r].status = "none" => report[r] = NoReport

IInv ==
    /\ TypeOK
    /\ SubmissionInv
    /\ LiveIsSeen
    /\ VersionIsOneSnapshot
    /\ FrozenRowsHaveFiles
    /\ ReviewBoundToFrozenBody
    /\ ApprovedIsLast
    /\ NotCreatedYet
    /\ SupersededInOwnCase
    /\ DeliveryMatchesLiveCase
    /\ DeliveryIsLatestApproval
=============================================================================
