# A formal model of LexVault

LexVault (`src/app`) is a workbench for legal case files: documents are imported
and indexed, questions are answered from them with citations, evidence is
annotated and approved, reports are prepared, reviewed, frozen and delivered, and
two layers of rules decide who may see and work on a case. It is one FastAPI
process with a thread pool, a database (SQLite or PostgreSQL), optional arq
workers behind Redis, and a few isolated subprocesses. This directory holds TLA+
modules of its stateful parts, TLC configurations that check them on small
instances, and proofs that TLAPS checks for every instance.

## What every module assumes of the system

* **Threads.** A plain `def` endpoint runs in a thread pool, so any two requests
  interleave. An `async def` endpoint runs on the event loop; between two awaits
  nothing else of the event loop runs.
* **Transactions.** `db.transaction` (db.py:229-239) opens a connection whose
  SELECTs run in autocommit: each sees the last commit. The first INSERT, UPDATE or
  DELETE takes the writer lock, which COMMIT or ROLLBACK gives back. So a
  transaction that reads and then writes is *two* actions of a model (the read, and
  the write with everything after it), unless it starts with `BEGIN IMMEDIATE`,
  which takes the lock first. A write with its condition in the WHERE clause is one
  action.
* **Crashes.** What is committed stays, what is not is gone, threads and locks of
  the process are gone. Files are not rolled back.

## Inventory

| Component | State | Operations | Interacts through | What is hard | What makes it correct |
|---|---|---|---|---|---|
| Case reports, frozen delivery (`case_reports.py`, `report_delivery.py`, `routes/exports.py`, `report_basis.py`) | `case_reports`, `case_report_versions`, export templates, frozen directories, `report_deliveries` | create, submit (collect, render, write files, rename, commit), return, approve, void, template edit, export, preview | reads documents, evidence and bank rows that other endpoints change; files on disk | long submission under the writer lock; ZIP assembled outside any transaction; files not rolled back; two reviewers | one approved report per case; a frozen body is one snapshot; what is delivered is the last approval and not stale |
| Conflict checks (`conflicts.py`, `routes/cases.py`) | `case_parties`, `conflict_checks` | create case, put parties, rerun check, decide | every case reads the parties of all others; middleware tests the latest row | check runs in other transactions than the change; two changes at once; two deciders | a conflict is seen by at least one side; nobody decides their own check; a decision is taken once |
| Chat submission (`chat_idempotency.py`, `routes/chat.py`, `context.record_turn_with_id`) | `chat_requests`, `messages`, `conversations` | begin, commit, finish, sweep; plain and streaming endpoint; archive | the client retries with one id; the row and the messages share a transaction | retries, disconnects, slow and dead workers, lost commits | one id, at most one question-and-answer pair |
| Batch import (`tasks.py`, `routes/documents.py`, `services.index_upload`) | `batch_imports`, `batch_import_files`, `batch_dispatch`, staged files, flock, Redis job | register, stage, manifest, enqueue, reconcile, resume, index, finalize | HTTP request, arq worker and reconciler share SQLite, Redis, files and the flock | crash and loss everywhere, at-least-once delivery, two workers, timeouts of native threads | one worker at a time; reports true; inputs kept while needed; every stored manifest ends |
| Review jobs (`review_jobs.py`) | `review_jobs`, a thread pool of two, four admissions | submit, execute, cancel at shutdown, recover at restart | starts agent runs, records turns | shutdown racing submission and execution; callbacks attached after the end | admissions balance; a job ends once, completed only with its turn |
| Agent runs (`agents.py`, `langgraph_agents.py`, `routes/agent_runs.py`) | `agent_runs`, `agent_steps`, LangGraph checkpoints, memories | start, node, fail, complete, resume, recover | records turns; reads pages that other endpoints correct | two resumes; resume after the material changed; checkpoints that lag behind | one executor per run; no resume on changed material; one turn per run |
| Human tasks (`human_tasks.py`) | `review_tasks`, `review_task_events` | create, assign, set a due date, start, submit, return, complete, cancel | members, case access | several actors on one task, pages without a version | an action is legal for the row it changes; the events are the task's history |
| Evidence (`routes/evidence.py`, page corrections of `routes/documents.py`) | `evidence`, `pages`, `documents` versions, annotations | create, list, edit, approve, delete; correct a page | report bodies; corrections withdraw confirmations | stale approval of changed text; a correction racing an approval | what is approved is what was read; a confirmed quote is in its page |
| Case lifecycle (`routes/cases.py`) | `cases.status`, version | archive, restore, trash, edit | every case-scoped request | status read before the write | legal order of states |
| Information barriers (`case_walls.py`) | walls, grants | set, remove, break the glass | all case reads; PostgreSQL row security | expiry during a request | a hidden case leaks nothing |
| Members and sign-in (`members.py`, `security.py`) | `members`, `member_tokens`, `auth_sessions`, `oidc_flows`, `auth_login_limits` | issue, rotate, deactivate, reactivate; sign in and out by token or single sign-on | the provider, minutes later; middleware | a login of three transactions against a revocation; late callbacks | a session from before a revocation never speaks again; attempts are counted exactly |
| Host integration (`host_integration.py`, `host_writes.py`, `host_integration_worker.py`) and domain integration (`domain_*.py`) | `host_runtime_links`, events, write receipts, cleanup outbox; the framework's files per run; leases (flock) | accept, cancel, drive (recover, inspect, approve), rebuild, purge | a sidecar process asks the host for each write over pipes; case deletion cascades | either process dies between any two steps; lost answers and files; deadlines; cancellation during a write | nothing is called twice; success means all receipts; a projected end is the true one; no effect after cancellation |
| Runtime requests (`runtime_adapter.py`, `runtime_ports.py`) | `runtime_requests`, `agent_runs` | start, replay, reconcile | every caller of one request id; starts an agent run | the start raises after its run is committed; crash between claim, run and link | one run per request; a caller is told of its own run |
| Isolated runtimes (`forge_bridge.py`, `forge_readonly.py`, `forge_worker.py`, `forge_runtime.py`) | one subprocess and one frozen snapshot per call | open a session, serve nodes, accept a result, deadline | pipes; the case and the rights behind the snapshot | a process that lies, hangs or dies; a case that changes | completed means every planned node, once, in order, from one snapshot |
| Model access (`services.py`, `agents.py`, `tool_loop.py`, `model_router.py`, `llm_usage.py`) | `llm_calls`, the context variable of the last usage | ask, tool round, fallback, account | model server | failures between a call and its row | a shown answer passed the contract; one fallback; each call has its row |
| Retrieval (`rag.py`, `rag_child_index.py`, `search_backend.py`) | `embedding_cache`, `page_child_index_state`, `page_child_chunks` | search, reuse, rebuild | documents; the embedding service | slow embedding outside any transaction, spaces that change | a query meets only vectors of its space; a part is scored by its own text |
| Offline parts (`statutory_*`, `corpus_*`, `eval_*`, `benchmark_*`, scripts), frontend | files | build, measure, display | files, HTTP | none of the above | out of scope |

`PROJECT.json` repeats the list with sources, status and reasons.

## Plan

Order: first what a wrong state would make irreparable (a wrong report delivered,
a conflict missed), then what the user sees twice or never (turns, imports, runs),
then the rest of the workflow.

1. `ReportDelivery` - done, with proofs.
2. `ConflictCheck` - done, with proofs.
3. `ChatIdempotency` - done, with proofs; implements the abstract `AnswerOnce`, checked
   and proved.
4. `BatchImport` - done, with proofs of its safety.
5. `AgentRuns`, which composes a job, its run and its turn - done, with proofs of
   its safety.
6. `HostRuntime`: a durable run on an isolated worker process, its receipts, its
   projection and its recovery - done, with proofs of its safety; implements the
   abstract `EffectsOnce`, checked and proved.
7. `EvidenceReview` and `RuntimeRequests` - done, with proofs.
8. `HumanTasks`, `SignIn`, `PageIndexes`, `FrameworkRun`, `ModelAnswer` - done, with
   proofs.
9. `Workbench`, which puts the parts of 2, 3, 7 and 8 side by side - done, with the
   proof that each part behaves there as it does alone.

What is left, in this order: the roles of members and the last-administrator test
(`members.py:302`), composed with `SignIn`; refinements of the other abstract
promises, namely that a case has at most one deliverable report that only moves
forward (`ReportDelivery`), that a batch is a set of files each of which ends once
(`BatchImport`), and that a question has one run with one answer (`AgentRuns`). No
invariant and no action property of a run is left without a proof.

## Modules

The type invariant of every module is proved, so the runs spend their properties on
the rest (that of `ModelAnswer`, `AnswerTyped`, is stated with its proof). Every module lists, before
its actions, mistakes its code could contain; `PROJECT.json` says which definition
each replaces and which property then fails.

### ReportDelivery

State: `report` is the `case_reports` table with the fields the workflow tests,
`versions` the `case_report_versions` table in the order of its ids, `live` the
material of each case as revision numbers (documents, evidence, transaction sheet),
`templates` their revisions, `dirs` the frozen directories that exist, `writer` the
writer lock, `submission` the one submission that holds it, `export` and `preview`
the formal exports and previews in flight, `deliveries` the registered deliveries,
`mayExport` the rights as they are now. `seen`, `lastApproved`, `lost` are history.
Content is a revision number: two bodies are equal exactly if their digests are.

`act_on_report` is one action per branch (`Return`, `Approve`, `Void`), except
*submit*, whose steps are apart because they write files that a rollback leaves:
`SubmitBegin`, `SubmitCollect`, `SubmitRender`, `SubmitRename`, `SubmitCommit`,
`SubmitFail`. `build_frozen_package` is `ExportOpen`, `ExportVerify`,
`ExportAssemble`, `RegisterDelivery` or a refusal. `DamageFiles` lets frozen files
disappear.

| Run | Instance | Shows |
|---|---|---|
| `workflow` | 2 reports of 1 case, 1 template, 1 export, 1 edit of each kind, 2 submissions | one approved report; snapshot; files of committed rows; review bound to its body; finality; what is registered is live and the last approval |
| `live` | 2 reports in 2 cases, 1 export, 1 preview, 2 submissions, fair request threads | the writer lock is released; exports end |
| `withdrawn` (violation) | 1 report, 1 export, 1 edit | a right withdrawn during assembly is not noticed |

Two reports and one edit are enough for every race the code can lose: a
superseding approval and a stale body each need one other actor. `MaxEdits` bounds
the edits of each kind, `MaxStates` the states the material of a case goes through and
`MaxAttempts` the submissions begun.

### ConflictCheck

State: `parties` and `created` per case, `checks` the `conflict_checks` table in
the order of its ids, `request` what each request in flight knows, `interrupted`
the cases with a change whose check was cut off (history). `PutParties` commits;
`CheckReadParties`, `CheckCompare` and `CheckRecord` are the transactions of
`run_check`; `DecideRead` and `DecideWrite` the two halves of `decide`. Matching by
credit code, name or former name is the relation `SameParty`.

`CheckRaises` is a check that raises after the parties committed, `ConflictCrash` the
end of the process; both leave parties that nobody checked, which the docstring of
the module rules out (`EveryChangeIsChecked`) and the run `conflict_unchecked` shows.

Checked in the run `workbench`: of two conflicting cases whose checks were recorded,
one side at least sees the other; nobody decides their own check. Proved only: a
decision is taken once, and a case that was left without a check of its parties is
one whose check was cut off (`UncheckedMeansCutOff`).

| Run | Instance | Shows |
|---|---|---|
| `conflict_unchecked` (violation) | 1 case, 1 request | parties whose check raises stay, unchecked |

What the model shows besides, without a run: of two concurrent changes of one case
the check of the older parties may be recorded last, so the newest row, which is the
case's status, is then about parties the case no longer has.

### ChatIdempotency

State: `row` the `chat_requests` row of one id, `age` how old it is (fresh, older
than fifteen minutes, older than seven days), `sub` what each submission is doing,
`cancelled` the disconnected ones, `turns` whose messages are written,
`conversation` that of the conversation the question names, if it names one, and
`erased` (history) the turns deleted with a conversation. `begin` is `BeginRead` and
`BeginWrite`, or `BeginSweeping` when its hourly DELETE opens the transaction first;
the streaming endpoint calls it on the event loop, hence `LoopFree`. `Commit` may end with an
error although it took effect.

`AnswerOnce` is what submitting promises, without rows, workers or retries: one turn
is kept under an id, whoever gets an answer gets that turn, and the turn is kept
before anyone is told of it; nothing is promised once the retention ends.
`ChatIdempotency` maps to it (`Promise`): the kept turn is that of the committed row,
and a client was told the turn it wrote or the one a replay gave it. The run
`workbench` checks the refinement (`SubmitsOnce`) for three streaming submissions,
and `ChatRefinement` proves it for any number. Three let one be replayed while one fails
and one works.

The two constants that the run fixes name limits of the design: with `Outlive`
true, a worker slower than fifteen minutes is taken for dead and its retry writes a
second turn; with a submission outside `Streaming`, two retries on the plain
endpoint may claim one failed row. `ArchiveConversation` may come between the
archive test and the commit, so an archived conversation can get a turn.
`DeleteConversation` is the endpoint or the purge of archived conversations: the
messages go, the row stays. So for the rest of the seven days a retry still gets the
stored answer of a turn that is deleted; `ReplayIsTheTurn` says that the turn was
written with its row and that nothing else takes it away, and `AtMostOneTurn` and
`FailedWroteNothing` count a deleted turn as written. The deletion of the whole case,
which takes the row along, is left out.

### BatchImport

State: the rows of one batch (`batch`, `dispatch`, `file`), `staged` files on disk,
`documents` whose import key exists, `job` in Redis, `lock` the flock, and the
program counters of the request, the reconciler, each worker and each of its
coroutines. `stray` are the native threads of coroutines that are gone: a second
cancellation, while the first one is drained, ends the job and frees the lock with
them still running (`CancelDrain`), and they may yet insert their document. Nobody
marks its file then; the next worker finds the document by its import key.
`MaxFaults` bounds crashes, losses of Redis, failed dispatches,
timeouts and jobs given up together.

| Run | Instance | Shows |
|---|---|---|
| `batch_recovery` | 2 files, 2 workers, 2 faults, fair processes | one worker at a time; inputs kept; outcome true; an ended batch is not reopened; a stored manifest ends (completed means indexed: proved only) |
| `batch_inputs` (violation) | 1 file, 1 worker, no fault | inputs of a running worker deleted |

Two faults are the fewest that let recovery itself be interrupted. What the model
shows besides, without a run: a crash after `RegisterBatch` and before the manifest
leaves a batch that stays queued (the reconciler joins `batch_dispatch`), so
`ManifestLeadsToEnd` starts from the manifest; the except branch of the request may
fail a batch whose files a worker has just completed, which `OutcomeIsTrue` and
`EndIsFinal` except (`RequestFailedIt`) and the finding of `batch_inputs` names;
two files of identical bytes may both
pass the duplicate test.

### AgentRuns

State: `server` is the process (up, closing, down); `permits` the admission
semaphore, `queue` and `future` the executor, `request` how far each
`submit_review` is; `job` the `review_jobs` rows, `run` the `agent_runs` rows,
`saved` the last checkpoint of each run, `memory` and `turn` the draft that is in
its memories row and in its messages; `work` what the thread of each question and of
each resume request is doing, with the nodes done and the page revision its analysis
rests on; `page` the present revision. An answer is the number of the draft the
critic wrote, so two executions of the critic give different answers. `lost`
(history) are the rows whose closing UPDATE raised.

`submit_review` is `Admit`, `InsertJob`, `SubmitJob`, `AttachCallback` or
`SubmitRaises`; `_execute` is `TakeJob`, then `StartRun` (or `PrepareRaises`,
`Clarify`, `TrackRaises`), the graph, `RecordTurn` and `FinishJob` or `FailJob`.
The graph is `RunNode`, `Retrieve`, `Critic` and `Memorize` with `SaveNode` apart,
because a checkpoint is stored after the next node may have started;
`_complete` is `CompleteRun` and `ReturnResult`. `resume` is `ResumeRead`,
`ResumeValidate` and `ResumeClaim`, or `ResumeRaises`. `Shutdown`, `CancelQueued`, `Exit`, `Crash` and
`Restart` are the process; a shutdown waits for its threads, a crash does not.

| Run | Instance | Shows |
|---|---|---|
| `agent_resume` | 1 run of a request, 2 resume requests, 6 nodes (two of them parallel), 1 correction, 2 crashes, fair threads | one executor; the turn is the answer; an earlier correction is noticed; no run stays running unless the UPDATE that ends it raises |
| `agent_jobs` | 2 jobs, 1 worker, 2 admissions, 4 nodes, 2 crashes, fair threads | a completed job has its turn; admissions balance; no job stays open unless the UPDATE that ends it raises (a job ends once: proved only) |
| `agent_edited` (violation) | 1 run, 2 resume requests, 1 correction, no crash | a correction between the test of the hashes and the claim is not noticed |

One worker and two jobs make one of them wait, which is what shutdown cancels. Six
nodes keep one pair that runs in parallel, the retrieval and the three at the end;
the nodes left out behave like those kept.

The code ends every run and job only as long as the UPDATE that records the end does
not raise itself: a database that is locked for too long or full, often what failed
the run in the first place, leaves the row queued or running until the next start,
which nothing forces. The model takes every such branch (`LeaveOpen`, in `FailRun`,
`TrackRaises`, `SubmitRaises`, `TakeJob`, `Finished` and `FailJob`; at most `MaxLost`
rows of one process), and `RunsEnd` and `JobsEnd` except exactly the rows it leaves.

What the model shows besides: a checkpoint of an earlier version may carry contexts
without a page hash, which `resume` does not compare (not modelled), and a crash between `CompleteRun` and
`RecordTurn` leaves a completed run without a turn.

### HostRuntime

State: `link` the `host_runtime_links` rows, `run` the status of their `agent_runs`
rows, `receipts` the committed effects, `outbox` the cleanup rows; `frame` what the
framework keeps of a run in its own files (run and node states, journal of calls,
number of the last event saved and of the last one published); `worker` the phase of
each driver with its sidecar; `clock` whether the host's deadline and the
framework's later one have passed. `calls` is history.

`drive` is `TakeLease`, `Begin` (the transaction before the sidecar), the phases of
the sidecar, and `Receive` with `Project`, or `MarkUnknown`. The sidecar's `main` is
`FindRun`, then `AuthorizeStart` and `CreateRun`, or `ApproveNode`, or recovery:
`SettleNode` reads the journal for each open node, `Advance`, `Dispatch`, `Attempt`,
`Write`, `Answered` take a node from admission to its answer, `FinishRun` decides the
status of the run, `Reconcile` asks for receipts. The framework is a pinned wheel; its
steps are modelled from what the sidecar asks of it and are external in the map. A
step of the framework and the host call that authorizes it are one action, because
the host reads nothing of a run while it is driven. The nodes wait for all nodes of an
earlier stage; the join that the sidecar adds to the graph is left out.
`HostRefuses` is any exception of `_load` or of the write port, which no handler marks;
`SidecarFails` covers deaths, time limits and protocol errors; `HostDies` includes a
sidecar that outlives its host, reads the end of the pipe and settles its call as
failed. `PurgeStep` is the two steps of the cleanup.

`EffectsOnce` is what a durable run promises, without leases, files, journals or
processes: for each request what the client is told, whether it is closed, and for
each node how often its effect was asked for and whether it is committed. An effect is
asked for once while the request is open, committed only if it was asked for and the
request is not closed, success is told of a whole graph, and an end stays until the
case is deleted. `HostRuntime` maps to it (`Promise`): `sent` is `calls`, `done` the
receipts, `told` the status of the row with its transient values taken together, and
`closed` the cancellation or the passed deadline. An effect may still be asked for
after the request was closed (the sidecar tests before, not while it calls); the
transaction of the write is what refuses it, and the promise says so.

| Run | Instance | Shows |
|---|---|---|
| `host_durable` | 2 requests for 1 admission, one of them driven 3 times; 2 nodes, one with an approval; 2 faults; fair driver | no node is called twice; success has every receipt; every step is one of `EffectsOnce` or a stutter, so no effect after cancellation, deadline or end; an end agrees with the framework's files; files of deleted cases purged; drives end |

Three drives are a first one, a recovery that fails and one more; two faults let the
recovery be interrupted. The second request only competes for the admission, since
requests share nothing else. An admission is counted and taken in one write
transaction, so its limit holds by that guard and is no property. What the model
shows besides: a write the host refuses reports no usage, so its node stays unknown
and the request keeps its admission; inspecting a queued request marks it unknown,
and a later cancellation can no longer end it; a call settled as failed by a sidecar
that outlived its host is never reconciled although its receipt exists; a timely
success that is read again only after the deadline stays unknown.

### EvidenceReview

State: `evidence` the row of each item, `page` the wording of the page the items cite
and the version of its document; `loaded` what each colleague's list shows, `edit` and
`fix` the requests in flight, as read. `confirmed` and `since` are history: what a
confirmation was about, and the wordings written since. What an item says is one
value, and a request that sends some of its fields a function on such values
(`Patches`); `CitesPage` and `Quoted` say whether it cites the page and whether its
quote occurs in a wording. `update_evidence` is `ReadForUpdate` (the row, the rights, what will be
written) and `WriteUpdate` or `RefuseUpdate` (the conditional UPDATE). A careful
client sends the version its list showed, a legacy one sends none. The UPDATE binds
an approval to the row the server read; only a careful client's approval is bound to
what its list showed too (`About`), and `ApprovalBindsContent` says no more: a legacy
client may approve content it has not seen, which the code keeps on purpose.
`correct_page_text` is `ReadDocument` and `CorrectPage` or `RefuseDocument`;
`update_directory` shares its read. What the model shows besides: a confirmation that
was read before a correction and is written after it stands, because it neither reads
nor tests the page; `ConfirmedQuoteStands` is about corrections made while an item is
confirmed.

### HumanTasks

State: `task` the `review_tasks` rows, `events` their `review_task_events` in order,
`move` each person's open action with the row it read. `act_on_task` is `ReadTask`
(the rights and the state, tested on that row) and `WriteTask` or `RefuseTask` (the
conditional UPDATE with its event). `EventsTellTheTask` replays the events: they give
the row, and each was legal for the row it changed. What the model shows besides: a
task in progress may be returned as well as one in review, while the module's
docstring speaks of tasks to do and in review.

### SignIn

State: the tables of `members.py` and `security.py` (`token`, `active`, `session`,
`flow`, the limits `failures` and `starts`), the `cookie` of each browser, its `login`
in flight, and a clock. A token login is `TestToken`, `ClosePrevious` and
`OpenSession`; single sign-on is `StartFlow`, `ConsumeFlow`, `ProviderRefuses` or
`OpenFlowSession`, with the refund of the attempt. `IssueToken` is creation and
rotation; `Deactivate` and `Reactivate` are the branches of `update_member`. `refunded`
and `outdated` are history. A login whose token was revoked after its test still
opens a session; it speaks for nobody while the token is revoked (`Resolves`), and
`OutdatedSessionIsDead` is not about it.

### RuntimeRequests

State: `claim` the `runtime_requests` rows, `run` the runs started, `call` how far
each caller's `start` is, `answer` what it was told. `Claim` is the INSERT OR IGNORE;
the winner goes through `EnterRun`, `StartRun`, `LinkRun` and `EndAgentRun`, each of which
may raise or die; the others go through `Replay`. A claim left by an earlier version
has no digest.

### PageIndexes

State: `text` per page, `pageCache` and `childIndex` per page, the `search` of each
reader, and `scored`, what the last step compared. A vector is modelled by the text
and the space it was computed from. Whole pages are read by two
SELECTs in autocommit, `ReadPages` (with the query's embedding, which touches nothing
shared) and `ReadPageCache`; the parts in one read transaction, `ReadChildIndex`.
`UpsertPages`, `ScorePages`, `ReuseChildren` and `RebuildChildren` follow the slow
embedding. `force` of `ensure_vector_index` is left out: no caller sets it. The
endpoint that only rebuilds the page cache is a search that is not scored.
The page cache is written without another look at the pages, so a page may for one
search be scored by the vector of its previous text; the row says so by its hash.

### FrameworkRun

State: `material` and `mayView`, which change at any moment, the snapshot `captured`,
the nodes done (`outputs`), the host's end of the pipes (`bridge`), the process
(`sidecar`, honest or not), the line between them (`message`), the deadline and what
the caller is told (`reported`). The host tests the right and the contents before and
after each node. What the model shows besides: a process that does not exit raises
`TimeoutExpired`, which `start` does not catch, and a line that is no JSON is a
`ValueError` and thus reported as a violated contract although the outcome is unknown.

### ModelAnswer

State: `question` (chat or critic, with or without tools, fallback off, broken or on),
`stage`, the `calls` sent, the `llm_calls` `rows`, `observed` (the context variable
`_last_llm_usage`: the call it describes), and what is `answered`. A row is about the
call whose usage it copies. `ToolRound`, `LoopAnswer` and `LoopFails` are the tool
loop, `AskPrimary` the single call, `AskFallback` the one retry with what the two
paths write then (`FallbackRows`).

| Run | Instance | Shows |
|---|---|---|
| `usage_fallback` (violation) | 3 tool rounds | chat: the call whose answer was rejected has no row of its own |

What the model shows besides: a critic's call refused before it was sent leaves a
row with the observation of an earlier question. `_account_llm_call` swallows the
database errors of its own INSERT, which is not modelled.

### Workbench

Conflict checks, chat, evidence, tasks, sign-in, runtime requests, page indexes, a
framework run and a model answer share no row and no lock that outlives an action, so
no step of one reads or writes a variable of another. `Workbench` states just that:
`focus` names the part that moves in a behaviour, from any of its initial states,
while the others rest in one of theirs. One run therefore checks all nine, and its
states are the sum of theirs, not the product. Since only one part moves, `MCWorkbench`
lets them share three pairs of model values. A permutation of a pair permutes every
part at once, no constant tells the two values of a pair apart, and the resting
parts start in states that hold none of them, so the symmetry is sound.

| Run | Part | Instance | Shows |
|---|---|---|---|
| `workbench` | conflicts | 2 cases, 2 requests, 2 partners, 2 spellings of a name, 3 checks, checks that raise, crashes | `ConflictSeenByOneSide`, `NeverOwnDecision` |
| | chat | 3 streaming submissions of one id, a conversation that may be archived or deleted, disconnects, failures, lost commits, crashes | `SubmitsOnce` (refinement) |
| | evidence | 1 item with 2 facts and 2 quotes, requests that send either or none, with or without a version, 3 wordings of a page (2 hold one quote, none the other), an editor who approves and an approver, rows and page read for writing in their first version | `ApprovalBindsContent`, `ConfirmedQuoteStands` |
| | tasks | 1 task, a manager, a worker, a reviewer, 1 due date, 4 changes | `EventsTellTheTask` |
| | sign-in | 1 member, 2 tokens, 2 sessions, 2 flows, 1 browser, room for 1 session, 3 ticks | `AttemptsAreExact`, `OutdatedSessionIsDead` |
| | requests | 3 callers of one id with 2 requests, 2 runs, crashes | `OneRunPerRequest` |
| | indexes | 2 searches, 2 pages, 2 texts, 2 spaces | `VectorsAreOfTheQuery` |
| | framework | 2 specialists, one reading the other, 2 plans, 2 states of the case, honest and other processes | `CompletedIsWhole` |
| | answer | 3 tool rounds, both paths, every setting | `ModelAnswerMeetsContract`, `CriticCallsAreAccounted` |

Two actors and one object are what each of these races needs. A third caller lets a
foreign request meet a claim, three wordings let a page lose a quote and keep another
pair, three ticks end a window of two within a flow's life, and two runs are one more
than a request may have. An item or a page may be read for a change only in its first
version here, by both colleagues at once, so every change races another one;
`EvidenceReview_proof` covers every later version.

## Fairness

`ReportDelivery`: a request thread that can take its next step takes it (weak);
nothing is assumed of users. `BatchImport`: request, workers and reconciler keep
running (weak), an abandoned arq marker expires (weak), and a worker that finds the
lock free again and again gets it (strong): the reconciler holds it for
milliseconds every fifteen seconds while a worker asks every second. The bound on
faults is what "eventually" rests on: after the last of them the system recovers.
`AgentRuns`: the threads of requests, jobs and resumes take their steps, the
executor takes what is queued, shutdown cancels what is queued, and a process that
is down is started again (all weak); nobody has to ask, resume, correct or stop
anything. `HostRuntime`: a driver that holds a lease takes its next step (weak), or a
fault ends it; nobody has to drive a request again. `Workbench` and its parts state no
fairness and no liveness: a caller may simply not come back.

## Proofs

Each `X_proof` extends `X`. The inductive invariant, a conjunction of named parts, is
in `X` (`IInv`, `ConflictInv`, `ChatInv`, `EvidenceInv`, `RequestInv`) or, where no
property uses its parts, in the proof module. Either way TLC has checked it on the
instance of the run before it was proved, except for one conjunct of `TaskInv` that
quantifies over all functions. Every safety property of a passing run, invariant or
action property, is proved for all values of the constants.

* `ReportDelivery_proof`: `SubmissionInv` (an open submission owns the lock, so
  what it has read is still what the database says) carries `VersionIsOneSnapshot`;
  `ApprovedIsLast` carries both delivery invariants. Proved: types, snapshot, files,
  single approval, the reviewed body, sound and latest delivery, finality.
* `ConflictCheck_proof`: a flag protocol. `PairCovered` says that of two conflicting
  cases one has recorded the other, or a request in flight will, or a check was cut
  off: each change commits before it reads. Proved: types, unchecked means cut off,
  conflicts seen by one side, separate decider, one decision.
* `ChatIdempotency_proof`: `ChatInv` with `RowIsLock`: the one submission at work holds the row
  fresh and in progress, and the row changes hands only when nobody works. Proved
  for any number of submissions if all of them stream and none outlives the limit;
  types and `ReplayIsTheTurn` without these two assumptions, deletions included. `ChatRefinement`: under them
  every step keeps a turn, tells one, lapses, or is a step of `AnswerOnce` that stutters.
* `BatchImport_proof`: `LockIsHeld`, `ManifestFirst`, `WorkIsKnown`, `InputsKept`.
  For the outcome, `OutcomeInv` adds that while a worker resumes, indexes or waits for
  its threads the batch has not ended, unless its request failed it (`WorkIsOpen`), and
  that it is none or queued in the hands of its request (`RequestOpens`). Proved: types,
  one worker at a time, completed means indexed, accepted batches keep their inputs,
  true outcomes, ended once.
* `AgentRuns_proof`: the status column of a run is its lock. `Inv` says that a thread
  in the graph holds its run (`HoldersRun`) and holds it alone (`OneHolder`), that a
  turn is the answer of a completed row (`TurnOfRun`), that a question starts over
  only a run that has no row (`FreshRuns`), that the draft of a checkpoint is one the
  critic wrote (`SavedDraft`), and how job, future and thread correspond
  (`JobAnswered`, `Submissions`, `DownIsIdle`). `Noticed` adds, for corrections, that
  a request knows a revision of the past (`SincePast`), that what any thread
  retrieves while a request waits is at least as new (`HoldersNotice`), and so is the
  checkpoint a request has tested (`ClaimNotices`). `Balanced` counts: the admissions
  that are not free are the jobs that hold one (`Holding`), a cardinality that each step
  leaves alone or moves by one; `Admissions` says how far a job's request, future and
  thread may be apart, so that nobody gives one back twice. Proved: types, one
  executor, turn and answer, completed jobs, jobs end once, earlier corrections are
  noticed, admissions balance.
* `HostRuntime_proof`: the lease (`OneLease`) makes the files of a run its driver's
  own, so what its sidecar has read is still true when it acts (`SidecarKnows`). The
  journal in those files is marked before a call: a node without an entry has not been
  called, an answered one has its receipt, and a success has completed every node
  (`FilesSound`); a run whose files are lost is not created again, because its
  one-time permission is spent (`Permitted`). `PurgeKnows` keeps the outbox row until
  the files are gone. `EndInv` is about ends: a run that has ended leaves no node open
  (`EndedFiles`), a sidecar works only on a run that has not ended and asks only for
  receipts of unknown nodes (`WorksOn`), and what was projected came from a permitted
  run (`CursorKnows`), so an end, once projected, is still what the files say. Proved:
  types, one call, complete success, purge, no effect after cancellation or deadline,
  current projections. `PromiseInv` then carries the refinement of `EffectsOnce`: an end
  without an event is that of a request closed before it got its permission
  (`EarlyEnds`), a sidecar that was stopped, and a run whose files say so, was stopped
  because the request is closed (`Accounts`, `CausedFiles`), and a receipt has its call
  (`ReceiptsFollow`). `StepKeeps` maps each action: most leave the promise alone, a
  request's row moves in one of a few ways (`RowMove`), and a sidecar's call is `Send`,
  its transaction `Commit`. `EndInv` and `PromiseInv` were checked with TLC on the
  instance of `host_durable` before they were proved.
* `EvidenceReview_proof`: `EvidenceInv`. A version is never given twice (`Ahead`), so a
  list or a request that holds the present version holds the present content
  (`LoadedSound`, `EditSound`), and the conditional UPDATE lets only such a request
  write. Proved: types, bound approval, standing quotes.
* `Workbench_proof` holds the proofs of six smaller modules.
  * `RequestInv`: the claim is a lock that is kept when its owner dies (`OwnerHolds`):
    only the owner starts a run and gives the claim back only before (`RunIsClaimed`,
    `LinkIsSound`). Proved: types, one run per request, callers are told only of their
    own run.
  * `SignInv`: every started flow counts in the window whose end it keeps; windows do not
    overlap, and a flow gives its attempt back at most once, so the count is the number
    of flows of the window that are not refunded (`CountedFlows`). What a
    deactivation or a rotation found open was closed with it and stays closed
    (`OutdatedIsClosed`). Proved: types, exact attempts,
    outdated sessions.
  * `TaskInv`: a row is known by its version, since each change raises it; a request
    that read the present version holds the present row (`MoveIsSound`), so what it was
    allowed then is legal now. `LogsTell` says that the events have one replay, which
    ends in the row. The replay is a recursive function in `EventsTellTheTask`: what it
    is for a given log needs no induction because its defining equation has one
    solution, and an event adds one row to that solution (`GrownReplay`). Proved: types,
    events tell the task.
  * `IndexInv`: a cached vector is of the text its hash names (`RowsHold`), what a search
    found and kept is of the texts it saw and the space it asks in (`SearchHolds`).
    Proved: types, vectors of the query.
  * `FrameworkInv`: the outputs grow by a new, planned node whose needs are done
    (`InPlannedOrder`), and each phase of the bridge rests on the tests before it
    (`BridgeKnows`). The plan is whole because the needs of the last node reach all of
    it. Proved: types, completed means whole.
  * `AnswerInv`: what the stage says of the last call (`LastCallIs`), and that on the
    critic's path at most the last call is owed a row, which the next step writes from
    the observation (`RowsFollow`, `Owed`). Proved: contract, critic's rows.

  `PartsAreIndependent` then shows that a behaviour of `Workbench` is one of each of its
  nine parts, `WorkbenchIsSafe` states for `Spec` of `Workbench` every invariant its run
  checks, and `WorkbenchAnswersOnce` the refinement.

Assumptions on constants are named ASSUMEs in the modules: finite or disjoint sets,
symmetric relations, natural bounds, and that a value standing for "none"
(`NoTask`, `NoOne`) is not a row. Only model-checked: what is temporal under fairness
(`WriterLockReleased`, `ExportsEnd`, `ManifestLeadsToEnd`, `RunsEnd`, `JobsEnd`, `DrivesEnd`),
which is out of the prover's reach, and every violation.

Where the code tests conditions in an order, the model does too: `Begin`, `StopReason`
and `FinishRun` of `HostRuntime` and `WaitForExit` of `FrameworkRun` are IF chains and
not CASEs, since TLA+ leaves open which arm of a CASE applies when two guards hold, and
a proof about such a CASE would have to cover both.

## Not modelled

Rendering, text extraction, retrieval scores, prompts and model answers are data;
offline evaluation, corpus building, scripts and the frontend keep no state that
other parts share. Case lifecycle writes one row per operation and nobody waits for
it. Information barriers are tested in the text of every query, which a state machine
of the barriers would not check. Domain integration repeats the protocol of
`HostRuntime` with other nodes. Of the modelled parts the following is left out: the
roles of members, so not whether two administrators may demote each other; annotations
and relations of evidence; the analysis that proposes evidence, which reads the
titles it must not repeat before its transaction; what each write of a host request
puts into its table. `PROJECT.json` gives the reason for each component.
