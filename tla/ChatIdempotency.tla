--------------------------- MODULE ChatIdempotency ---------------------------
(***************************************************************************)
(* Submitting one question under one client-generated request id           *)
(* (app/chat_idempotency.py, the chat endpoints of app/routes/chat.py,     *)
(* context.record_turn_with_id).                                           *)
(*                                                                         *)
(* begin reads the row of the id in autocommit and writes it in the        *)
(* transaction its first write opens; only when it sweeps old rows first   *)
(* does the transaction cover both.  The streaming endpoint calls begin on *)
(* the event loop, so no two streaming submissions are inside it at the    *)
(* same time; the plain endpoint calls it in the thread pool.              *)
(***************************************************************************)
EXTENDS Naturals, FiniteSets

CONSTANTS
    Submissions,   \* submissions and retries of the request id
    Streaming,     \* those that use the streaming endpoint
    Outlive,       \* TRUE if an answer may take longer than STALE_IN_PROGRESS
    NoTurn

ASSUME StreamingAssumption == Streaming \subseteq Submissions
ASSUME OutliveAssumption == Outlive \in BOOLEAN
ASSUME NoTurnAssumption == NoTurn \notin Submissions

VARIABLES
    row,           \* the chat_requests row of the id
    age,           \* how old updated_at of that row is
    sub,           \* what each submission is doing
    cancelled,     \* streaming submissions whose client is gone
    turns,         \* submissions whose question and answer are in messages
    conversation,  \* state of the conversation the question names, if it names one
    erased,        \* history: turns whose conversation was deleted
    forgotten      \* history: the sweep deleted the row

chatVars == <<row, age, sub, cancelled, turns, conversation, erased, forgotten>>

-----------------------------------------------------------------------------
NoRow == [status |-> "none", turn |-> NoTurn]

Row(status, turn) == [status |-> status, turn |-> turn]

Doing(phase) == [phase |-> phase]

\* Submissions that work on an answer and may still write.
Working == {"running", "recording", "failing", "cancelling"}

Goto(s, state) == sub' = [sub EXCEPT ![s] = state]

Live == {s \in Submissions : sub[s].phase \in Working}

-----------------------------------------------------------------------------
(* Mistakes the code could contain; PROJECT.json pairs each with the        *)
(* definition it replaces and the property that must notice it.             *)

NeverReplayed(status) == FALSE

-----------------------------------------------------------------------------
ChatInit ==
    /\ row = NoRow
    /\ age = "fresh"
    /\ sub = [s \in Submissions |-> Doing("idle")]
    /\ cancelled = {}
    /\ turns = {}
    /\ conversation \in {"unnamed", "active"}
    /\ erased = {}
    /\ forgotten = FALSE

\* A committed row is replayed, a fresh one in progress is refused with 409.
IsReplayed(status)     == status = "committed"
Refused(status, old) == status = "in_progress" /\ ~old

Claimed(s) == Row("in_progress", NoTurn)

\* The event loop runs one streaming begin at a time.
LoopFree(s) == s \in Streaming => \A t \in Streaming : sub[t].phase # "claiming"

\* begin, its SELECT.
BeginRead(s) ==
    /\ sub[s].phase = "idle"
    /\ LoopFree(s)
    /\ Goto(s, IF IsReplayed(row.status)
               THEN [phase |-> "replayed", turn |-> row.turn]
               ELSE IF Refused(row.status, age # "fresh")
               THEN Doing("refused")
               ELSE [phase |-> "claiming", insert |-> row.status = "none"])
    /\ UNCHANGED <<row, age, cancelled, turns, conversation, erased, forgotten>>

\* begin, its INSERT or UPDATE.  The INSERT fails on the primary key when
\* another submission was faster; the UPDATE matches whatever the row is now.
BeginWrite(s) ==
    /\ sub[s].phase = "claiming"
    /\ IF sub[s].insert /\ row # NoRow
       THEN Goto(s, Doing("failed")) /\ UNCHANGED <<row, age>>
       ELSE /\ Goto(s, Doing("running"))
            /\ IF sub[s].insert \/ row # NoRow
               THEN row' = Claimed(s) /\ age' = "fresh"
               ELSE UNCHANGED <<row, age>>
    /\ UNCHANGED <<cancelled, turns, conversation, erased, forgotten>>

\* begin, once an hour: the sweep opens the transaction, the rest follows in it.
BeginSweeping(s) ==
    LET swept  == age = "expired" /\ row # NoRow
        status == IF swept THEN "none" ELSE row.status
    IN  /\ sub[s].phase = "idle"
        /\ LoopFree(s)
        /\ forgotten' = (forgotten \/ swept)
        /\ IF IsReplayed(status)
           THEN Goto(s, [phase |-> "replayed", turn |-> row.turn]) /\ UNCHANGED <<row, age>>
           ELSE IF Refused(status, age # "fresh")
           THEN Goto(s, Doing("refused")) /\ UNCHANGED <<row, age>>
           ELSE Goto(s, Doing("running")) /\ row' = Claimed(s) /\ age' = "fresh"
        /\ UNCHANGED <<cancelled, turns, conversation, erased>>

\* A begin for another request id sweeps this one.
SweepByOthers ==
    /\ age = "expired" /\ row # NoRow
    /\ row' = NoRow
    /\ forgotten' = TRUE
    /\ UNCHANGED <<age, sub, cancelled, turns, conversation, erased>>

Disconnect(s) ==
    /\ s \in Streaming
    /\ sub[s].phase \in Working
    /\ cancelled' = cancelled \cup {s}
    /\ UNCHANGED <<row, age, sub, turns, conversation, erased, forgotten>>

\* Retrieval and model calls are over: record_turn_with_id looks at the cancel
\* flag and reads the conversation, if one is named, before its first write.
MayRecord(s) ==
    /\ sub[s].phase = "running" /\ s \notin cancelled
    /\ conversation \in {"unnamed", "active"}

RecordStart(s) ==
    /\ MayRecord(s)
    /\ Goto(s, Doing("recording"))
    /\ UNCHANGED <<row, age, cancelled, turns, conversation, erased, forgotten>>

\* The messages, in a new conversation if none is named, and the committed row
\* become visible together; the foreign key refuses a conversation deleted since
\* it was read.  A connection lost after the COMMIT reports an error for a turn
\* that is written.
Commit(s) ==
    /\ sub[s].phase = "recording"
    /\ conversation # "deleted"
    /\ turns' = turns \cup {s}
    /\ IF row # NoRow
       THEN row' = Row("committed", s) /\ age' = "fresh"
       ELSE UNCHANGED <<row, age>>
    /\ \/ Goto(s, Doing("answered"))
       \/ Goto(s, Doing("failing"))
    /\ UNCHANGED <<cancelled, conversation, erased, forgotten>>

\* ChatCancelled is raised before the model call or before the transaction.
NoticeCancel(s) ==
    /\ sub[s].phase = "running" /\ s \in cancelled
    /\ Goto(s, Doing("cancelling"))
    /\ UNCHANGED <<row, age, cancelled, turns, conversation, erased, forgotten>>

\* An archived or deleted conversation, a model error, a lock timeout.
Fail(s) ==
    /\ sub[s].phase \in {"running", "recording"}
    /\ Goto(s, Doing("failing"))
    /\ UNCHANGED <<row, age, cancelled, turns, conversation, erased, forgotten>>

\* UPDATE ... WHERE status = 'in_progress'
FinishApplies == row.status = "in_progress"

\* The marker is best effort; it may not be written.
Finish(s) ==
    /\ sub[s].phase \in {"failing", "cancelling"}
    /\ \/ /\ FinishApplies
          /\ row' = Row(IF sub[s].phase = "failing" THEN "failed" ELSE "cancelled", row.turn)
          /\ age' = "fresh"
       \/ UNCHANGED <<row, age>>
    /\ Goto(s, Doing("failed"))
    /\ UNCHANGED <<cancelled, turns, conversation, erased, forgotten>>

-----------------------------------------------------------------------------
(* The environment                                                         *)

ArchiveConversation ==
    /\ conversation = "active"
    /\ conversation' = "archived"
    /\ UNCHANGED <<row, age, sub, cancelled, turns, erased, forgotten>>

\* delete_conversation, or the purge of archived ones: the messages go, the row
\* of the request id stays with the answer.  A question that named none made a
\* conversation of its own with each turn.
DeleteConversation ==
    /\ \/ /\ conversation \in {"active", "archived"} /\ conversation' = "deleted"
          /\ turns' = {}
       \/ /\ conversation = "unnamed" /\ UNCHANGED conversation
          /\ \E s \in turns : turns' = turns \ {s}
    /\ erased' = erased \cup (turns \ turns')
    /\ UNCHANGED <<row, age, sub, cancelled, forgotten>>

\* Fifteen minutes pass, then seven days; no answer takes seven days.
TimePasses ==
    /\ row # NoRow
    /\ \/ age = "fresh" /\ (Outlive \/ Live = {}) /\ age' = "stale"
       \/ age = "stale" /\ Live = {} /\ age' = "expired"
    /\ \A s \in Submissions : sub[s].phase # "claiming"
    /\ UNCHANGED <<row, sub, cancelled, turns, conversation, erased, forgotten>>

ChatCrash ==
    /\ sub' = [s \in Submissions |->
                  IF sub[s].phase \in Working \cup {"claiming"} THEN Doing("failed") ELSE sub[s]]
    /\ UNCHANGED <<row, age, cancelled, turns, conversation, erased, forgotten>>

ChatNext ==
    \/ \E s \in Submissions :
          \/ BeginRead(s) \/ BeginWrite(s) \/ BeginSweeping(s)
          \/ Disconnect(s) \/ RecordStart(s) \/ Commit(s) \/ NoticeCancel(s)
          \/ Fail(s) \/ Finish(s)
    \/ SweepByOthers \/ ArchiveConversation \/ DeleteConversation \/ TimePasses \/ ChatCrash

ChatSpec == ChatInit /\ [][ChatNext]_chatVars
-----------------------------------------------------------------------------
ChatStatuses == {"in_progress", "committed", "failed", "cancelled"}

SubmissionState ==
    [phase : {"idle", "refused", "answered", "failed"} \cup Working]
    \cup [phase : {"claiming"}, insert : BOOLEAN]
    \cup [phase : {"replayed"}, turn : Submissions]

\* Every variable stays in its type: a row is absent or has one of the four
\* statuses, and what a replay returns is a turn.
ChatTypeOK ==
    /\ row \in {NoRow} \cup [status : ChatStatuses, turn : Submissions \cup {NoTurn}]
    /\ age \in {"fresh", "stale", "expired"}
    /\ sub \in [Submissions -> SubmissionState]
    /\ cancelled \subseteq Streaming
    /\ turns \subseteq Submissions
    /\ conversation \in {"unnamed", "active", "archived", "deleted"}
    /\ erased \subseteq Submissions
    /\ forgotten \in BOOLEAN

\* Turns that were committed, also those deleted with their conversation since.
WrittenTurns == turns \cup erased

\* One request id never yields two question-and-answer pairs, however often and
\* however late the client retries, until the row is swept; not even after the
\* first pair is deleted with its conversation.
AtMostOneTurn ==
    ~forgotten => \A s, t \in WrittenTurns : s = t

\* Once committed, the id stays committed with the same turn for the seven days
\* of its retention, whatever retries, failures and late markers follow.
CommittedStays ==
    [][row.status = "committed" /\ ~forgotten => row' = row \/ age = "expired"]_chatVars

\* Module docstring: failed and cancelled mean that nothing was written, so a
\* retry may run again.
FailedWroteNothing ==
    row.status \in {"failed", "cancelled"} /\ ~forgotten => WrittenTurns = {}

\* A turn that was committed whole, and that is in its conversation as long as a
\* conversation the question named exists.
InItsConversation(t) ==
    t \in WrittenTurns /\ (conversation \in {"active", "archived"} => t \in turns)

\* A committed row and a replay show a turn whose messages were written with it;
\* nothing but the deletion of their conversation takes them away.
ReplayIsTheTurn ==
    /\ \A s \in Submissions : sub[s].phase = "replayed" => InItsConversation(sub[s].turn)
    /\ row.status = "committed" => InItsConversation(row.turn)

\* Submitting implements the abstract promise of AnswerOnce: the kept turn is
\* that of the committed row, and a client was told the turn it wrote or the one
\* a replay gave it.
KeptTurn == IF row.status = "committed" THEN row.turn ELSE NoTurn

ToldTurn == [s \in Submissions |-> CASE sub[s].phase = "answered" -> s
                                     [] sub[s].phase = "replayed" -> sub[s].turn
                                     [] OTHER -> NoTurn]

Promise == INSTANCE AnswerOnce
           WITH Clients <- Submissions, Nothing <- NoTurn,
                kept <- KeptTurn, told <- ToldTurn, lapsed <- forgotten

SubmitsOnce == Promise!Spec

-----------------------------------------------------------------------------
(* The inductive invariant behind AtMostOneTurn, FailedWroteNothing and     *)
(* CommittedStays where every submission streams and none outlives          *)
(* STALE_IN_PROGRESS: the row is a lock that its only worker holds.          *)

Busy == {s \in Submissions : sub[s].phase \in Working \cup {"claiming"}}

OneWorker == \A s, t \in Busy : s = t

\* A worker holds a fresh row in progress; only one that lost its connection
\* after the COMMIT still runs under a committed one.
WorkerHoldsRow ==
    \A s \in Live :
        /\ age = "fresh"
        /\ \/ row.status = "in_progress"
           \/ row.status = "committed" /\ sub[s].phase = "failing"

ClaimFindsRow ==
    \A s \in Submissions :
        sub[s].phase = "claiming" =>
            /\ row.status # "committed"
            /\ ~sub[s].insert => row # NoRow

TurnIsCommitted ==
    WrittenTurns # {} => row.status = "committed" /\ WrittenTurns = {row.turn}

RowIsLock ==
    ~forgotten => OneWorker /\ WorkerHoldsRow /\ ClaimFindsRow /\ TurnIsCommitted

ChatInv == ChatTypeOK /\ ReplayIsTheTurn /\ RowIsLock
=============================================================================
