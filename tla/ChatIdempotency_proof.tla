------------------------ MODULE ChatIdempotency_proof ------------------------
(***************************************************************************)
(* Theorems about ChatIdempotency.  The row of the request id is a lock:   *)
(* as long as every submission streams and none outlives                   *)
(* STALE_IN_PROGRESS, the one submission at work holds it in progress, and *)
(* it changes hands only when nobody is at work.                           *)
(***************************************************************************)
EXTENDS ChatIdempotency, TLAPS

\* What every submission may do in one step.
LEMMA EachStep ==
  ASSUME [ChatNext]_chatVars,
         NEW P,
         \A s \in Submissions : BeginRead(s) => P,
         \A s \in Submissions : BeginWrite(s) => P,
         \A s \in Submissions : BeginSweeping(s) => P,
         \A s \in Submissions : Disconnect(s) => P,
         \A s \in Submissions : RecordStart(s) => P,
         \A s \in Submissions : Commit(s) => P,
         \A s \in Submissions : NoticeCancel(s) => P,
         \A s \in Submissions : Fail(s) => P,
         \A s \in Submissions : Finish(s) => P,
         SweepByOthers => P, ArchiveConversation => P, DeleteConversation => P,
         TimePasses => P, ChatCrash => P,
         UNCHANGED chatVars => P
  PROVE  P
  BY Zenon DEF ChatNext

LEMMA InitChat == ChatInit => ChatInv
<1> SUFFICES ASSUME ChatInit PROVE ChatInv
  OBVIOUS
<1>1. ChatTypeOK
  BY DEF ChatInit, ChatTypeOK, SubmissionState, Doing, NoRow
<1>2. ReplayIsTheTurn
  BY DEF ChatInit, ReplayIsTheTurn, InItsConversation, Doing, NoRow
<1>3. RowIsLock
  BY DEF ChatInit, RowIsLock, OneWorker, WorkerHoldsRow, ClaimFindsRow, TurnIsCommitted,
         WrittenTurns, Busy, Live, Working, Doing, NoRow
<1> QED
  BY <1>1, <1>2, <1>3 DEF ChatInv

\* ChatTypeOK and ReplayIsTheTurn need neither assumption.
LEMMA NextType == ChatTypeOK /\ ReplayIsTheTurn /\ [ChatNext]_chatVars => ChatTypeOK'
<1> SUFFICES ASSUME ChatTypeOK, ReplayIsTheTurn, [ChatNext]_chatVars PROVE ChatTypeOK'
  OBVIOUS
<1> USE DEF ChatTypeOK, ReplayIsTheTurn, InItsConversation, WrittenTurns, Goto
<1>1. ASSUME NEW s \in Submissions, BeginRead(s) PROVE ChatTypeOK'
  <2>1. row.status = "committed" => row.turn \in Submissions
    OBVIOUS
  <2> QED
    BY <1>1, <2>1 DEF BeginRead, SubmissionState, Doing, IsReplayed
<1>2. ASSUME NEW s \in Submissions, BeginWrite(s) PROVE ChatTypeOK'
  BY <1>2 DEF BeginWrite, SubmissionState, Doing, Working, Claimed, Row, ChatStatuses
<1>3. ASSUME NEW s \in Submissions, BeginSweeping(s) PROVE ChatTypeOK'
  BY <1>3 DEF BeginSweeping, SubmissionState, Doing, Working, Claimed, Row, ChatStatuses, IsReplayed
<1>4. ASSUME NEW s \in Submissions, Disconnect(s) PROVE ChatTypeOK'
  BY <1>4 DEF Disconnect
<1>5. ASSUME NEW s \in Submissions, RecordStart(s) PROVE ChatTypeOK'
  BY <1>5 DEF RecordStart, MayRecord, SubmissionState, Doing, Working
<1>6. ASSUME NEW s \in Submissions, Commit(s) PROVE ChatTypeOK'
  BY <1>6 DEF Commit, SubmissionState, Doing, Working, Row, ChatStatuses
<1>7. ASSUME NEW s \in Submissions, NoticeCancel(s) PROVE ChatTypeOK'
  BY <1>7 DEF NoticeCancel, SubmissionState, Doing, Working
<1>8. ASSUME NEW s \in Submissions, Fail(s) PROVE ChatTypeOK'
  BY <1>8 DEF Fail, SubmissionState, Doing, Working
<1>9. ASSUME NEW s \in Submissions, Finish(s) PROVE ChatTypeOK'
  BY <1>9 DEF Finish, FinishApplies, SubmissionState, Doing, Row, ChatStatuses, NoRow
<1>10. SweepByOthers => ChatTypeOK'
  BY DEF SweepByOthers
<1>11. ArchiveConversation => ChatTypeOK'
  BY DEF ArchiveConversation
<1>12. TimePasses => ChatTypeOK'
  BY DEF TimePasses
<1>13. ChatCrash => ChatTypeOK'
  BY DEF ChatCrash, SubmissionState, Doing
<1>14. DeleteConversation => ChatTypeOK'
  BY DEF DeleteConversation
<1>15. UNCHANGED chatVars => ChatTypeOK'
  BY DEF chatVars
<1> QED
  <2> HIDE DEF ChatTypeOK
  <2> QED
    BY <1>1, <1>2, <1>3, <1>4, <1>5, <1>6, <1>7, <1>8, <1>9, <1>10, <1>11, <1>12, <1>13, <1>14, <1>15, EachStep, Zenon

LEMMA NextReplay ==
  ChatTypeOK /\ ReplayIsTheTurn /\ [ChatNext]_chatVars => ReplayIsTheTurn'
<1> SUFFICES ASSUME ChatTypeOK, ReplayIsTheTurn, [ChatNext]_chatVars PROVE ReplayIsTheTurn'
  OBVIOUS
<1> USE DEF ChatTypeOK, ReplayIsTheTurn, InItsConversation, WrittenTurns, Goto, Doing
<1>1. ASSUME NEW s \in Submissions, BeginRead(s) PROVE ReplayIsTheTurn'
  BY <1>1 DEF BeginRead, IsReplayed
<1>2. ASSUME NEW s \in Submissions, BeginWrite(s) PROVE ReplayIsTheTurn'
  BY <1>2 DEF BeginWrite, Claimed, Row
<1>3. ASSUME NEW s \in Submissions, BeginSweeping(s) PROVE ReplayIsTheTurn'
  BY <1>3 DEF BeginSweeping, Claimed, Row, IsReplayed
<1>4. ASSUME NEW s \in Submissions, Disconnect(s) PROVE ReplayIsTheTurn'
  BY <1>4 DEF Disconnect
<1>5. ASSUME NEW s \in Submissions, RecordStart(s) PROVE ReplayIsTheTurn'
  BY <1>5 DEF RecordStart
<1>6. ASSUME NEW s \in Submissions, Commit(s) PROVE ReplayIsTheTurn'
  BY <1>6 DEF Commit, Row
<1>7. ASSUME NEW s \in Submissions, NoticeCancel(s) PROVE ReplayIsTheTurn'
  BY <1>7 DEF NoticeCancel
<1>8. ASSUME NEW s \in Submissions, Fail(s) PROVE ReplayIsTheTurn'
  BY <1>8 DEF Fail
<1>9. ASSUME NEW s \in Submissions, Finish(s) PROVE ReplayIsTheTurn'
  BY <1>9 DEF Finish, Row
<1>10. SweepByOthers => ReplayIsTheTurn'
  BY DEF SweepByOthers, NoRow
<1>11. ArchiveConversation => ReplayIsTheTurn'
  BY DEF ArchiveConversation
<1>12. TimePasses => ReplayIsTheTurn'
  BY DEF TimePasses
<1>13. ChatCrash => ReplayIsTheTurn'
  BY DEF ChatCrash
<1>14. DeleteConversation => ReplayIsTheTurn'
  BY DEF DeleteConversation
<1>15. UNCHANGED chatVars => ReplayIsTheTurn'
  BY DEF chatVars
<1> QED
  <2> HIDE DEF ReplayIsTheTurn, ChatTypeOK
  <2> QED
    BY <1>1, <1>2, <1>3, <1>4, <1>5, <1>6, <1>7, <1>8, <1>9, <1>10, <1>11, <1>12, <1>13, <1>14, <1>15, EachStep, Zenon

\* The steps after which the row may not have been forgotten.
LEMMA NextLock ==
  ASSUME Streaming = Submissions, Outlive = FALSE, ChatInv, [ChatNext]_chatVars
  PROVE  RowIsLock'
<1> SUFFICES ASSUME ~forgotten'
             PROVE  (OneWorker /\ WorkerHoldsRow /\ ClaimFindsRow /\ TurnIsCommitted)'
  BY DEF RowIsLock
<1> DEFINE Lock == OneWorker /\ WorkerHoldsRow /\ ClaimFindsRow /\ TurnIsCommitted
<1>typ. ChatTypeOK /\ ReplayIsTheTurn /\ RowIsLock
  BY DEF ChatInv
<1>old. ~forgotten /\ Lock
  <2>1. ~forgotten
    <3>1. forgotten \in BOOLEAN
      BY <1>typ DEF ChatTypeOK
    <3> QED
      BY <3>1, EachStep DEF BeginRead, BeginWrite, BeginSweeping, Disconnect, RecordStart, Commit,
         NoticeCancel, Fail, Finish, SweepByOthers, ArchiveConversation, DeleteConversation, TimePasses, ChatCrash, chatVars
  <2> QED
    BY <2>1, <1>typ DEF RowIsLock
\* Whoever begins finds nobody at work.
<1>free. ASSUME NEW s \in Submissions, LoopFree(s), ~IsReplayed(row.status),
                ~Refused(row.status, age # "fresh")
         PROVE  Busy = {}
  <2>1. \A t \in Submissions : sub[t].phase # "claiming"
    BY <1>free DEF LoopFree
  <2>2. Live = {}
    BY <1>free, <1>old DEF WorkerHoldsRow, IsReplayed, Refused
  <2> QED
    BY <2>1, <2>2 DEF Busy, Live
<1> USE DEF OneWorker, WorkerHoldsRow, ClaimFindsRow, TurnIsCommitted, WrittenTurns, Busy, Live, Working,
            Goto, Doing
<1>1. ASSUME NEW s \in Submissions, BeginRead(s) PROVE Lock'
  <2>1. CASE IsReplayed(row.status) \/ Refused(row.status, age # "fresh")
    BY <1>1, <2>1, <1>old, <1>typ DEF BeginRead, ChatTypeOK
  <2>2. CASE ~IsReplayed(row.status) /\ ~Refused(row.status, age # "fresh")
    <3>1. Busy = {}
      BY <1>1, <2>2, <1>free DEF BeginRead
    <3>2. sub' = [sub EXCEPT ![s] = [phase |-> "claiming", insert |-> row.status = "none"]]
      BY <1>1, <2>2 DEF BeginRead
    <3>3. row.status # "none" => row # NoRow
      BY DEF NoRow
    <3>4. row' = row /\ turns' = turns /\ erased' = erased
      BY <1>1 DEF BeginRead
    <3>5. \A t \in Submissions : t # s => sub'[t] = sub[t] /\ t \notin Busy
      BY <3>1, <3>2, <1>typ DEF ChatTypeOK
    <3>6. sub'[s] = [phase |-> "claiming", insert |-> row.status = "none"]
      BY <3>2, <1>typ DEF ChatTypeOK
    <3>7. OneWorker' /\ WorkerHoldsRow'
      BY <3>5, <3>6
    <3>8. ClaimFindsRow'
      <4> SUFFICES ASSUME NEW t \in Submissions, sub'[t].phase = "claiming"
                   PROVE  row.status # "committed" /\ (~sub'[t].insert => row # NoRow)
        BY <3>4 DEF NoRow
      <4>1. t = s
        BY <3>5
      <4>2. ~sub'[s].insert => row # NoRow
        <5> DEFINE inserts == row.status = "none"
        <5>1. sub'[s].insert = inserts
          <6> HIDE DEF inserts
          <6>1. sub'[s] = [phase |-> "claiming", insert |-> inserts]
            BY <3>6 DEF inserts
          <6> QED
            BY <6>1
        <5> QED
          BY <5>1, <3>3, Zenon
      <4> QED
        BY <4>1, <4>2, <2>2 DEF IsReplayed
    <3> QED
      BY <3>4, <3>7, <3>8, <1>old
  <2> QED
    BY <2>1, <2>2
<1>2. ASSUME NEW s \in Submissions, BeginWrite(s) PROVE Lock'
  <2>1. Busy = {s} /\ turns = {} /\ erased = {}
    BY <1>2, <1>old DEF BeginWrite
  <2>2. CASE sub[s].insert /\ row # NoRow
    BY <1>2, <2>1, <2>2, <1>old, <1>typ DEF BeginWrite, ChatTypeOK
  <2>3. CASE ~(sub[s].insert /\ row # NoRow)
    <3>1. sub[s].insert \/ row # NoRow
      BY <1>2, <1>old DEF BeginWrite
    <3>2. /\ sub' = [sub EXCEPT ![s] = [phase |-> "running"]]
          /\ row' = [status |-> "in_progress", turn |-> NoTurn] /\ age' = "fresh"
          /\ turns' = turns /\ erased' = erased
      BY <1>2, <2>3, <3>1 DEF BeginWrite, Claimed, Row
    <3> QED
      BY <2>1, <3>2, <1>typ DEF ChatTypeOK
  <2> QED
    BY <2>2, <2>3
<1>3. ASSUME NEW s \in Submissions, BeginSweeping(s) PROVE Lock'
  <2>1. ~(age = "expired" /\ row # NoRow)
    BY <1>3 DEF BeginSweeping
  <2>2. CASE IsReplayed(row.status) \/ Refused(row.status, age # "fresh")
    BY <1>3, <2>1, <2>2, <1>old, <1>typ DEF BeginSweeping, ChatTypeOK
  <2>3. CASE ~IsReplayed(row.status) /\ ~Refused(row.status, age # "fresh")
    <3>1. Busy = {}
      BY <1>3, <2>3, <1>free DEF BeginSweeping
    <3>2. /\ sub' = [sub EXCEPT ![s] = [phase |-> "running"]]
          /\ row' = [status |-> "in_progress", turn |-> NoTurn] /\ age' = "fresh"
          /\ turns' = turns /\ erased' = erased
      BY <1>3, <2>1, <2>3 DEF BeginSweeping, Claimed, Row
    <3>3. turns = {} /\ erased = {}
      BY <2>3, <1>old DEF IsReplayed
    <3> QED
      BY <3>1, <3>2, <3>3, <1>typ DEF ChatTypeOK
  <2> QED
    BY <2>2, <2>3
<1>4. ASSUME NEW s \in Submissions, Disconnect(s) PROVE Lock'
  BY <1>4, <1>old DEF Disconnect
<1>5. ASSUME NEW s \in Submissions, RecordStart(s) PROVE Lock'
  BY <1>5, <1>old, <1>typ DEF RecordStart, MayRecord, ChatTypeOK
<1>6. ASSUME NEW s \in Submissions, Commit(s) PROVE Lock'
  <2>1. Busy = {s} /\ row.status = "in_progress" /\ age = "fresh"
    BY <1>6, <1>old DEF Commit
  <2>2. row # NoRow /\ turns = {} /\ erased = {}
    BY <2>1, <1>old DEF NoRow
  <2>3. /\ row' = [status |-> "committed", turn |-> s] /\ age' = "fresh"
        /\ turns' = {s} /\ erased' = {}
        /\ \/ sub' = [sub EXCEPT ![s] = [phase |-> "answered"]]
           \/ sub' = [sub EXCEPT ![s] = [phase |-> "failing"]]
    BY <1>6, <2>2 DEF Commit, Row
  <2> QED
    BY <2>1, <2>3, <1>typ DEF ChatTypeOK
<1>7. ASSUME NEW s \in Submissions, NoticeCancel(s) PROVE Lock'
  BY <1>7, <1>old, <1>typ DEF NoticeCancel, ChatTypeOK
<1>8. ASSUME NEW s \in Submissions, Fail(s) PROVE Lock'
  BY <1>8, <1>old, <1>typ DEF Fail, ChatTypeOK
<1>9. ASSUME NEW s \in Submissions, Finish(s) PROVE Lock'
  <2>1. Busy = {s}
    BY <1>9, <1>old DEF Finish
  <2>2. sub' = [sub EXCEPT ![s] = [phase |-> "failed"]] /\ turns' = turns /\ erased' = erased
    BY <1>9 DEF Finish
  <2>3. Busy' = {}
    BY <2>1, <2>2, <1>typ DEF ChatTypeOK
  <2>4. row.status = "committed" => row' = row
    BY <1>9 DEF Finish, FinishApplies
  <2> QED
    BY <2>2, <2>3, <2>4, <1>old
<1>10. SweepByOthers => Lock'
  BY DEF SweepByOthers
<1>11. ArchiveConversation => Lock'
  BY <1>old DEF ArchiveConversation
<1>12. TimePasses => Lock'
  BY <1>old DEF TimePasses
<1>13. ChatCrash => Lock'
  <2> SUFFICES ASSUME ChatCrash PROVE Lock'
    OBVIOUS
  <2>1. Busy' = {}
    BY <1>typ DEF ChatCrash, ChatTypeOK
  <2> QED
    BY <2>1, <1>old DEF ChatCrash
<1>14. DeleteConversation => Lock'
  BY <1>old, <1>typ DEF DeleteConversation, ChatTypeOK
<1>15. UNCHANGED chatVars => Lock'
  BY <1>old DEF chatVars
<1> QED
  <2> HIDE DEF Lock
  <2>1. Lock'
    BY <1>1, <1>2, <1>3, <1>4, <1>5, <1>6, <1>7, <1>8, <1>9, <1>10, <1>11, <1>12, <1>13, <1>14, <1>15, EachStep, Zenon
  <2> QED
    BY <2>1 DEF Lock

-----------------------------------------------------------------------------
\* Every variable stays in its type, whatever is streamed and however long an
\* answer takes.
THEOREM ChatTypeCorrect == ChatSpec => []ChatTypeOK
<1>1. ChatInit => ChatTypeOK /\ ReplayIsTheTurn
  BY InitChat DEF ChatInv
<1>2. ChatTypeOK /\ ReplayIsTheTurn /\ [ChatNext]_chatVars => (ChatTypeOK /\ ReplayIsTheTurn)'
  BY NextType, NextReplay
<1> QED
  BY <1>1, <1>2, PTL DEF ChatSpec

\* A replay shows a turn that was written whole, and that is still in the
\* conversation the question named unless that conversation is deleted, whatever
\* is streamed and however long an answer takes: the mark and the messages share
\* a transaction.
THEOREM ReplayedTurnExists == ChatSpec => []ReplayIsTheTurn
<1>1. ChatInit => ChatTypeOK /\ ReplayIsTheTurn
  BY InitChat DEF ChatInv
<1>2. ChatTypeOK /\ ReplayIsTheTurn /\ [ChatNext]_chatVars => (ChatTypeOK /\ ReplayIsTheTurn)'
  BY NextType, NextReplay
<1> QED
  BY <1>1, <1>2, PTL DEF ChatSpec

\* The row is a lock held by the one submission at work.
THEOREM ChatInvariance ==
  ASSUME Streaming = Submissions, Outlive = FALSE
  PROVE  ChatSpec => []ChatInv
<1>1. ChatInv /\ [ChatNext]_chatVars => ChatInv'
  BY NextType, NextReplay, NextLock DEF ChatInv
<1> QED
  BY InitChat, <1>1, PTL DEF ChatSpec

\* Any number of streaming submissions under one request id, retried however
\* often and crashed anywhere, yields at most one question-and-answer pair as
\* long as no answer takes longer than STALE_IN_PROGRESS.
THEOREM OneTurn ==
  ASSUME Streaming = Submissions, Outlive = FALSE
  PROVE  ChatSpec => []AtMostOneTurn
<1>1. ChatInv => AtMostOneTurn
  BY DEF ChatInv, RowIsLock, TurnIsCommitted, AtMostOneTurn
<1> QED
  BY <1>1, ChatInvariance, PTL

\* Under the same assumptions a failed or cancelled row means that nothing was
\* written.
THEOREM FailureWroteNothing ==
  ASSUME Streaming = Submissions, Outlive = FALSE
  PROVE  ChatSpec => []FailedWroteNothing
<1>1. ChatInv => FailedWroteNothing
  BY DEF ChatInv, RowIsLock, TurnIsCommitted, FailedWroteNothing
<1> QED
  BY <1>1, ChatInvariance, PTL

\* Under the same assumptions a committed row changes only after it expired.
THEOREM CommitIsFinal ==
  ASSUME Streaming = Submissions, Outlive = FALSE
  PROVE  ChatSpec => CommittedStays
<1>1. ChatInv /\ [ChatNext]_chatVars => [row.status = "committed" /\ ~forgotten => row' = row \/ age = "expired"]_chatVars
  <2> SUFFICES ASSUME ChatInv, [ChatNext]_chatVars, row.status = "committed", ~forgotten, age # "expired"
               PROVE  row' = row
    OBVIOUS
  <2>1. \A s \in Submissions : sub[s].phase \notin {"claiming", "recording"}
    BY DEF ChatInv, RowIsLock, WorkerHoldsRow, ClaimFindsRow, Live, Working
  <2> QED
    BY <2>1, EachStep DEF BeginRead, BeginWrite, BeginSweeping, Disconnect, RecordStart, Commit,
         NoticeCancel, Fail, Finish, FinishApplies, SweepByOthers, ArchiveConversation,
         DeleteConversation, TimePasses, ChatCrash,
         chatVars, IsReplayed
<1> QED
  BY <1>1, ChatInvariance, PTL DEF CommittedStays, ChatSpec

-----------------------------------------------------------------------------
(* The refinement of AnswerOnce.                                            *)

\* What a submission was told depends on its own state only.
LEMMA ToldOf ==
  ASSUME NEW s \in Submissions
  PROVE  /\ sub[s].phase = "answered" => ToldTurn[s] = s
         /\ sub[s].phase = "replayed" => ToldTurn[s] = sub[s].turn
         /\ sub[s].phase \notin {"answered", "replayed"} => ToldTurn[s] = NoTurn
  BY DEF ToldTurn

LEMMA ToldOfNext ==
  ASSUME NEW s \in Submissions
  PROVE  /\ sub'[s].phase = "answered" => ToldTurn'[s] = s
         /\ sub'[s].phase = "replayed" => ToldTurn'[s] = sub'[s].turn
         /\ sub'[s].phase \notin {"answered", "replayed"} => ToldTurn'[s] = NoTurn
  BY DEF ToldTurn

LEMMA PromiseTypeNext ==
  ASSUME ChatTypeOK'
  PROVE  /\ KeptTurn' \in Submissions \cup {NoTurn}
         /\ ToldTurn' \in [Submissions -> Submissions \cup {NoTurn}]
<1>1. KeptTurn' \in Submissions \cup {NoTurn}
  BY DEF KeptTurn, ChatTypeOK, NoRow
<1>2. ASSUME NEW s \in Submissions PROVE ToldTurn'[s] \in Submissions \cup {NoTurn}
  <2>1. sub'[s] \in SubmissionState
    BY DEF ChatTypeOK
  <2>2. sub'[s].phase = "replayed" => sub'[s].turn \in Submissions
    BY <2>1 DEF SubmissionState, Working
  <2> QED
    BY <2>2, ToldOfNext
<1> QED
  BY <1>1, <1>2 DEF ToldTurn

\* One submission moves; what it and the others were told afterwards.
LEMMA ToldMoves ==
  ASSUME ChatTypeOK, NEW s \in Submissions, NEW x, Goto(s, x)
  PROVE  /\ x.phase \notin {"answered", "replayed"} /\ sub[s].phase \notin {"answered", "replayed"}
              => ToldTurn' = ToldTurn
         /\ x.phase = "answered" => ToldTurn' = [ToldTurn EXCEPT ![s] = s]
         /\ x.phase = "replayed" => ToldTurn' = [ToldTurn EXCEPT ![s] = x.turn]
<1>1. sub'[s] = x /\ \A t \in Submissions \ {s} : sub'[t] = sub[t]
  BY DEF Goto, ChatTypeOK
<1>2. \A t \in Submissions \ {s} : ToldTurn'[t] = ToldTurn[t]
  BY <1>1 DEF ToldTurn
<1>3. ToldTurn = [t \in Submissions |-> ToldTurn[t]] /\ ToldTurn' = [t \in Submissions |-> ToldTurn'[t]]
  BY DEF ToldTurn
<1>4. x.phase \notin {"answered", "replayed"} /\ sub[s].phase \notin {"answered", "replayed"}
        => ToldTurn'[s] = ToldTurn[s]
  BY <1>1, ToldOf, ToldOfNext
<1>5. x.phase = "answered" => ToldTurn'[s] = s
  BY <1>1, ToldOfNext
<1>6. x.phase = "replayed" => ToldTurn'[s] = x.turn
  BY <1>1, ToldOfNext
<1> HIDE DEF ToldTurn
<1> QED
  BY <1>2, <1>3, <1>4, <1>5, <1>6

\* Every step of the detailed specification is one of the abstract one or leaves
\* it unchanged.
LEMMA StepRefines ==
  ASSUME Streaming = Submissions, Outlive = FALSE, ChatInv, ChatInv', [ChatNext]_chatVars
  PROVE  [Promise!Next]_(Promise!promise)
<1> DEFINE Goal == Promise!Next \/ UNCHANGED <<KeptTurn, ToldTurn, forgotten>>
<1>typ. ChatTypeOK /\ ChatTypeOK' /\ ReplayIsTheTurn
  BY DEF ChatInv
<1>suf. SUFFICES Goal
  BY DEF Promise!promise
<1>keep. ASSUME NEW s \in Submissions, ~forgotten, KeptTurn = NoTurn, KeptTurn' = s, forgotten' = forgotten,
                ToldTurn' = ToldTurn \/ ToldTurn' = [ToldTurn EXCEPT ![s] = s]
         PROVE  Goal
  BY <1>keep DEF Promise!Next, Promise!Keep
<1>tell. ASSUME NEW s \in Submissions, ~forgotten, KeptTurn # NoTurn, ToldTurn[s] = NoTurn,
                ToldTurn' = [ToldTurn EXCEPT ![s] = KeptTurn], UNCHANGED <<KeptTurn, forgotten>>
         PROVE  Goal
  BY <1>tell DEF Promise!Next, Promise!Tell
<1>lapse. ASSUME ~forgotten, forgotten' = TRUE, KeptTurn' = NoTurn, ToldTurn' = ToldTurn
          PROVE  Goal
  BY <1>lapse DEF Promise!Next, Promise!Lapse
<1>still. ASSUME UNCHANGED <<KeptTurn, ToldTurn, forgotten>> PROVE Goal
  BY <1>still
<1>gone. CASE forgotten
  <2>1. forgotten'
    <3>1. forgotten' \in BOOLEAN /\ forgotten \in BOOLEAN
      BY <1>typ DEF ChatTypeOK
    <3> QED
      BY <3>1, <1>gone, EachStep DEF BeginRead, BeginWrite, BeginSweeping, Disconnect, RecordStart, Commit,
         NoticeCancel, Fail, Finish, SweepByOthers, ArchiveConversation, DeleteConversation, TimePasses, ChatCrash, chatVars
  <2>2. KeptTurn' \in Submissions \cup {NoTurn} /\ ToldTurn' \in [Submissions -> Submissions \cup {NoTurn}]
    BY <1>typ, PromiseTypeNext
  <2>3. forgotten = TRUE /\ forgotten' = TRUE
    BY <2>1, <1>gone, <1>typ DEF ChatTypeOK
  <2> QED
    BY <2>2, <2>3 DEF Promise!Next, Promise!Afterwards
<1>open. CASE ~forgotten
  <2>lock. OneWorker /\ WorkerHoldsRow /\ ClaimFindsRow
    BY <1>open DEF ChatInv, RowIsLock
  \* A step of one submission that tells nobody anything.
  <2>quiet. ASSUME NEW s \in Submissions, NEW x, Goto(s, x), x.phase \notin {"answered", "replayed"},
                   sub[s].phase \notin {"answered", "replayed"}, UNCHANGED <<KeptTurn, forgotten>>
            PROVE  Goal
    BY <2>quiet, <1>typ, ToldMoves, <1>still
  \* A replay of the committed row.
  <2>replay. ASSUME NEW s \in Submissions, sub[s].phase = "idle", row.status = "committed",
                    Goto(s, [phase |-> "replayed", turn |-> row.turn]), UNCHANGED <<row, forgotten>>
             PROVE  Goal
    <3>1. KeptTurn = row.turn /\ KeptTurn' = KeptTurn /\ KeptTurn # NoTurn
      BY <2>replay, <1>typ, NoTurnAssumption
         DEF KeptTurn, ReplayIsTheTurn, InItsConversation, WrittenTurns, ChatTypeOK
    <3>2. ToldTurn' = [ToldTurn EXCEPT ![s] = KeptTurn] /\ ToldTurn[s] = NoTurn
      BY <2>replay, <3>1, <1>typ, ToldMoves, ToldOf
    <3> QED
      BY <3>1, <3>2, <1>open, <2>replay, <1>tell
  <2>1. ASSUME NEW s \in Submissions, BeginRead(s) PROVE Goal
    <3>1. CASE row.status = "committed"
      BY <2>1, <3>1, <2>replay DEF BeginRead, IsReplayed
    <3>2. CASE row.status # "committed"
      <4>1. \/ Goto(s, Doing("refused"))
            \/ Goto(s, [phase |-> "claiming", insert |-> row.status = "none"])
        BY <2>1, <3>2 DEF BeginRead, IsReplayed
      <4>2. UNCHANGED <<KeptTurn, forgotten>> /\ sub[s].phase = "idle"
        BY <2>1 DEF BeginRead, KeptTurn
      <4> QED
        BY <4>1, <4>2, <2>quiet DEF Doing
    <3> QED
      BY <3>1, <3>2
  <2>2. ASSUME NEW s \in Submissions, BeginWrite(s) PROVE Goal
    <3>1. row.status # "committed" /\ sub[s].phase = "claiming"
      BY <2>2, <2>lock DEF BeginWrite, ClaimFindsRow
    <3>2. UNCHANGED <<KeptTurn, forgotten>>
      BY <2>2, <3>1 DEF BeginWrite, KeptTurn, Claimed, Row
    <3>3. Goto(s, Doing("failed")) \/ Goto(s, Doing("running"))
      BY <2>2 DEF BeginWrite
    <3> QED
      BY <3>1, <3>2, <3>3, <2>quiet DEF Doing
  <2>3. ASSUME NEW s \in Submissions, BeginSweeping(s) PROVE Goal
    <3>idle. sub[s].phase = "idle"
      BY <2>3 DEF BeginSweeping
    <3>1. CASE age = "expired" /\ row # NoRow
      <4>1. forgotten' = TRUE /\ Goto(s, Doing("running")) /\ row' = Claimed(s)
        BY <2>3, <3>1 DEF BeginSweeping, IsReplayed, Refused
      <4>2. KeptTurn' = NoTurn
        BY <4>1 DEF KeptTurn, Claimed, Row
      <4>3. ToldTurn' = ToldTurn
        BY <4>1, <3>idle, <1>typ, ToldMoves DEF Doing
      <4> QED
        BY <4>1, <4>2, <4>3, <1>open, <1>lapse
    <3>2. CASE ~(age = "expired" /\ row # NoRow)
      <4>0. forgotten' = forgotten
        BY <2>3, <3>2, <1>open, <1>typ DEF BeginSweeping, ChatTypeOK
      <4>1. CASE row.status = "committed"
        BY <2>3, <3>2, <4>0, <4>1, <3>idle, <2>replay DEF BeginSweeping, IsReplayed
      <4>2. CASE row.status # "committed"
        <5>1. \/ Goto(s, Doing("refused")) /\ UNCHANGED row
              \/ Goto(s, Doing("running")) /\ row' = Claimed(s)
          BY <2>3, <3>2, <4>2 DEF BeginSweeping, IsReplayed
        <5>2. UNCHANGED KeptTurn
          BY <5>1, <4>2 DEF KeptTurn, Claimed, Row
        <5> QED
          BY <5>1, <5>2, <4>0, <3>idle, <2>quiet DEF Doing
      <4> QED
        BY <4>1, <4>2
    <3> QED
      BY <3>1, <3>2
  <2>4. ASSUME NEW s \in Submissions, Disconnect(s) PROVE Goal
    BY <2>4, <1>still DEF Disconnect, KeptTurn, ToldTurn
  <2>5. ASSUME NEW s \in Submissions, RecordStart(s) PROVE Goal
    BY <2>5, <2>quiet DEF RecordStart, MayRecord, Doing, KeptTurn
  <2>6. ASSUME NEW s \in Submissions, Commit(s) PROVE Goal
    <3>1. row.status = "in_progress" /\ sub[s].phase = "recording"
      BY <2>6, <2>lock DEF Commit, WorkerHoldsRow, Live, Working
    <3>2. KeptTurn = NoTurn /\ KeptTurn' = s /\ forgotten' = forgotten
      BY <2>6, <3>1 DEF Commit, KeptTurn, Row, NoRow
    <3>3. Goto(s, Doing("answered")) \/ Goto(s, Doing("failing"))
      BY <2>6 DEF Commit
    <3>4. ToldTurn' = ToldTurn \/ ToldTurn' = [ToldTurn EXCEPT ![s] = s]
      BY <3>1, <3>3, <1>typ, ToldMoves DEF Doing
    <3> QED
      BY <3>2, <3>4, <1>open, <1>keep
  <2>7. ASSUME NEW s \in Submissions, NoticeCancel(s) PROVE Goal
    BY <2>7, <2>quiet DEF NoticeCancel, Doing, KeptTurn
  <2>8. ASSUME NEW s \in Submissions, Fail(s) PROVE Goal
    BY <2>8, <2>quiet DEF Fail, Doing, KeptTurn
  <2>9. ASSUME NEW s \in Submissions, Finish(s) PROVE Goal
    <3>1. UNCHANGED <<KeptTurn, forgotten>>
      BY <2>9 DEF Finish, FinishApplies, KeptTurn, Row
    <3> QED
      BY <2>9, <3>1, <2>quiet DEF Finish, Doing
  <2>10. ASSUME SweepByOthers PROVE Goal
    BY <2>10, <1>open, <1>lapse DEF SweepByOthers, KeptTurn, ToldTurn, NoRow
  <2>11. ASSUME ArchiveConversation PROVE Goal
    BY <2>11, <1>still DEF ArchiveConversation, KeptTurn, ToldTurn
  <2>12. ASSUME TimePasses PROVE Goal
    BY <2>12, <1>still DEF TimePasses, KeptTurn, ToldTurn
  <2>13. ASSUME ChatCrash PROVE Goal
    <3>1. ASSUME NEW s \in Submissions PROVE ToldTurn'[s] = ToldTurn[s]
      <4>1. sub'[s] = IF sub[s].phase \in Working \cup {"claiming"} THEN Doing("failed") ELSE sub[s]
        BY <2>13 DEF ChatCrash
      <4> QED
        BY <4>1, ToldOf, ToldOfNext DEF Doing, Working
    <3>2. ToldTurn' = ToldTurn
      BY <3>1 DEF ToldTurn
    <3> QED
      BY <2>13, <3>2, <1>still DEF ChatCrash, KeptTurn
  <2>14. ASSUME DeleteConversation PROVE Goal
    BY <2>14, <1>still DEF DeleteConversation, KeptTurn, ToldTurn
  <2>15. ASSUME UNCHANGED chatVars PROVE Goal
    BY <2>15, <1>still DEF chatVars, KeptTurn, ToldTurn
  <2> QED
    <3> HIDE DEF Goal
    <3> QED
      BY <2>1, <2>2, <2>3, <2>4, <2>5, <2>6, <2>7, <2>8, <2>9, <2>10, <2>11, <2>12, <2>13, <2>14, <2>15, EachStep, Zenon
<1> QED
  BY <1>gone, <1>open

\* Any number of streaming submissions, crashed and retried however often,
\* implement the promise of AnswerOnce: one turn is kept until the retention is
\* over, and everyone who is told a turn is told that one, after it was kept.
THEOREM ChatRefinement ==
  ASSUME Streaming = Submissions, Outlive = FALSE
  PROVE  ChatSpec => SubmitsOnce
<1>1. ChatInit => Promise!Init
  BY DEF ChatInit, Promise!Init, KeptTurn, ToldTurn, NoRow, Doing
<1>2. ChatInv /\ ChatInv' /\ [ChatNext]_chatVars => [Promise!Next]_(Promise!promise)
  BY StepRefines
<1> QED
  BY <1>1, <1>2, ChatInvariance, PTL DEF ChatSpec, SubmitsOnce, Promise!Spec
=============================================================================
