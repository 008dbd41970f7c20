----------------------------- MODULE ModelAnswer -----------------------------
(***************************************************************************)
(* How one question is answered by a model: the chat turn                  *)
(* (services._generate_model_answer), the critic of an agent run           *)
(* (agents.CriticAgent), the bounded tool loop both may use                *)
(* (app/tool_loop.py), the one fallback (app/model_router.py) and the      *)
(* llm_calls rows written on the way (app/llm_usage.py).                   *)
(*                                                                         *)
(* A row does not name a call: _account_llm_call copies whatever the       *)
(* context variable _last_llm_usage holds at that moment.  A model is      *)
(* "primary" or "fallback"; its answer passes validate_review_answer or    *)
(* does not.                                                               *)
(***************************************************************************)
EXTENDS Naturals, Sequences

CONSTANTS
    ToolRounds      \* LAW_REVIEW_TOOL_LOOP_MAX_ROUNDS

ASSUME ToolRoundsAssumption == ToolRounds \in Nat \ {0}

VARIABLES
    question,   \* the path and the settings it runs under
    stage,      \* where the attempt stands
    calls,      \* the requests sent to an endpoint
    rows,       \* the llm_calls rows of the question
    observed,   \* _last_llm_usage: the call it describes, 0, or an earlier one
    answered    \* what the caller gets

answerVars == <<question, stage, calls, rows, observed, answered>>

Earlier == 1000     \* the observation an earlier question left in the context

Questions ==
    [path : {"chat", "critic"}, tools : BOOLEAN, fallback : {"off", "broken", "on"}]

NoAnswer == [by |-> "none", call |-> 0, model |-> "none"]

AnswerInit ==
    /\ question \in Questions
    /\ stage = "start"
    /\ calls = <<>>
    /\ rows = <<>>
    /\ observed \in IF question.path = "chat" THEN {0} ELSE {0, Earlier}
    /\ answered = NoAnswer

LastCall == Len(calls)

\* The tool loop answered; its rounds have their rows already.
Looped == LastCall > 0 /\ calls[LastCall].by = "loop"

Sent(by, model, text) == calls' = Append(calls, [by |-> by, model |-> model, text |-> text])

Entry(kind, about, status) == [kind |-> kind, about |-> about, status |-> status]

\* _account_llm_call, with the observation as it is then.
Account(kind, about, status) == rows' = Append(rows, Entry(kind, about, status))

AccountUnlessLooped(status) ==
    IF Looped THEN UNCHANGED rows ELSE Account(question.path, observed, status)

\* No model answer: chat raises, the critic writes its summary by rules.
WithoutModel ==
    /\ stage' = "done"
    /\ answered' = [by |-> IF question.path = "chat" THEN "raised" ELSE "rules",
                    call |-> 0, model |-> "none"]

FromModel(model, call) ==
    /\ stage' = "done"
    /\ answered' = [by |-> "model", call |-> call, model |-> model]

------------------------------------------------------------------------------
(* Mistakes the code could contain; PROJECT.json pairs each with the        *)
(* definition it replaces and the property that must notice it.             *)

FallsBackOnFailure ==
    /\ stage = "failing"
    /\ Account(question.path, observed, "failed")
    /\ IF question.fallback = "on"
       THEN stage' = "retrying" /\ UNCHANGED answered ELSE WithoutModel
    /\ UNCHANGED <<question, calls, observed>>

AccountsOnSuccess(text, seen) ==
    rows' = IF text = "valid" THEN Append(rows, Entry("critic_fallback", seen, "ok")) ELSE rows

------------------------------------------------------------------------------

\* A streamed answer, a deployment without tools and a critic that must not use
\* them ask once; `tools` stands for all of these conditions.
BeginAnswer ==
    /\ stage = "start"
    /\ stage' = IF question.tools THEN "looping" ELSE "asking"
    /\ UNCHANGED <<question, calls, rows, observed, answered>>

\* The endpoint refuses tools: ask once, without them.
ToolsUnsupported ==
    /\ stage = "looping"
    /\ stage' = "asking"
    /\ UNCHANGED <<question, calls, rows, observed, answered>>

\* A round that asks for tools; after the last one the loop gives up.
ToolRound ==
    /\ stage = "looping" /\ LastCall < ToolRounds
    /\ Sent("loop", "primary", "tools")
    /\ Account("tool_loop", LastCall + 1, "ok")
    /\ UNCHANGED <<question, stage, observed, answered>>

\* The loop's last round: an answer, or text that is only a reasoning draft.
LoopAnswer(text) ==
    /\ stage = "looping" /\ LastCall < ToolRounds
    /\ Sent("loop", "primary", text)
    /\ Account("tool_loop", LastCall + 1, "ok")
    /\ stage' = IF text = "empty" THEN "failing" ELSE "checking"
    /\ UNCHANGED <<question, observed, answered>>

LoopFails ==
    /\ stage = "looping"
    /\ stage' = "failing"
    /\ \/ LastCall < ToolRounds
          /\ Sent("loop", "primary", "failed")
          /\ Account("tool_loop", 0, "failed")
       \/ LastCall \in {0, ToolRounds} /\ UNCHANGED <<calls, rows>>
    /\ UNCHANGED <<question, observed, answered>>

\* call_local_llm: refused before anything is sent, failed, or answered.
AskPrimary(text) ==
    /\ stage = "asking"
    /\ IF text = "unsent"
       THEN UNCHANGED <<calls, observed>>
       ELSE /\ Sent("single", "primary", text)
            /\ observed' = IF text = "failed" THEN 0 ELSE LastCall + 1
    /\ stage' = IF text \in {"unsent", "failed"} THEN "failing" ELSE "checking"
    /\ UNCHANGED <<question, rows, answered>>

\* The except clause of both paths.  The critic has not learnt yet whether its
\* loop was used.
AttemptFailed ==
    /\ stage = "failing"
    /\ Account(question.path, observed, "failed")
    /\ WithoutModel
    /\ UNCHANGED <<question, calls, observed>>

Passes(text) == text = "valid"

AcceptPrimary ==
    /\ stage = "checking" /\ Passes(calls[LastCall].text)
    /\ AccountUnlessLooped("ok")
    /\ FromModel("primary", LastCall)
    /\ UNCHANGED <<question, calls, observed>>

\* A rejected answer: the critic accounts for it at once, chat only when the
\* fallback has been tried.
MayFallBack == question.fallback = "on"

RejectPrimary ==
    /\ stage = "checking" /\ ~Passes(calls[LastCall].text)
    /\ IF question.path = "critic" \/ ~MayFallBack
       THEN AccountUnlessLooped("failed")
       ELSE UNCHANGED rows
    /\ IF MayFallBack
       THEN stage' = "retrying" /\ UNCHANGED answered
       ELSE WithoutModel
    /\ UNCHANGED <<question, calls, observed>>

\* What the rows say once the fallback was tried: in chat the primary's row is
\* written now, from the fallback's observation.
FallbackRows(text, seen) ==
    CASE question.path = "critic" ->
           rows' = Append(rows, Entry("critic_fallback", seen, IF Passes(text) THEN "ok" ELSE "failed"))
      [] question.path = "chat" /\ Passes(text) ->
           rows' = rows \o <<Entry("chat", seen, "failed"), Entry("chat_fallback", seen, "ok")>>
      [] OTHER ->
           IF Looped THEN UNCHANGED rows ELSE Account("chat", seen, "failed")

AskFallback(text) ==
    LET seen == CASE text = "unsent" -> observed [] text = "failed" -> 0 [] OTHER -> LastCall + 1
    IN  /\ stage = "retrying"
        /\ IF text = "unsent" THEN UNCHANGED calls ELSE Sent("single", "fallback", text)
        /\ observed' = seen
        /\ FallbackRows(text, seen)
        /\ IF Passes(text) THEN FromModel("fallback", LastCall + 1) ELSE WithoutModel
        /\ UNCHANGED question

AnswerNext ==
    \/ BeginAnswer \/ ToolsUnsupported \/ ToolRound \/ LoopFails
    \/ \E text \in {"valid", "invalid", "empty"} : LoopAnswer(text)
    \/ \E text \in {"valid", "invalid", "failed", "unsent"} : AskPrimary(text)
    \/ AttemptFailed \/ AcceptPrimary \/ RejectPrimary
    \/ \E text \in {"valid", "invalid", "failed", "unsent"} : AskFallback(text)

AnswerSpec == AnswerInit /\ [][AnswerNext]_answerVars

------------------------------------------------------------------------------
\* An answer given as a model's passed the citation contract and names the model
\* that gave it; the fallback was asked at most once, and only after an answer of
\* the primary that was rejected, never after one that did not arrive.
ModelAnswerMeetsContract ==
    /\ answered.by = "model" =>
          /\ calls[answered.call].text = "valid"
          /\ calls[answered.call].model = answered.model
    /\ \A i \in DOMAIN calls :
          calls[i].model = "fallback" => i = LastCall /\ i > 1 /\ calls[i - 1].text = "invalid"

\* A call has a row of its own: one that carries its usage, or, for a call that
\* failed, one that says so and carries none.
Accounted(i) ==
    \E j \in DOMAIN rows : \/ rows[j].about = i
                           \/ /\ calls[i].text = "failed"
                              /\ rows[j].status = "failed" /\ rows[j].about = 0

\* Every call the critic of an agent run made has its row when the run goes on,
\* whichever of them failed or was rejected ("each call is accounted for on its
\* own", docs/architecture/system.md).
CriticCallsAreAccounted ==
    question.path = "critic" /\ stage = "done" => \A i \in DOMAIN calls : Accounted(i)

\* Every call that was made is written to llm_calls, on the chat path too
\* (docs/architecture/system.md, "calls that happened are still written to
\* llm_calls"; app/llm_usage.py, "per-call model accounting").
EveryCallIsAccounted ==
    stage = "done" => \A i \in DOMAIN calls : Accounted(i)
==============================================================================
