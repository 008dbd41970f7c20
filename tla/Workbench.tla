------------------------------ MODULE Workbench ------------------------------
(***************************************************************************)
(* The parts of the server that one firm's database serves side by side    *)
(* and that share no row: conflict checks, chat submissions, evidence,     *)
(* human tasks, sign-in, runtime requests, the page indexes, a framework   *)
(* run and the model's answer to a question.                               *)
(*                                                                         *)
(* No step of one part reads or writes a variable of another, so what one  *)
(* part does alone is all it can do among the others.  Each behaviour      *)
(* therefore exercises the part named by focus, from any of its initial    *)
(* states, while the others rest in one of theirs.                         *)
(***************************************************************************)
EXTENDS ConflictCheck, ChatIdempotency, EvidenceReview, HumanTasks, SignIn,
        RuntimeRequests, PageIndexes, FrameworkRun, ModelAnswer

CONSTANT RestWording    \* the page's wording while evidence rests

ASSUME WorkbenchConstants == RestWording \in Wordings

VARIABLE focus

Parts == {"conflicts", "chat", "evidence", "tasks", "sign-in", "requests",
          "indexes", "framework", "answer"}

FirstOf(S) == CHOOSE x \in S : TRUE

Init ==
    /\ focus \in Parts
    /\ ConflictInit /\ TaskInit /\ SignInit
    /\ ChatInit
    /\ focus # "chat" => conversation = "unnamed"
    /\ EvidenceInit
    /\ focus # "evidence" => page.wording = RestWording
    /\ RequestInit
    /\ focus # "requests" => \A r \in RequestIds : claim[r] = NoClaim
    /\ IndexInit
    /\ focus # "indexes" => text = [p \in Pages |-> FirstOf(Texts)]
    /\ FrameworkInit
    /\ focus # "framework" => dag = FirstOf(Plans) /\ material = FirstOf(CaseStates) /\ mayView
    /\ AnswerInit
    /\ focus # "answer" => question = FirstOf(Questions) /\ observed = 0

Next ==
    /\ \/ /\ focus = "conflicts" /\ ConflictNext
          /\ UNCHANGED <<chatVars, evidenceVars, taskVars, signVars, requestVars,
                         indexVars, frameworkVars, answerVars>>
       \/ /\ focus = "chat" /\ ChatNext
          /\ UNCHANGED <<conflictVars, evidenceVars, taskVars, signVars, requestVars,
                         indexVars, frameworkVars, answerVars>>
       \/ /\ focus = "evidence" /\ EvidenceNext
          /\ UNCHANGED <<conflictVars, chatVars, taskVars, signVars, requestVars,
                         indexVars, frameworkVars, answerVars>>
       \/ /\ focus = "tasks" /\ TaskNext
          /\ UNCHANGED <<conflictVars, chatVars, evidenceVars, signVars, requestVars,
                         indexVars, frameworkVars, answerVars>>
       \/ /\ focus = "sign-in" /\ SignNext
          /\ UNCHANGED <<conflictVars, chatVars, evidenceVars, taskVars, requestVars,
                         indexVars, frameworkVars, answerVars>>
       \/ /\ focus = "requests" /\ RequestNext
          /\ UNCHANGED <<conflictVars, chatVars, evidenceVars, taskVars, signVars,
                         indexVars, frameworkVars, answerVars>>
       \/ /\ focus = "indexes" /\ IndexNext
          /\ UNCHANGED <<conflictVars, chatVars, evidenceVars, taskVars, signVars,
                         requestVars, frameworkVars, answerVars>>
       \/ /\ focus = "framework" /\ FrameworkNext
          /\ UNCHANGED <<conflictVars, chatVars, evidenceVars, taskVars, signVars,
                         requestVars, indexVars, answerVars>>
       \/ /\ focus = "answer" /\ AnswerNext
          /\ UNCHANGED <<conflictVars, chatVars, evidenceVars, taskVars, signVars,
                         requestVars, indexVars, frameworkVars>>
    /\ UNCHANGED focus

workbenchVars == <<conflictVars, chatVars, evidenceVars, taskVars, signVars,
                   requestVars, indexVars, frameworkVars, answerVars, focus>>

Spec == Init /\ [][Next]_workbenchVars
==============================================================================
