---------------------------- MODULE RuntimeRequests ----------------------------
(***************************************************************************)
(* Starting a run through the public runtime contract with the runtimes    *)
(* the program had before (app/runtime_adapter.py, LegacyRuntimeControl).  *)
(* A request id is claimed by one INSERT; the caller that wins constructs  *)
(* a coordinator, starts the run and links it to the claim, each in a      *)
(* transaction of its own; every other caller of the id gets a replay.     *)
(* Callers retry at will and the process may die anywhere.                 *)
(***************************************************************************)
EXTENDS Naturals

CONSTANTS
    Clients, RequestIds, Digests,
    IdOf, DigestOf,        \* what each client asks: a request id and its digest
    NoClaim, NoRun, NoCall, Unbound,
    MaxRuns                \* bound on the runs ever started

RunIds == 1 .. MaxRuns

ClaimRow == [digest : Digests \cup {Unbound}, run : RunIds \cup {NoRun}]

RunRow == [id : RequestIds, digest : Digests, status : {"running", "completed", "failed"}]

Phases == {"won", "lost", "releasing", "entered", "uncertain", "created", "linked"}

StartCall == [phase : Phases, run : RunIds \cup {NoRun}]

Kinds == {"in progress", "reconcile", "conflict", "replay", "completed", "failed"}

Reply == [kind : Kinds, run : RunIds \cup {NoRun}]

ASSUME RequestConstants ==
    /\ IdOf \in [Clients -> RequestIds] /\ DigestOf \in [Clients -> Digests]
    /\ Unbound \notin Digests /\ MaxRuns \in Nat
    /\ NoClaim \notin ClaimRow /\ NoRun \notin RunIds \cup RunRow
    /\ NoCall \notin StartCall \cup Reply

VARIABLES
    claim,     \* runtime_requests: the digest and the run of each claimed id
    run,       \* agent_runs: which id and digest started each run, its status
    call,      \* the start() each client is in
    answer     \* what each client was told last

requestVars == <<claim, run, call, answer>>

------------------------------------------------------------------------------
(* Mistakes the code could contain; PROJECT.json pairs each with the        *)
(* definition it replaces and the property that must notice it.             *)

ReleasesAfterEntry == "releasing"

------------------------------------------------------------------------------

\* A claim written before digests were stored has none.
RequestInit ==
    /\ claim \in [RequestIds -> {NoClaim, [digest |-> Unbound, run |-> NoRun]}]
    /\ run = [k \in RunIds |-> NoRun]
    /\ call = [c \in Clients |-> NoCall]
    /\ answer = [c \in Clients |-> NoCall]

At(c, phase) == call[c] # NoCall /\ call[c].phase = phase

Step(c, phase, k) == call' = [call EXCEPT ![c] = [phase |-> phase, run |-> k]]

Answer(c, kind, k) ==
    /\ answer' = [answer EXCEPT ![c] = [kind |-> kind, run |-> k]]
    /\ call' = [call EXCEPT ![c] = NoCall]

\* INSERT OR IGNORE: one caller wins the id.
Claim(c) ==
    LET r == IdOf[c]
    IN  /\ call[c] = NoCall
        /\ IF claim[r] = NoClaim
           THEN /\ claim' = [claim EXCEPT ![r] = [digest |-> DigestOf[c], run |-> NoRun]]
                /\ Step(c, "won", NoRun)
           ELSE /\ Step(c, "lost", NoRun)
                /\ UNCHANGED claim
        /\ UNCHANGED <<run, answer>>

\* The same canonical request learns of its run; everything else is refused.
SameRequest(c, row) == row.digest = DigestOf[c]

Replay(c) ==
    LET row == claim[IdOf[c]]
    IN  /\ At(c, "lost")
        /\ \/ row = NoClaim /\ Answer(c, "in progress", NoRun)
           \/ row # NoClaim /\ row.digest = Unbound /\ Answer(c, "reconcile", NoRun)
           \/ row # NoClaim /\ row.digest # Unbound /\ ~SameRequest(c, row)
                /\ Answer(c, "conflict", NoRun)
           \/ row # NoClaim /\ row.digest # Unbound /\ SameRequest(c, row)
                /\ row.run = NoRun /\ Answer(c, "reconcile", NoRun)
           \/ row # NoClaim /\ row.digest # Unbound /\ SameRequest(c, row)
                /\ row.run # NoRun /\ Answer(c, "replay", row.run)
        /\ UNCHANGED <<claim, run>>

\* The constructor raises: nothing was started and the claim is released.
ConstructorRaises(c) ==
    /\ At(c, "won")
    /\ Step(c, "releasing", NoRun)
    /\ UNCHANGED <<claim, run, answer>>

ReleaseClaim(c) ==
    LET r == IdOf[c]
    IN  /\ At(c, "releasing")
        /\ claim' = IF claim[r] # NoClaim /\ claim[r].run = NoRun
                    THEN [claim EXCEPT ![r] = NoClaim] ELSE claim
        /\ Answer(c, "failed", NoRun)
        /\ UNCHANGED run

EnterRun(c) ==
    /\ At(c, "won")
    /\ Step(c, "entered", NoRun)
    /\ UNCHANGED <<claim, run, answer>>

\* process_query raises before a run exists, or its commit was not seen: the
\* claim stays and the caller is told to reconcile.
EnteredPhaseOnFailure == "uncertain"

RaisesBeforeRun(c) ==
    /\ At(c, "entered")
    /\ Step(c, EnteredPhaseOnFailure, NoRun)
    /\ UNCHANGED <<claim, run, answer>>

ReportUncertain(c) ==
    /\ At(c, "uncertain")
    /\ Answer(c, "reconcile", NoRun)
    /\ UNCHANGED <<claim, run>>

StartRun(c, k) ==
    /\ At(c, "entered")
    /\ run[k] = NoRun /\ \A j \in 1 .. k - 1 : run[j] # NoRun
    /\ run' = [run EXCEPT ![k] =
            [id |-> IdOf[c], digest |-> DigestOf[c], status |-> "running"]]
    /\ \/ Step(c, "created", k)
       \/ Step(c, EnteredPhaseOnFailure, NoRun)   \* committed, but it raised
    /\ UNCHANGED <<claim, answer>>

\* The callback links the run in a transaction that may fail.
LinkRun(c) ==
    LET r == IdOf[c]
    IN  /\ At(c, "created")
        /\ claim' = IF claim[r] = NoClaim THEN claim
                    ELSE [claim EXCEPT ![r].run = call[c].run]
        /\ Step(c, "linked", call[c].run)
        /\ UNCHANGED <<run, answer>>

LinkFails(c) ==
    /\ At(c, "created")
    /\ Answer(c, "failed", call[c].run)
    /\ UNCHANGED <<claim, run>>

EndAgentRun(c, status) ==
    /\ At(c, "linked")
    /\ run' = [run EXCEPT ![call[c].run].status = status]
    /\ Answer(c, status, call[c].run)
    /\ UNCHANGED claim

\* The process dies: calls are gone, and recovery ends the runs left running.
RequestCrash ==
    /\ \E c \in Clients : call[c] # NoCall
    /\ call' = [c \in Clients |-> NoCall]
    /\ run' = [k \in RunIds |-> IF run[k] # NoRun /\ run[k].status = "running"
                                THEN [run[k] EXCEPT !.status = "failed"] ELSE run[k]]
    /\ UNCHANGED <<claim, answer>>

RequestNext ==
    \/ \E c \in Clients :
        \/ Claim(c) \/ Replay(c) \/ ConstructorRaises(c) \/ ReleaseClaim(c)
        \/ EnterRun(c) \/ RaisesBeforeRun(c) \/ ReportUncertain(c)
        \/ \E k \in RunIds : StartRun(c, k)
        \/ LinkRun(c) \/ LinkFails(c)
        \/ \E status \in {"completed", "failed"} : EndAgentRun(c, status)
    \/ RequestCrash

RequestSpec == RequestInit /\ [][RequestNext]_requestVars

------------------------------------------------------------------------------
RequestTypeOK ==
    /\ claim \in [RequestIds -> ClaimRow \cup {NoClaim}]
    /\ run \in [RunIds -> RunRow \cup {NoRun}]
    /\ call \in [Clients -> StartCall \cup {NoCall}]
    /\ answer \in [Clients -> Reply \cup {NoCall}]

\* Retrying a request never starts a second run, whatever failed, raised or
\* died in between ("retrying one identical request never creates a second
\* business run", runtime_adapter.py).
OneRunPerRequest ==
    \A j, k \in RunIds : (run[j] # NoRun /\ run[k] # NoRun /\ run[j].id = run[k].id) => j = k

\* A client is only ever told of a run that its own canonical request started.
ToldOfOwnRun ==
    \A c \in Clients : (answer[c] # NoCall /\ answer[c].run # NoRun) =>
        /\ run[answer[c].run] # NoRun
        /\ run[answer[c].run].id = IdOf[c] /\ run[answer[c].run].digest = DigestOf[c]

------------------------------------------------------------------------------
(* The inductive invariant.  The claim is a lock that is kept when its owner *)
(* dies: only the owner starts a run, and gives the claim back only before.  *)

Owns(c) == call[c] # NoCall /\ call[c].phase \in Phases \ {"lost", "uncertain"}

MayStart(c) == Owns(c) /\ call[c].phase \in {"won", "releasing", "entered"}

\* An owner holds the claim of its id alone.
OwnerHolds(c) ==
    /\ claim[IdOf[c]] # NoClaim
    /\ claim[IdOf[c]].digest = DigestOf[c]
    /\ \A d \in Clients : Owns(d) /\ IdOf[d] = IdOf[c] => d = c
    /\ MayStart(c) => claim[IdOf[c]].run = NoRun

\* The run k is one of the canonical request that c sends.
OfRequest(k, c) ==
    k \in RunIds /\ run[k] # NoRun /\ run[k].id = IdOf[c] /\ run[k].digest = DigestOf[c]

\* A run keeps the claim of its id, and nobody is about to start another.
RunIsClaimed(k) ==
    LET r == run[k].id
    IN  /\ claim[r] # NoClaim /\ claim[r].digest = run[k].digest
        /\ \A c \in Clients : IdOf[c] = r => ~MayStart(c)

\* A linked claim names the run that its id and digest started.
LinkIsSound(r) ==
    LET k == claim[r].run
    IN  k \in RunIds /\ run[k] # NoRun /\ run[k].id = r /\ run[k].digest = claim[r].digest

RequestInv ==
    /\ RequestTypeOK
    /\ \A c \in Clients : Owns(c) => OwnerHolds(c)
    /\ \A c \in Clients : (call[c] # NoCall /\ call[c].phase \in {"created", "linked"}) =>
          OfRequest(call[c].run, c)
    /\ \A k \in RunIds : run[k] # NoRun => RunIsClaimed(k)
    /\ \A r \in RequestIds : (claim[r] # NoClaim /\ claim[r].run # NoRun) => LinkIsSound(r)
    /\ OneRunPerRequest
    /\ ToldOfOwnRun
==============================================================================
