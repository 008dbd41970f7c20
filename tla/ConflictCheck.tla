---------------------------- MODULE ConflictCheck ----------------------------
(***************************************************************************)
(* Conflict-of-interest checks (app/conflicts.py, create_case of           *)
(* app/routes/cases.py).  Changing the parties of a case commits first;    *)
(* the check then reads the parties, reads the parties of every other case *)
(* on another connection, and inserts its result.  These are separate      *)
(* steps of a request, and requests run at the same time in the thread     *)
(* pool.  Nothing undoes the change when the check raises or the process   *)
(* dies before it is recorded.  A decision reads the latest check and      *)
(* updates that row by id.                                                 *)
(***************************************************************************)
EXTENDS Naturals, Sequences, FiniteSets

CONSTANTS
    Cases,       \* the cases of the firm
    Names,       \* the people and companies that may be parties
    SameParty,   \* pairs of names that match: credit code, name or former name
    PartyLists,  \* the lists of parties a request may carry
    Actors,      \* the people who work with the system
    Local,       \* TRUE in local single-user mode
    Requests,    \* requests that may be in flight at the same time
    None,        \* SQL NULL
    MaxChecks    \* bound: check rows, with those still to be inserted

Roles == {"client", "opposing", "related"}

Party == [role : Roles, name : Names]

ASSUME SamePartyAssumption ==
    /\ SameParty \subseteq Names \X Names
    /\ \A n, m \in Names : <<n, m>> \in SameParty => <<m, n>> \in SameParty
ASSUME PartyListsAssumption == PartyLists \subseteq SUBSET Party
ASSUME LocalAssumption == Local \in BOOLEAN
ASSUME MaxChecksAssumption == MaxChecks \in Nat
ASSUME NobodyAssumption == None \notin Actors

VARIABLES
    parties,      \* case_parties: the list of each case
    created,      \* cases rows
    checks,       \* conflict_checks rows, in the order of their ids
    request,      \* requests in flight
    interrupted   \* history: cases with a change whose check was cut off

conflictVars == <<parties, created, checks, request, interrupted>>

-----------------------------------------------------------------------------
(* Mistakes the code could contain; PROJECT.json pairs each with the        *)
(* definition it replaces and the property that must notice it.             *)

OneWayConflict(ours, theirs) == ours = "client" /\ theirs = "opposing"
LatestTarget(q) == CHOOSE k \in DOMAIN checks :
    /\ checks[k].case = request[q].case
    /\ \A j \in DOMAIN checks : checks[j].case = request[q].case => j <= k

-----------------------------------------------------------------------------
Idle == [phase |-> "idle"]

\* _kind: our client is their opposing party or the reverse; a related party
\* matches any other role.
Conflicting(ours, theirs) ==
    \/ {ours, theirs} = {"client", "opposing"}
    \/ "related" \in {ours, theirs} /\ ours # theirs

\* find_conflicts, reduced to the cases it names.
Hits(c, list) ==
    {d \in Cases \ {c} : \E p \in list, t \in parties[d] :
        Conflicting(p.role, t.role) /\ <<p.name, t.name>> \in SameParty}

ChecksOf(c) == {k \in DOMAIN checks : checks[k].case = c}

\* latest_check
IsLatest(k) == \A j \in ChecksOf(checks[k].case) : j <= k

\* create_case checks only when it was given parties.
NeedsCheck(list) == list # {}

StillPending(k) == checks[k].status = "pending"

\* UPDATE conflict_checks ... WHERE id = ?
DecisionTarget(q) == request[q].check

-----------------------------------------------------------------------------
ConflictInit ==
    /\ parties = [c \in Cases |-> {}]
    /\ created = {}
    /\ checks = <<>>
    /\ request = [q \in Requests |-> Idle]
    /\ interrupted = {}

Checking(q) == request[q].phase \in {"check", "compare", "record"}

StartCheck(q, c, a, change) ==
    /\ Len(checks) + Cardinality({p \in Requests : Checking(p)}) < MaxChecks
    /\ request' = [request EXCEPT ![q] =
            [phase |-> "check", case |-> c, actor |-> a, change |-> change]]

\* create_case: the case and its parties commit, then run_check starts.
CreateCase(q, c, a, list) ==
    /\ request[q].phase = "idle"
    /\ c \notin created
    /\ created' = created \cup {c}
    /\ parties' = [parties EXCEPT ![c] = list]
    /\ IF NeedsCheck(list) THEN StartCheck(q, c, a, TRUE) ELSE UNCHANGED request
    /\ UNCHANGED <<checks, interrupted>>

\* put_parties: replace_parties commits, then run_check starts.
PutParties(q, c, a, list) ==
    /\ request[q].phase = "idle"
    /\ c \in created
    /\ parties' = [parties EXCEPT ![c] = list]
    /\ StartCheck(q, c, a, TRUE)
    /\ interrupted' = interrupted \ {c}
    /\ UNCHANGED <<created, checks>>

RerunCheck(q, c, a) ==
    /\ request[q].phase = "idle"
    /\ c \in created
    /\ StartCheck(q, c, a, FALSE)
    /\ UNCHANGED <<parties, created, checks, interrupted>>

\* run_check reads the parties of the case ...
CheckReadParties(q) ==
    /\ request[q].phase = "check"
    /\ request' = [request EXCEPT ![q] =
            [phase |-> "compare", case |-> @.case, actor |-> @.actor,
             change |-> @.change, parties |-> parties[@.case]]]
    /\ UNCHANGED <<parties, created, checks, interrupted>>

\* ... compares them with those of every other case ...
CheckCompare(q) ==
    /\ request[q].phase = "compare"
    /\ request' = [request EXCEPT ![q] =
            [phase |-> "record", case |-> @.case, actor |-> @.actor,
             change |-> @.change, parties |-> @.parties,
             hits |-> Hits(@.case, @.parties)]]
    /\ UNCHANGED <<parties, created, checks, interrupted>>

\* ... and inserts the result.
CheckRecord(q) ==
    LET s == request[q]
    IN  /\ s.phase = "record"
        /\ checks' = Append(checks,
                [case |-> s.case, parties |-> s.parties, hits |-> s.hits,
                 status |-> IF s.hits # {} THEN "pending" ELSE "clear",
                 requestedBy |-> s.actor, decidedBy |-> None])
        /\ request' = [request EXCEPT ![q] = Idle]
        /\ UNCHANGED <<parties, created, interrupted>>

\* Cases whose change is answered by the requests in qs.
Unchecked(qs) == {c \in Cases : \E q \in qs :
    Checking(q) /\ request[q].case = c /\ request[q].change}

\* run_check raises at a read or at its own INSERT: the request ends in an
\* error, the parties stay committed.
CheckRaises(q) ==
    /\ Checking(q)
    /\ request' = [request EXCEPT ![q] = Idle]
    /\ interrupted' = interrupted \cup Unchecked({q})
    /\ UNCHANGED <<parties, created, checks>>

\* decide reads the latest check; whoever ran it may not decide it.
DecideRead(q, k, a) ==
    /\ request[q].phase = "idle"
    /\ IsLatest(k)
    /\ StillPending(k)
    /\ Local \/ checks[k].requestedBy # a
    /\ request' = [request EXCEPT ![q] =
            [phase |-> "decide", check |-> k, case |-> checks[k].case, actor |-> a]]
    /\ UNCHANGED <<parties, created, checks, interrupted>>

\* The decision is written if that row is still pending, else refused.
DecideWrite(q, decision) ==
    LET k == DecisionTarget(q)
    IN  /\ request[q].phase = "decide"
        /\ checks' = IF StillPending(k)
                     THEN [checks EXCEPT ![k].status = decision,
                                         ![k].decidedBy = request[q].actor]
                     ELSE checks
        /\ request' = [request EXCEPT ![q] = Idle]
        /\ UNCHANGED <<parties, created, interrupted>>

\* The process dies: committed rows stay, requests are gone.
ConflictCrash ==
    /\ request' = [q \in Requests |-> Idle]
    /\ interrupted' = interrupted \cup Unchecked(Requests)
    /\ UNCHANGED <<parties, created, checks>>

ConflictNext ==
    \/ \E q \in Requests, c \in Cases, a \in Actors :
          \/ \E list \in PartyLists : CreateCase(q, c, a, list) \/ PutParties(q, c, a, list)
          \/ RerunCheck(q, c, a)
    \/ \E q \in Requests : \/ CheckReadParties(q) \/ CheckCompare(q) \/ CheckRecord(q) \/ CheckRaises(q)
                           \/ \E k \in DOMAIN checks, a \in Actors : DecideRead(q, k, a)
                           \/ \E decision \in {"approved", "rejected"} : DecideWrite(q, decision)
    \/ ConflictCrash

ConflictSpec == ConflictInit /\ [][ConflictNext]_conflictVars
-----------------------------------------------------------------------------
CheckStatuses == {"clear", "pending", "approved", "rejected"}

CheckRow == [case : Cases, parties : SUBSET Party, hits : SUBSET Cases,
             status : CheckStatuses, requestedBy : Actors, decidedBy : Actors \cup {None}]

RequestType(ids) ==
    {Idle}
    \cup [phase : {"check"}, case : Cases, actor : Actors, change : BOOLEAN]
    \cup [phase : {"compare"}, case : Cases, actor : Actors, change : BOOLEAN,
          parties : SUBSET Party]
    \cup [phase : {"record"}, case : Cases, actor : Actors, change : BOOLEAN,
          parties : SUBSET Party, hits : SUBSET Cases]
    \cup [phase : {"decide"}, check : ids, case : Cases, actor : Actors]

\* Every variable stays in its type.
ConflictTypeOK ==
    /\ parties \in [Cases -> SUBSET Party]
    /\ created \subseteq Cases
    /\ checks \in Seq(CheckRow)
    /\ request \in [Requests -> RequestType(1 .. Len(checks))]
    /\ interrupted \subseteq Cases

\* A change of the parties of c whose check has not been recorded yet.
Changing(c, q) == Checking(q) /\ request[q].case = c /\ request[q].change

\* No change of the case is in flight.
Settled(c) == \A q \in Requests : ~Changing(c, q)

\* Module docstring: every change to the list of parties runs a check.  When
\* no change is in flight, the parties of a case were checked as they are.
\* The code does not keep this: see CheckRaises and ConflictCrash.
EveryChangeIsChecked ==
    \A c \in Cases : Settled(c) /\ parties[c] # {} =>
        \E k \in ChecksOf(c) : checks[k].parties = parties[c]

\* ... and no check of it was cut off since the parties were last set.
Quiet(c) == Settled(c) /\ c \notin interrupted

\* Two cases that get conflicting parties at the same moment cannot both miss
\* the conflict when both their checks are recorded: each commits its own
\* parties before it reads the other's.  A case whose check was cut off may
\* miss it; EveryChangeIsChecked is about that.
ConflictSeenByOneSide ==
    \A c, d \in Cases : Quiet(c) /\ Quiet(d) /\ d \in Hits(c, parties[c]) =>
        \/ \E k \in ChecksOf(c) : checks[k].parties = parties[c] /\ d \in checks[k].hits
        \/ \E k \in ChecksOf(d) : checks[k].parties = parties[d] /\ c \in checks[k].hits

\* Nobody clears or rejects a check they ran, except in local mode, whichever
\* checks are added between reading the check and writing the decision.
NeverOwnDecision ==
    \A k \in DOMAIN checks :
        /\ checks[k].status \in {"approved", "rejected"} =>
              Local \/ checks[k].requestedBy # checks[k].decidedBy
        /\ checks[k].status \in {"clear", "pending"} => checks[k].decidedBy = None

\* Of two people who decide a check at the same time only one does, and the
\* findings a decision was taken on never change.
DecisionIsFinal ==
    [][\A k \in DOMAIN checks :
          /\ checks[k].status # "pending" => checks'[k] = checks[k]
          /\ checks'[k].hits = checks[k].hits
          /\ checks'[k].parties = checks[k].parties]_conflictVars

-----------------------------------------------------------------------------
(* The inductive invariant                                                 *)

\* A change in flight has yet to read the parties, or read the present ones.
WillCheck(c, q) ==
    /\ Changing(c, q)
    /\ request[q].phase # "check" => request[q].parties = parties[c]

\* ... and has found d, or will find it.
WillSee(c, d, q) ==
    /\ WillCheck(c, q)
    /\ request[q].phase = "record" => d \in request[q].hits

ChangeCovered ==
    \A c \in Cases :
        \/ c \in interrupted \/ parties[c] = {}
        \/ \E q \in Requests : WillCheck(c, q)
        \/ \E k \in ChecksOf(c) : checks[k].parties = parties[c]

Sees(c, d) ==
    \/ c \in interrupted
    \/ \E q \in Requests : WillSee(c, d, q)
    \/ \E k \in ChecksOf(c) : checks[k].parties = parties[c] /\ d \in checks[k].hits

PairCovered ==
    \A c, d \in Cases : d \in Hits(c, parties[c]) => Sees(c, d) \/ Sees(d, c)

DeciderIsAnother ==
    \A q \in Requests : request[q].phase = "decide" =>
        Local \/ checks[request[q].check].requestedBy # request[q].actor

ConflictInv == ConflictTypeOK /\ ChangeCovered /\ PairCovered /\ DeciderIsAnother /\ NeverOwnDecision
=============================================================================
