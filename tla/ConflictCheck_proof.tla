------------------------- MODULE ConflictCheck_proof -------------------------
(***************************************************************************)
(* Theorems about ConflictCheck.  The argument for the two covering        *)
(* invariants is that of a flag protocol: a change first commits its own   *)
(* parties and then reads the others', so of two changes the later read    *)
(* follows both commits.                                                   *)
(***************************************************************************)
EXTENDS ConflictCheck, SequenceTheorems, TLAPS

\* The request types grow with the check rows.
LEMMA MoreIds ==
  ASSUME NEW n \in Nat, NEW x \in RequestType(1 .. n)
  PROVE  x \in RequestType(1 .. n + 1)
  BY DEF RequestType

LEMMA StartTyped ==
  ASSUME NEW q \in Requests, NEW c \in Cases, NEW a \in Actors, NEW change \in BOOLEAN,
         request \in [Requests -> RequestType(1 .. Len(checks))],
         StartCheck(q, c, a, change)
  PROVE  request' \in [Requests -> RequestType(1 .. Len(checks))]
<1>1. [phase |-> "check", case |-> c, actor |-> a, change |-> change]
        \in RequestType(1 .. Len(checks))
  BY DEF RequestType
<1> QED
  BY <1>1 DEF StartCheck

LEMMA InitConflict == ConflictInit => ConflictInv
<1> SUFFICES ASSUME ConflictInit PROVE ConflictInv
  OBVIOUS
<1> USE DEF ConflictInit
<1>1. ConflictTypeOK
  BY DEF ConflictTypeOK, RequestType, Idle
<1>2. ChangeCovered
  BY DEF ChangeCovered
<1>3. PairCovered
  BY DEF PairCovered, Hits
<1>4. DeciderIsAnother
  BY DEF DeciderIsAnother, Idle
<1>5. NeverOwnDecision
  BY DEF NeverOwnDecision
<1> QED
  BY <1>1, <1>2, <1>3, <1>4, <1>5 DEF ConflictInv

LEMMA NextConflictType == ConflictTypeOK /\ [ConflictNext]_conflictVars => ConflictTypeOK'
<1> SUFFICES ASSUME ConflictTypeOK, [ConflictNext]_conflictVars PROVE ConflictTypeOK'
  OBVIOUS
<1> USE DEF ConflictTypeOK
<1>1. ASSUME NEW q \in Requests, NEW c \in Cases, NEW a \in Actors, NEW list \in PartyLists,
             CreateCase(q, c, a, list) \/ PutParties(q, c, a, list)
      PROVE  ConflictTypeOK'
  <2>1. list \in SUBSET Party
    BY PartyListsAssumption
  <2>2. request' \in [Requests -> RequestType(1 .. Len(checks))]
    <3>1. CASE UNCHANGED request
      BY <3>1
    <3>2. CASE StartCheck(q, c, a, TRUE)
      BY <3>2, StartTyped
    <3> QED
      BY <1>1, <3>1, <3>2 DEF CreateCase, PutParties
  <2> QED
    BY <1>1, <2>1, <2>2 DEF CreateCase, PutParties
<1>2. ASSUME NEW q \in Requests, NEW c \in Cases, NEW a \in Actors, RerunCheck(q, c, a)
      PROVE  ConflictTypeOK'
  <2>1. request' \in [Requests -> RequestType(1 .. Len(checks))]
    BY <1>2, StartTyped DEF RerunCheck
  <2> QED
    BY <1>2, <2>1 DEF RerunCheck
<1>3. ASSUME NEW q \in Requests, CheckReadParties(q) PROVE ConflictTypeOK'
  <2>1. request[q] \in [phase : {"check"}, case : Cases, actor : Actors, change : BOOLEAN]
    BY <1>3 DEF CheckReadParties, RequestType, Idle
  <2>2. request' \in [Requests -> RequestType(1 .. Len(checks))]
    BY <1>3, <2>1 DEF CheckReadParties, RequestType
  <2> QED
    BY <1>3, <2>2 DEF CheckReadParties
<1>4. ASSUME NEW q \in Requests, CheckCompare(q) PROVE ConflictTypeOK'
  <2>1. request[q] \in [phase : {"compare"}, case : Cases, actor : Actors,
                        change : BOOLEAN, parties : SUBSET Party]
    BY <1>4 DEF CheckCompare, RequestType, Idle
  <2>2. Hits(request[q].case, request[q].parties) \in SUBSET Cases
    BY DEF Hits
  <2>3. request' \in [Requests -> RequestType(1 .. Len(checks))]
    BY <1>4, <2>1, <2>2 DEF CheckCompare, RequestType
  <2> QED
    BY <1>4, <2>3 DEF CheckCompare
<1>5. ASSUME NEW q \in Requests, CheckRecord(q) PROVE ConflictTypeOK'
  <2>1. request[q] \in [phase : {"record"}, case : Cases, actor : Actors,
                        change : BOOLEAN, parties : SUBSET Party, hits : SUBSET Cases]
    BY <1>5 DEF CheckRecord, RequestType, Idle
  <2>2. checks' \in Seq(CheckRow) /\ Len(checks') = Len(checks) + 1
    BY <1>5, <2>1 DEF CheckRecord, CheckRow, CheckStatuses
  <2>3. \A x \in RequestType(1 .. Len(checks)) : x \in RequestType(1 .. Len(checks'))
    BY <2>2, MoreIds
  <2>4. request' \in [Requests -> RequestType(1 .. Len(checks'))]
    <3>1. Idle \in RequestType(1 .. Len(checks'))
      BY DEF RequestType
    <3> QED
      BY <1>5, <2>3, <3>1 DEF CheckRecord
  <2> QED
    BY <1>5, <2>2, <2>4 DEF CheckRecord
<1>6. ASSUME NEW q \in Requests, NEW k \in DOMAIN checks, NEW a \in Actors, DecideRead(q, k, a)
      PROVE  ConflictTypeOK'
  <2>1. k \in 1 .. Len(checks) /\ checks[k] \in CheckRow
    OBVIOUS
  <2>2. checks[k].case \in Cases
    BY <2>1 DEF CheckRow
  <2>3. request' \in [Requests -> RequestType(1 .. Len(checks))]
    BY <1>6, <2>1, <2>2 DEF DecideRead, RequestType
  <2> QED
    BY <1>6, <2>3 DEF DecideRead
<1>7. ASSUME NEW q \in Requests, NEW decision \in {"approved", "rejected"},
             DecideWrite(q, decision)
      PROVE  ConflictTypeOK'
  <2>1. request[q] \in [phase : {"decide"}, check : 1 .. Len(checks), case : Cases,
                        actor : Actors]
    BY <1>7 DEF DecideWrite, RequestType, Idle
  <2>2. checks' \in Seq(CheckRow) /\ Len(checks') = Len(checks)
    <3> DEFINE k == request[q].check
    <3>1. k \in 1 .. Len(checks) /\ checks[k] \in CheckRow
      BY <2>1
    <3>2. [checks[k] EXCEPT !.status = decision, !.decidedBy = request[q].actor] \in CheckRow
      BY <2>1, <3>1 DEF CheckRow, CheckStatuses
    <3>3. \/ checks' = checks
          \/ checks' = [checks EXCEPT ![k] =
                 [checks[k] EXCEPT !.status = decision, !.decidedBy = request[q].actor]]
      BY <1>7, <3>1 DEF DecideWrite, DecisionTarget
    <3> HIDE DEF k
    <3> QED
      BY <3>1, <3>2, <3>3
  <2>3. request' \in [Requests -> RequestType(1 .. Len(checks))]
    BY <1>7 DEF DecideWrite, RequestType
  <2> QED
    BY <1>7, <2>2, <2>3 DEF DecideWrite
<1>8. CASE ConflictCrash
  BY <1>8 DEF ConflictCrash, RequestType, Unchecked
<1>10. ASSUME NEW q \in Requests, CheckRaises(q) PROVE ConflictTypeOK'
  BY <1>10 DEF CheckRaises, RequestType, Unchecked
<1>9. CASE UNCHANGED conflictVars
  BY <1>9 DEF conflictVars
<1> QED
  BY <1>1, <1>2, <1>3, <1>4, <1>5, <1>6, <1>7, <1>8, <1>9, <1>10 DEF ConflictNext

-----------------------------------------------------------------------------
\* If d conflicts with c then c conflicts with d.
LEMMA HitsSymmetric ==
  ASSUME ConflictTypeOK, NEW c \in Cases, NEW d \in Cases, d \in Hits(c, parties[c])
  PROVE  c \in Hits(d, parties[d])
<1>1. PICK p \in parties[c], t \in parties[d] :
        Conflicting(p.role, t.role) /\ <<p.name, t.name>> \in SameParty
  BY DEF Hits
<1>2. d # c /\ p \in Party /\ t \in Party
  BY DEF Hits, ConflictTypeOK
<1>3. Conflicting(t.role, p.role)
  BY <1>1 DEF Conflicting
<1>4. <<t.name, p.name>> \in SameParty
  BY <1>1, <1>2, SamePartyAssumption DEF Party
<1> QED
  BY <1>1, <1>2, <1>3, <1>4 DEF Hits

\* Rows are only added; what a check was run on and what it found stay.
LEMMA RowsKept ==
  ASSUME ConflictTypeOK, [ConflictNext]_conflictVars, NEW k \in DOMAIN checks
  PROVE  /\ k \in DOMAIN checks'
         /\ checks'[k].case = checks[k].case /\ checks'[k].parties = checks[k].parties
         /\ checks'[k].hits = checks[k].hits
         /\ checks'[k].requestedBy = checks[k].requestedBy
<1> USE DEF ConflictTypeOK
<1>1. CASE UNCHANGED checks
  BY <1>1
<1>2. ASSUME NEW q \in Requests, CheckRecord(q) PROVE checks'[k] = checks[k] /\ k \in DOMAIN checks'
  BY <1>2 DEF CheckRecord
<1>3. ASSUME NEW q \in Requests, NEW decision \in {"approved", "rejected"}, NEW j \in DOMAIN checks,
             checks' = [checks EXCEPT ![j].status = decision, ![j].decidedBy = request[q].actor]
      PROVE  /\ k \in DOMAIN checks'
             /\ checks'[k].case = checks[k].case /\ checks'[k].parties = checks[k].parties
             /\ checks'[k].hits = checks[k].hits
             /\ checks'[k].requestedBy = checks[k].requestedBy
  <2>1. checks[k] \in CheckRow
    OBVIOUS
  <2>2. \/ checks'[k] = checks[k]
        \/ checks'[k] = [checks[k] EXCEPT !.status = decision, !.decidedBy = request[q].actor]
    BY <1>3
  <2>3. k \in DOMAIN checks'
    BY <1>3
  <2>4. CASE checks'[k] = checks[k]
    BY <2>3, <2>4
  <2>5. CASE checks'[k] = [checks[k] EXCEPT !.status = decision, !.decidedBy = request[q].actor]
    BY <2>1, <2>3, <2>5 DEF CheckRow
  <2> QED
    BY <2>2, <2>4, <2>5
<1>4. ASSUME NEW q \in Requests, NEW decision \in {"approved", "rejected"},
             DecideWrite(q, decision), checks' # checks
      PROVE  \E j \in DOMAIN checks : checks' =
                [checks EXCEPT ![j].status = decision, ![j].decidedBy = request[q].actor]
  <2>1. request[q].check \in DOMAIN checks
    BY <1>4 DEF DecideWrite, RequestType, Idle
  <2>2. checks' = [checks EXCEPT ![request[q].check].status = decision,
                                 ![request[q].check].decidedBy = request[q].actor]
    BY <1>4 DEF DecideWrite, DecisionTarget
  <2> QED
    BY <2>1, <2>2
<1>5. \/ UNCHANGED checks
      \/ \E q \in Requests : \/ CheckRecord(q)
                             \/ \E decision \in {"approved", "rejected"} :
                                   DecideWrite(q, decision)
  BY DEF ConflictNext, conflictVars, CreateCase, PutParties, RerunCheck, CheckReadParties, CheckCompare,
         DecideRead, CheckRaises, ConflictCrash
<1>6. ASSUME NEW q \in Requests, NEW decision \in {"approved", "rejected"},
             DecideWrite(q, decision)
      PROVE  /\ k \in DOMAIN checks'
             /\ checks'[k].case = checks[k].case /\ checks'[k].parties = checks[k].parties
             /\ checks'[k].hits = checks[k].hits
             /\ checks'[k].requestedBy = checks[k].requestedBy
  <2>1. CASE checks' = checks
    BY <2>1
  <2>2. CASE checks' # checks
    <3>1. PICK j \in DOMAIN checks : checks' =
                [checks EXCEPT ![j].status = decision, ![j].decidedBy = request[q].actor]
      BY <1>4, <1>6, <2>2
    <3> QED
      BY <1>3, <3>1
  <2> QED
    BY <2>1, <2>2
<1> QED
  BY <1>1, <1>2, <1>5, <1>6

\* A running check is moved only by its own steps and by what cuts it off.
LEMMA RunningGoesOn ==
  ASSUME ConflictTypeOK, [ConflictNext]_conflictVars, NEW q \in Requests,
         Checking(q)
  PROVE  \/ request'[q] = request[q] \/ CheckReadParties(q) \/ CheckCompare(q)
         \/ CheckRecord(q) \/ CheckRaises(q) \/ ConflictCrash
<1> USE DEF ConflictTypeOK, Checking
<1>2. ASSUME NEW p \in Requests, NEW e \in Cases, NEW a \in Actors, NEW list \in PartyLists,
             CreateCase(p, e, a, list) \/ PutParties(p, e, a, list) \/ RerunCheck(p, e, a)
      PROVE  request'[q] = request[q]
  BY <1>2 DEF CreateCase, PutParties, RerunCheck, StartCheck
<1>3. ASSUME NEW p \in Requests, NEW e \in Cases, NEW a \in Actors, RerunCheck(p, e, a)
      PROVE  request'[q] = request[q]
  BY <1>3 DEF RerunCheck, StartCheck
<1>4. ASSUME NEW p \in Requests, NEW k \in DOMAIN checks, NEW a \in Actors, DecideRead(p, k, a)
      PROVE  request'[q] = request[q]
  BY <1>4 DEF DecideRead
<1>5. ASSUME NEW p \in Requests, NEW decision \in {"approved", "rejected"},
             DecideWrite(p, decision)
      PROVE  request'[q] = request[q]
  BY <1>5 DEF DecideWrite
<1>6. ASSUME NEW p \in Requests, p # q,
             CheckReadParties(p) \/ CheckCompare(p) \/ CheckRecord(p) \/ CheckRaises(p)
      PROVE  request'[q] = request[q]
  BY <1>6 DEF CheckReadParties, CheckCompare, CheckRecord, CheckRaises
<1>7. CASE UNCHANGED conflictVars
  BY <1>7 DEF conflictVars
<1> QED
  BY <1>2, <1>3, <1>4, <1>5, <1>6, <1>7 DEF ConflictNext

\* A step that leaves the parties of c alone keeps its coverage.
LEMMA SeesKept ==
  ASSUME ConflictTypeOK, [ConflictNext]_conflictVars, NEW c \in Cases, NEW d \in Cases,
         parties'[c] = parties[c], d \in Hits(c, parties[c]), Sees(c, d)
  PROVE  Sees(c, d)'
<1> USE DEF ConflictTypeOK
<1>1. CASE \E k \in ChecksOf(c) : checks[k].parties = parties[c] /\ d \in checks[k].hits
  BY <1>1, RowsKept DEF Sees, ChecksOf
<1>2. ASSUME NEW q \in Requests, NEW a \in Actors, NEW list \in PartyLists, PutParties(q, c, a, list)
      PROVE  Sees(c, d)'
  BY <1>2 DEF PutParties, StartCheck, Sees, WillSee, WillCheck, Changing, Checking
<1>3. CASE c \in interrupted
  <2>1. CASE c \in interrupted'
    BY <2>1 DEF Sees
  <2>2. CASE c \notin interrupted'
    <3>1. ASSUME NEW q \in Requests, NEW e \in Cases, NEW a \in Actors,
                 NEW list \in PartyLists, PutParties(q, e, a, list)
          PROVE  Sees(c, d)'
      <4>1. CASE e = c
        BY <1>2, <3>1, <4>1
      <4>2. CASE e # c
        BY <1>3, <2>2, <3>1, <4>2 DEF PutParties
      <4> QED
        BY <4>1, <4>2
    <3>2. \E q \in Requests, e \in Cases, a \in Actors, list \in PartyLists :
            PutParties(q, e, a, list)
      BY <1>3, <2>2 DEF ConflictNext, conflictVars, CreateCase, RerunCheck, CheckReadParties, CheckCompare,
           CheckRecord, DecideRead, DecideWrite, CheckRaises, ConflictCrash
    <3> QED
      BY <3>1, <3>2
  <2> QED
    BY <2>1, <2>2
<1>4. ASSUME NEW q \in Requests, WillSee(c, d, q)
      PROVE  Sees(c, d)'
  <2> USE <1>4 DEF WillSee, WillCheck, Changing, Checking
  <2>1. CASE request'[q] = request[q]
    BY <2>1 DEF Sees
  <2>2. CASE CheckReadParties(q)
    BY <2>2 DEF CheckReadParties, Sees
  <2>3. CASE CheckCompare(q)
    BY <2>3 DEF CheckCompare, Sees
  <2>4. CASE CheckRecord(q)
    <3> DEFINE k == Len(checks) + 1
    <3>1. /\ k \in DOMAIN checks' /\ checks'[k].case = c
          /\ checks'[k].parties = parties[c] /\ d \in checks'[k].hits
      BY <2>4 DEF CheckRecord
    <3> QED
      BY <3>1 DEF Sees, ChecksOf
  <2>5. CASE ConflictCrash
    BY <2>5 DEF ConflictCrash, Unchecked, Checking, Sees
  <2>7. CASE CheckRaises(q)
    BY <2>7 DEF CheckRaises, Unchecked, Checking, Sees
  <2>6. \/ request'[q] = request[q] \/ CheckReadParties(q) \/ CheckCompare(q)
        \/ CheckRecord(q) \/ CheckRaises(q) \/ ConflictCrash
    BY RunningGoesOn
  <2> QED
    BY <2>1, <2>2, <2>3, <2>4, <2>5, <2>6, <2>7
<1> QED
  BY <1>1, <1>3, <1>4 DEF Sees

\* The same for the parties of c having been checked at all.
Checked(c) ==
    \/ c \in interrupted \/ parties[c] = {}
    \/ \E q \in Requests : WillCheck(c, q)
    \/ \E k \in ChecksOf(c) : checks[k].parties = parties[c]

LEMMA CheckedKept ==
  ASSUME ConflictTypeOK, [ConflictNext]_conflictVars, NEW c \in Cases, parties'[c] = parties[c], Checked(c)
  PROVE  Checked(c)'
<1> USE DEF ConflictTypeOK
<1>1. CASE \E k \in ChecksOf(c) : checks[k].parties = parties[c]
  BY <1>1, RowsKept DEF Checked, ChecksOf
<1>2. CASE parties[c] = {}
  BY <1>2 DEF Checked
<1>3. CASE c \in interrupted
  <2>1. CASE c \in interrupted'
    BY <2>1 DEF Checked
  <2>2. CASE c \notin interrupted'
    <3>1. ASSUME NEW q \in Requests, NEW e \in Cases, NEW a \in Actors,
                 NEW list \in PartyLists, PutParties(q, e, a, list)
          PROVE  Checked(c)'
      <4>1. CASE e = c
        BY <3>1, <4>1 DEF PutParties, StartCheck, Checked, WillCheck, Changing, Checking
      <4>2. CASE e # c
        BY <1>3, <2>2, <3>1, <4>2 DEF PutParties
      <4> QED
        BY <4>1, <4>2
    <3>2. \E q \in Requests, e \in Cases, a \in Actors, list \in PartyLists :
            PutParties(q, e, a, list)
      BY <1>3, <2>2 DEF ConflictNext, conflictVars, CreateCase, RerunCheck, CheckReadParties, CheckCompare,
           CheckRecord, DecideRead, DecideWrite, CheckRaises, ConflictCrash
    <3> QED
      BY <3>1, <3>2
  <2> QED
    BY <2>1, <2>2
<1>4. ASSUME NEW q \in Requests, WillCheck(c, q)
      PROVE  Checked(c)'
  <2> USE <1>4 DEF WillCheck, Changing, Checking
  <2>1. CASE request'[q] = request[q]
    BY <2>1 DEF Checked
  <2>2. CASE CheckReadParties(q)
    BY <2>2 DEF CheckReadParties, Checked
  <2>3. CASE CheckCompare(q)
    BY <2>3 DEF CheckCompare, Checked
  <2>4. CASE CheckRecord(q)
    <3> DEFINE k == Len(checks) + 1
    <3>1. k \in DOMAIN checks' /\ checks'[k].case = c /\ checks'[k].parties = parties[c]
      BY <2>4 DEF CheckRecord
    <3> QED
      BY <3>1 DEF Checked, ChecksOf
  <2>5. CASE ConflictCrash
    BY <2>5 DEF ConflictCrash, Unchecked, Checking, Checked
  <2>7. CASE CheckRaises(q)
    BY <2>7 DEF CheckRaises, Unchecked, Checking, Checked
  <2>6. \/ request'[q] = request[q] \/ CheckReadParties(q) \/ CheckCompare(q)
        \/ CheckRecord(q) \/ CheckRaises(q) \/ ConflictCrash
    BY RunningGoesOn
  <2> QED
    BY <2>1, <2>2, <2>3, <2>4, <2>5, <2>6, <2>7
<1> QED
  BY <1>1, <1>2, <1>3, <1>4 DEF Checked

\* A step that changes the parties of c covers them anew, or empties the list.
LEMMA ChangeCovers ==
  ASSUME ConflictTypeOK, [ConflictNext]_conflictVars, NEW c \in Cases, parties'[c] # parties[c]
  PROVE  \/ parties'[c] = {}
         \/ \E q \in Requests : /\ Changing(c, q)' /\ request'[q].phase = "check"
<1> USE DEF ConflictTypeOK
<1>1. ASSUME NEW q \in Requests, NEW e \in Cases, NEW a \in Actors, NEW list \in PartyLists,
             CreateCase(q, e, a, list) \/ PutParties(q, e, a, list)
      PROVE  \/ parties'[c] = {}
             \/ Changing(c, q)' /\ request'[q].phase = "check"
  <2>1. e = c
    BY <1>1 DEF CreateCase, PutParties
  <2>2. parties'[c] = {} \/ StartCheck(q, c, a, TRUE)
    BY <1>1, <2>1 DEF CreateCase, PutParties, NeedsCheck
  <2> QED
    BY <2>2 DEF StartCheck, Changing, Checking
<1>2. \E q \in Requests, e \in Cases, a \in Actors, list \in PartyLists :
        CreateCase(q, e, a, list) \/ PutParties(q, e, a, list)
  BY DEF ConflictNext, conflictVars, RerunCheck, CheckReadParties, CheckCompare, CheckRecord, DecideRead,
         DecideWrite, CheckRaises, ConflictCrash
<1> QED
  BY <1>1, <1>2

LEMMA NextChangeCovered == ConflictTypeOK /\ ChangeCovered /\ [ConflictNext]_conflictVars => ChangeCovered'
<1> SUFFICES ASSUME ConflictTypeOK, ChangeCovered, [ConflictNext]_conflictVars, NEW c \in Cases PROVE Checked(c)'
  BY DEF ChangeCovered, Checked
<1>1. CASE parties'[c] = parties[c]
  BY <1>1, CheckedKept DEF ChangeCovered, Checked
<1>2. CASE parties'[c] # parties[c]
  BY <1>2, ChangeCovers DEF Checked, WillCheck
<1> QED
  BY <1>1, <1>2

\* Whoever changed covers the pair; if neither did, whoever covered it does.
LEMMA NextPairCovered == ConflictTypeOK /\ PairCovered /\ [ConflictNext]_conflictVars => PairCovered'
<1> SUFFICES ASSUME ConflictTypeOK, PairCovered, [ConflictNext]_conflictVars, NEW c \in Cases, NEW d \in Cases,
                    (d \in Hits(c, parties[c]))'
             PROVE  Sees(c, d)' \/ Sees(d, c)'
  BY DEF PairCovered
<1>1. parties'[c] # {} /\ parties'[d] # {}
  BY DEF Hits
<1>2. CASE parties'[c] # parties[c]
  BY <1>1, <1>2, ChangeCovers DEF Sees, WillSee, WillCheck
<1>3. CASE parties'[d] # parties[d]
  BY <1>1, <1>3, ChangeCovers DEF Sees, WillSee, WillCheck
<1>4. CASE parties'[c] = parties[c] /\ parties'[d] = parties[d]
  <2>1. d \in Hits(c, parties[c])
    BY <1>4 DEF Hits
  <2>2. c \in Hits(d, parties[d])
    BY <2>1, HitsSymmetric
  <2>3. Sees(c, d) \/ Sees(d, c)
    BY <2>1 DEF PairCovered
  <2> QED
    BY <1>4, <2>1, <2>2, <2>3, SeesKept
<1> QED
  BY <1>2, <1>3, <1>4

-----------------------------------------------------------------------------
\* A decided check stays as it is, and what it was run on never changes.
LEMMA StepKeepsDecision ==
  ASSUME ConflictTypeOK, [ConflictNext]_conflictVars, NEW k \in DOMAIN checks
  PROVE  /\ checks[k].status # "pending" => checks'[k] = checks[k]
         /\ checks'[k].hits = checks[k].hits
         /\ checks'[k].parties = checks[k].parties
<1> USE DEF ConflictTypeOK
<1>1. ASSUME checks[k].status # "pending" PROVE checks'[k] = checks[k]
  <2>1. ASSUME NEW q \in Requests, CheckRecord(q) PROVE checks'[k] = checks[k]
    BY <2>1 DEF CheckRecord
  <2>2. ASSUME NEW q \in Requests, NEW decision \in {"approved", "rejected"},
               DecideWrite(q, decision)
        PROVE  checks'[k] = checks[k]
    BY <1>1, <2>2 DEF DecideWrite, StillPending
  <2>3. CASE UNCHANGED checks
    BY <2>3
  <2> QED
    BY <2>1, <2>2, <2>3 DEF ConflictNext, conflictVars, CreateCase, PutParties, RerunCheck,
         CheckReadParties, CheckCompare, DecideRead, CheckRaises, ConflictCrash
<1> QED
  BY <1>1, RowsKept

LEMMA NextDecision ==
  ASSUME ConflictTypeOK, DeciderIsAnother, NeverOwnDecision, [ConflictNext]_conflictVars
  PROVE  DeciderIsAnother' /\ NeverOwnDecision'
<1> USE DEF ConflictTypeOK
<1>1. DeciderIsAnother'
  <2> SUFFICES ASSUME NEW q \in Requests, request'[q].phase = "decide"
               PROVE  Local \/ checks'[request'[q].check].requestedBy # request'[q].actor
    BY DEF DeciderIsAnother
  <2>1. CASE request'[q] = request[q]
    <3>1. request[q].check \in DOMAIN checks
      BY <2>1 DEF RequestType, Idle
    <3> QED
      BY <2>1, <3>1, RowsKept DEF DeciderIsAnother
  <2>2. CASE request'[q] # request[q]
    <3>1. ASSUME NEW p \in Requests, NEW c \in Cases, NEW a \in Actors, NEW list \in PartyLists,
                 CreateCase(p, c, a, list) \/ PutParties(p, c, a, list)
          PROVE  FALSE
      BY <2>2, <3>1 DEF CreateCase, PutParties, StartCheck
    <3>2. ASSUME NEW p \in Requests, NEW c \in Cases, NEW a \in Actors, RerunCheck(p, c, a)
          PROVE  FALSE
      BY <2>2, <3>2 DEF RerunCheck, StartCheck
    <3>3. ASSUME NEW p \in Requests, CheckReadParties(p) \/ CheckCompare(p) \/ CheckRecord(p)
                 \/ CheckRaises(p)
          PROVE  FALSE
      BY <2>2, <3>3 DEF CheckReadParties, CheckCompare, CheckRecord, CheckRaises, Idle
    <3>4. ASSUME NEW p \in Requests, NEW decision \in {"approved", "rejected"},
                 DecideWrite(p, decision)
          PROVE  FALSE
      BY <2>2, <3>4 DEF DecideWrite, Idle
    <3>5. ASSUME NEW p \in Requests, NEW k \in DOMAIN checks, NEW a \in Actors, DecideRead(p, k, a)
          PROVE  Local \/ checks'[request'[q].check].requestedBy # request'[q].actor
      BY <2>2, <3>5 DEF DecideRead
    <3>6. CASE ConflictCrash
      BY <2>2, <3>6 DEF ConflictCrash, Idle
    <3>7. CASE UNCHANGED conflictVars
      BY <2>2, <3>7 DEF conflictVars
    <3> QED
      BY <3>1, <3>2, <3>3, <3>4, <3>5, <3>6, <3>7 DEF ConflictNext
  <2> QED
    BY <2>1, <2>2
<1>2. NeverOwnDecision'
  <2>1. CASE UNCHANGED checks
    BY <2>1 DEF NeverOwnDecision
  <2>2. ASSUME NEW q \in Requests, CheckRecord(q) PROVE NeverOwnDecision'
    BY <2>2 DEF CheckRecord, NeverOwnDecision
  <2>3. ASSUME NEW q \in Requests, NEW decision \in {"approved", "rejected"},
               DecideWrite(q, decision)
        PROVE  NeverOwnDecision'
    <3> DEFINE k == request[q].check
    <3>1. /\ k \in DOMAIN checks /\ checks[k] \in CheckRow
          /\ Local \/ checks[k].requestedBy # request[q].actor
      <4>1. k \in DOMAIN checks
        <5>1. request[q] \in RequestType(1 .. Len(checks)) /\ request[q].phase = "decide"
          BY <2>3 DEF DecideWrite
        <5>2. request[q].check \in 1 .. Len(checks)
          BY <5>1 DEF RequestType, Idle
        <5> QED
          BY <5>2
      <4>2. checks[k] \in CheckRow
        BY <4>1
      <4>3. Local \/ checks[k].requestedBy # request[q].actor
        BY <2>3 DEF DecideWrite, DeciderIsAnother
      <4> QED
        BY <4>1, <4>2, <4>3
    <3>2. \/ checks' = checks
          \/ checks' = [checks EXCEPT ![k] =
                 [checks[k] EXCEPT !.status = decision, !.decidedBy = request[q].actor]]
      BY <2>3, <3>1 DEF DecideWrite, DecisionTarget
    <3> DEFINE row == [checks[k] EXCEPT !.status = decision, !.decidedBy = request[q].actor]
    <3>3. /\ row.status = decision /\ row.decidedBy = request[q].actor
          /\ row.requestedBy = checks[k].requestedBy
      BY <3>1 DEF CheckRow
    <3> HIDE DEF k, row
    <3>4. CASE checks' = checks
      BY <3>4 DEF NeverOwnDecision
    <3>5. CASE checks' = [checks EXCEPT ![k] = row]
      BY <3>1, <3>3, <3>5 DEF NeverOwnDecision
    <3> QED
      BY <3>2, <3>4, <3>5 DEF row
  <2> QED
    BY <2>1, <2>2, <2>3 DEF ConflictNext, conflictVars, CreateCase, PutParties, RerunCheck,
         CheckReadParties, CheckCompare, DecideRead, CheckRaises, ConflictCrash
<1> QED
  BY <1>1, <1>2

LEMMA NextInv == ConflictInv /\ [ConflictNext]_conflictVars => ConflictInv'
  BY NextConflictType, NextChangeCovered, NextPairCovered, NextDecision DEF ConflictInv

THEOREM ConflictInvariance == ConflictSpec => []ConflictInv
  BY InitConflict, NextInv, PTL DEF ConflictSpec

\* Every variable of the conflict checks keeps its type, and a decision in
\* flight points at a check row that exists.
THEOREM ConflictTypeCorrect == ConflictSpec => []ConflictTypeOK
  BY ConflictInvariance, PTL DEF ConflictInv

\* The extent of what put_parties and create_case leave out: parties that no
\* check ever saw are those of a case whose check was cut off after the parties
\* had been committed.
THEOREM UncheckedMeansCutOff ==
  ConflictSpec => [](\A c \in Cases :
      /\ Settled(c) /\ parties[c] # {}
      /\ \A k \in ChecksOf(c) : checks[k].parties # parties[c]
      => c \in interrupted)
<1>1. ConflictInv => \A c \in Cases :
        /\ Settled(c) /\ parties[c] # {}
        /\ \A k \in ChecksOf(c) : checks[k].parties # parties[c]
        => c \in interrupted
  BY DEF ConflictInv, ChangeCovered, Settled, WillCheck
<1> QED
  BY <1>1, ConflictInvariance, PTL

\* Two cases that get conflicting parties at the same time cannot both miss it
\* once both their checks are recorded.
THEOREM ConflictNotMissed == ConflictSpec => []ConflictSeenByOneSide
<1>1. ConflictInv => ConflictSeenByOneSide
  <2> SUFFICES ASSUME ConflictInv, NEW c \in Cases, NEW d \in Cases, Quiet(c), Quiet(d),
                      d \in Hits(c, parties[c])
               PROVE  \/ \E k \in ChecksOf(c) :
                            checks[k].parties = parties[c] /\ d \in checks[k].hits
                      \/ \E k \in ChecksOf(d) :
                            checks[k].parties = parties[d] /\ c \in checks[k].hits
    BY DEF ConflictSeenByOneSide
  <2>1. Sees(c, d) \/ Sees(d, c)
    BY DEF ConflictInv, PairCovered
  <2> QED
    BY <2>1 DEF Sees, WillSee, WillCheck, Quiet, Settled
<1> QED
  BY <1>1, ConflictInvariance, PTL

\* Outside local mode nobody decides a check they ran.
THEOREM SeparateDecider == ConflictSpec => []NeverOwnDecision
  BY ConflictInvariance, PTL DEF ConflictInv

\* A decision is taken once.
THEOREM OneDecision == ConflictSpec => DecisionIsFinal
<1>1. ConflictInv /\ [ConflictNext]_conflictVars =>
        [\A k \in DOMAIN checks :
          /\ checks[k].status # "pending" => checks'[k] = checks[k]
          /\ checks'[k].hits = checks[k].hits
          /\ checks'[k].parties = checks[k].parties]_conflictVars
  BY StepKeepsDecision DEF ConflictInv
<1> QED
  BY <1>1, ConflictInvariance, PTL DEF ConflictSpec, DecisionIsFinal
=============================================================================
