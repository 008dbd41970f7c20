--------------------------- MODULE Workbench_proof ----------------------------
(***************************************************************************)
(* Proofs about the parts that the workbench holds side by side and that    *)
(* have no proof module of their own: runtime requests, sign-in, human      *)
(* tasks, the page indexes, a framework run and a model's answer, each of   *)
(* its own specification and for any value of its constants.  At the end:   *)
(* a behaviour of the workbench is a behaviour of every part, which carries *)
(* the results over to the specification that is model-checked.             *)
(***************************************************************************)
EXTENDS Workbench, ConflictCheck_proof, ChatIdempotency_proof, EvidenceReview_proof,
        FiniteSetTheorems, TLAPS

-----------------------------------------------------------------------------
(* Runtime requests.  The claim is a lock on starting the run of its id.    *)

\* What a client may be told: nothing of a run, or of a run of its own request.
OwnAnswer(c, y) == y # NoCall /\ y.run # NoRun => OfRequest(y.run, c)

LEMMA InitRequest == RequestInit => RequestInv
<1> SUFFICES ASSUME RequestInit PROVE RequestInv
  OBVIOUS
<1>1. RequestTypeOK
  BY DEF RequestInit, RequestTypeOK, ClaimRow
<1>2. \A c \in Clients : call[c] = NoCall /\ answer[c] = NoCall
  BY DEF RequestInit
<1>3. \A k \in RunIds : run[k] = NoRun
  BY DEF RequestInit
<1>4. \A r \in RequestIds : claim[r] # NoClaim => claim[r].run = NoRun
  BY DEF RequestInit
<1> QED
  BY <1>1, <1>2, <1>3, <1>4 DEF RequestInv, Owns, OneRunPerRequest, ToldOfOwnRun

-----------------------------------------------------------------------------
\* A step of one start() that leaves claims and runs alone.
LEMMA CallStep ==
  ASSUME RequestInv, NEW c \in Clients, NEW x \in StartCall \cup {NoCall},
         NEW y \in Reply \cup {NoCall},
         call' = [call EXCEPT ![c] = x],
         answer' = [answer EXCEPT ![c] = y],
         UNCHANGED <<claim, run>>,
         Owns(c)' => Owns(c), MayStart(c)' => MayStart(c),
         (x # NoCall /\ x.phase \in {"created", "linked"}) => OfRequest(x.run, c),
         OwnAnswer(c, y)
  PROVE  RequestInv'
<1>1. RequestTypeOK'
  BY DEF RequestInv, RequestTypeOK
<1>2. \A d \in Clients : call'[d] = (IF d = c THEN x ELSE call[d])
                         /\ answer'[d] = (IF d = c THEN y ELSE answer[d])
  BY DEF RequestInv, RequestTypeOK
<1>3. \A d \in Clients : (Owns(d)' => Owns(d)) /\ (MayStart(d)' => MayStart(d))
  BY <1>2 DEF Owns, MayStart
<1>4. \A d \in Clients : Owns(d)' => OwnerHolds(d)'
  BY <1>3 DEF RequestInv, OwnerHolds
<1>5. \A d \in Clients : (call'[d] # NoCall /\ call'[d].phase \in {"created", "linked"}) =>
          OfRequest(call[d].run, d)'
  BY <1>2 DEF RequestInv, OfRequest
<1>6. \A k \in RunIds : run'[k] # NoRun => RunIsClaimed(k)'
  BY <1>3 DEF RequestInv, RunIsClaimed
<1>7. \A r \in RequestIds : (claim'[r] # NoClaim /\ claim'[r].run # NoRun) => LinkIsSound(r)'
  BY DEF RequestInv, LinkIsSound
<1>8. OneRunPerRequest'
  BY DEF RequestInv, OneRunPerRequest
<1>9. ToldOfOwnRun'
  BY <1>2 DEF RequestInv, ToldOfOwnRun, OwnAnswer, OfRequest
<1> QED
  BY <1>1, <1>4, <1>5, <1>6, <1>7, <1>8, <1>9 DEF RequestInv

LEMMA AnswerType ==
  ASSUME RequestTypeOK, NEW c \in Clients
  PROVE  /\ answer[c] \in Reply \cup {NoCall} /\ call[c] \in StartCall \cup {NoCall}
         /\ answer = [answer EXCEPT ![c] = answer[c]]
         /\ call[c] # NoCall => call[c].run \in RunIds \cup {NoRun}
  BY DEF RequestTypeOK, StartCall

LEMMA ToldBefore ==
  ASSUME RequestInv, NEW c \in Clients
  PROVE  OwnAnswer(c, answer[c])
  BY RequestConstants DEF RequestInv, ToldOfOwnRun, OwnAnswer, OfRequest, RequestTypeOK, Reply

\* A client moves within its start().
LEMMA PhaseStep ==
  ASSUME RequestInv, NEW c \in Clients, NEW phase \in Phases \ {"created", "linked"},
         Step(c, phase, NoRun), UNCHANGED <<claim, run, answer>>,
         Owns(c) \/ phase = "lost", phase \in {"won", "releasing", "entered"} => MayStart(c)
  PROVE  RequestInv'
<1> DEFINE x == [phase |-> phase, run |-> NoRun]
<1>1. x \in StartCall
  BY DEF StartCall
<1>2. call' = [call EXCEPT ![c] = x]
  BY DEF Step
<1>3. call'[c] = x
  BY <1>2 DEF RequestInv, RequestTypeOK
<1>4. (Owns(c)' => Owns(c)) /\ (MayStart(c)' => MayStart(c))
  BY <1>3 DEF Owns, MayStart
<1>5. x.phase \notin {"created", "linked"}
  OBVIOUS
<1> HIDE DEF x
<1>6. answer' = [answer EXCEPT ![c] = answer[c]] /\ answer[c] \in Reply \cup {NoCall}
  BY AnswerType DEF RequestInv
<1> QED
  BY <1>1, <1>2, <1>4, <1>5, <1>6, ToldBefore, CallStep

\* A start() ends with an answer.
LEMMA AnswerStep ==
  ASSUME RequestInv, NEW c \in Clients, NEW kind \in Kinds, NEW k \in RunIds \cup {NoRun},
         Answer(c, kind, k), UNCHANGED <<claim, run>>, k # NoRun => OfRequest(k, c)
  PROVE  RequestInv'
<1> DEFINE y == [kind |-> kind, run |-> k]
<1>1. y \in Reply /\ OwnAnswer(c, y)
  BY DEF Reply, OwnAnswer
<1>2. call' = [call EXCEPT ![c] = NoCall] /\ answer' = [answer EXCEPT ![c] = y]
  BY DEF Answer
<1>3. ~Owns(c)' /\ ~MayStart(c)'
  BY <1>2 DEF Owns, MayStart, RequestInv, RequestTypeOK
<1> HIDE DEF y
<1> QED
  BY <1>1, <1>2, <1>3, CallStep

-----------------------------------------------------------------------------
LEMMA ClaimStep ==
  ASSUME RequestInv, NEW c \in Clients, Claim(c)
  PROVE  RequestInv'
<1> DEFINE r == IdOf[c]
<1>0. r \in RequestIds /\ DigestOf[c] \in Digests
  BY RequestConstants
<1>1. CASE claim[r] # NoClaim
  BY <1>1, PhaseStep DEF Claim, Phases
<1>2. CASE claim[r] = NoClaim
  <2> DEFINE entry == [digest |-> DigestOf[c], run |-> NoRun]
             x == [phase |-> "won", run |-> NoRun]
  <2>1. entry \in ClaimRow /\ entry # NoClaim /\ entry.digest = DigestOf[c] /\ entry.run = NoRun
    BY <1>0, RequestConstants DEF ClaimRow
  <2>2. x \in StartCall /\ x # NoCall /\ x.phase = "won"
    BY RequestConstants DEF StartCall, Phases
  <2>3. /\ claim' = [claim EXCEPT ![r] = entry] /\ call' = [call EXCEPT ![c] = x]
        /\ run' = run /\ answer' = answer /\ call[c] = NoCall
    BY <1>2 DEF Claim, Step
  <2> HIDE DEF entry, x
  <2>4. RequestTypeOK'
    BY <2>1, <2>2, <2>3 DEF RequestInv, RequestTypeOK
  <2>5. /\ \A d \in Clients : call'[d] = IF d = c THEN x ELSE call[d]
        /\ \A s \in RequestIds : claim'[s] = IF s = r THEN entry ELSE claim[s]
    BY <2>3 DEF RequestInv, RequestTypeOK
  <2>6. \A d \in Clients : IdOf[d] = r => ~Owns(d)
    BY <1>2 DEF RequestInv, OwnerHolds
  <2>7. \A k \in RunIds : run[k] # NoRun => run[k].id # r /\ run[k].id \in RequestIds
    BY <1>2 DEF RequestInv, RunIsClaimed, RequestTypeOK, RunRow
  <2>8. ASSUME NEW d \in Clients, Owns(d)' PROVE OwnerHolds(d)'
    <3>0. IdOf[d] \in RequestIds
      BY RequestConstants
    <3>1. CASE d = c
      BY <2>1, <2>3, <2>5, <2>6, <3>0, <3>1 DEF OwnerHolds, Owns
    <3>2. CASE d # c
      <4>1. Owns(d) /\ IdOf[d] # r
        BY <2>5, <2>6, <2>8, <3>2 DEF Owns
      <4>2. OwnerHolds(d)
        BY <4>1 DEF RequestInv
      <4> QED
        BY <2>5, <3>0, <3>2, <4>1, <4>2 DEF OwnerHolds, Owns, MayStart
    <3> QED
      BY <3>1, <3>2
  <2>9. \A d \in Clients : (call'[d] # NoCall /\ call'[d].phase \in {"created", "linked"}) =>
            OfRequest(call[d].run, d)'
    BY <2>2, <2>3, <2>5 DEF RequestInv, OfRequest
  <2>10. ASSUME NEW k \in RunIds, run'[k] # NoRun PROVE RunIsClaimed(k)'
    <3>1. RunIsClaimed(k) /\ run[k].id # r /\ run[k].id \in RequestIds
      BY <2>3, <2>7, <2>10 DEF RequestInv
    <3> QED
      BY <2>3, <2>5, <3>1 DEF RunIsClaimed, MayStart, Owns
  <2>11. \A s \in RequestIds : (claim'[s] # NoClaim /\ claim'[s].run # NoRun) => LinkIsSound(s)'
    BY <2>1, <2>3, <2>5 DEF RequestInv, LinkIsSound
  <2>12. OneRunPerRequest' /\ ToldOfOwnRun'
    BY <2>3 DEF RequestInv, OneRunPerRequest, ToldOfOwnRun
  <2> QED
    BY <2>4, <2>8, <2>9, <2>10, <2>11, <2>12 DEF RequestInv
<1> QED
  BY <1>1, <1>2

LEMMA ReplayStep ==
  ASSUME RequestInv, NEW c \in Clients, Replay(c)
  PROVE  RequestInv'
<1> DEFINE entry == claim[IdOf[c]]
<1>1. IdOf[c] \in RequestIds /\ UNCHANGED <<claim, run>>
  BY RequestConstants DEF Replay
<1>2. CASE \E kind \in {"in progress", "reconcile", "conflict"} : Answer(c, kind, NoRun)
  BY <1>1, <1>2, AnswerStep DEF Kinds
<1>3. CASE entry # NoClaim /\ SameRequest(c, entry) /\ entry.run # NoRun /\ Answer(c, "replay", entry.run)
  <2>1. LinkIsSound(IdOf[c])
    BY <1>1, <1>3 DEF RequestInv
  <2>2. OfRequest(entry.run, c) /\ entry.run \in RunIds
    BY <1>3, <2>1 DEF LinkIsSound, SameRequest, OfRequest
  <2> QED
    BY <1>1, <1>3, <2>2, AnswerStep DEF Kinds
<1> QED
  BY <1>2, <1>3 DEF Replay

-----------------------------------------------------------------------------
\* The claim of a start() that never entered the coordinator is given back.
LEMMA ReleaseStep ==
  ASSUME RequestInv, NEW c \in Clients, ReleaseClaim(c)
  PROVE  RequestInv'
<1> DEFINE r == IdOf[c]
           y == [kind |-> "failed", run |-> NoRun]
<1>0. r \in RequestIds /\ Owns(c) /\ MayStart(c) /\ OwnerHolds(c)
  BY RequestConstants DEF ReleaseClaim, At, Owns, MayStart, Phases, RequestInv
<1>1. y \in Reply /\ y.run = NoRun
  BY DEF Reply, Kinds
<1>2. /\ claim' = [claim EXCEPT ![r] = NoClaim] /\ call' = [call EXCEPT ![c] = NoCall]
      /\ answer' = [answer EXCEPT ![c] = y] /\ run' = run
  BY <1>0 DEF ReleaseClaim, Answer, OwnerHolds
<1> HIDE DEF y
<1>3. RequestTypeOK'
  BY <1>1, <1>2 DEF RequestInv, RequestTypeOK
<1>4. /\ \A d \in Clients : call'[d] = (IF d = c THEN NoCall ELSE call[d])
                            /\ answer'[d] = (IF d = c THEN y ELSE answer[d])
      /\ \A s \in RequestIds : claim'[s] = IF s = r THEN NoClaim ELSE claim[s]
  BY <1>2 DEF RequestInv, RequestTypeOK
<1>5. \A k \in RunIds : run[k] # NoRun => run[k].id # r /\ run[k].id \in RequestIds
  BY <1>0 DEF RequestInv, RunIsClaimed, RequestTypeOK, RunRow
<1>6. ASSUME NEW d \in Clients, Owns(d)' PROVE OwnerHolds(d)'
  <2>1. d # c /\ Owns(d) /\ IdOf[d] # r /\ IdOf[d] \in RequestIds
    BY <1>0, <1>4, <1>6, RequestConstants DEF Owns, OwnerHolds
  <2>2. OwnerHolds(d)
    BY <2>1 DEF RequestInv
  <2> QED
    BY <1>4, <2>1, <2>2 DEF OwnerHolds, Owns, MayStart
<1>7. \A d \in Clients : (call'[d] # NoCall /\ call'[d].phase \in {"created", "linked"}) =>
          OfRequest(call[d].run, d)'
  BY <1>2, <1>4 DEF RequestInv, OfRequest
<1>8. ASSUME NEW k \in RunIds, run'[k] # NoRun PROVE RunIsClaimed(k)'
  <2>1. RunIsClaimed(k) /\ run[k].id # r /\ run[k].id \in RequestIds
    BY <1>2, <1>5, <1>8 DEF RequestInv
  <2> QED
    BY <1>2, <1>4, <2>1 DEF RunIsClaimed, MayStart, Owns
<1>9. \A s \in RequestIds : (claim'[s] # NoClaim /\ claim'[s].run # NoRun) => LinkIsSound(s)'
  BY <1>2, <1>4 DEF RequestInv, LinkIsSound
<1>10. OneRunPerRequest' /\ ToldOfOwnRun'
  BY <1>1, <1>2, <1>4 DEF RequestInv, OneRunPerRequest, ToldOfOwnRun
<1> QED
  BY <1>3, <1>6, <1>7, <1>8, <1>9, <1>10 DEF RequestInv

-----------------------------------------------------------------------------
\* The owner starts the one run of its id and can no longer start another.
LEMMA StartStep ==
  ASSUME RequestInv, NEW c \in Clients, NEW k \in RunIds, StartRun(c, k)
  PROVE  RequestInv'
<1> DEFINE r == IdOf[c]
           new == [id |-> r, digest |-> DigestOf[c], status |-> "running"]
<1>0. r \in RequestIds /\ Owns(c) /\ MayStart(c) /\ OwnerHolds(c)
  BY RequestConstants DEF StartRun, At, Owns, MayStart, Phases, RequestInv
<1>1. new \in RunRow /\ new # NoRun /\ new.id = r /\ new.digest = DigestOf[c]
  BY RequestConstants DEF RunRow
<1>2. run[k] = NoRun /\ run' = [run EXCEPT ![k] = new] /\ UNCHANGED <<claim, answer>>
  BY DEF StartRun
<1>3. PICK x \in StartCall :
         /\ call' = [call EXCEPT ![c] = x] /\ x # NoCall
         /\ x.phase \in {"created", "uncertain"} /\ (x.phase = "created" => x.run = k)
  <2>1. \A phase \in Phases, j \in RunIds \cup {NoRun} :
           [phase |-> phase, run |-> j] \in StartCall /\ [phase |-> phase, run |-> j] # NoCall
    BY RequestConstants DEF StartCall
  <2>2. CASE Step(c, "created", k)
    <3> DEFINE z == [phase |-> "created", run |-> k]
    <3>1. z \in StartCall /\ z # NoCall /\ z.phase = "created" /\ z.run = k
      BY <2>1 DEF Phases
    <3>2. call' = [call EXCEPT ![c] = z]
      BY <2>2 DEF Step
    <3> HIDE DEF z
    <3> QED
      BY <3>1, <3>2
  <2>3. CASE Step(c, "uncertain", NoRun)
    <3> DEFINE z == [phase |-> "uncertain", run |-> NoRun]
    <3>1. z \in StartCall /\ z # NoCall /\ z.phase = "uncertain"
      BY <2>1 DEF Phases
    <3>2. call' = [call EXCEPT ![c] = z]
      BY <2>3 DEF Step
    <3> HIDE DEF z
    <3> QED
      BY <3>1, <3>2
  <2> QED
    BY <2>2, <2>3 DEF StartRun, EnteredPhaseOnFailure
<1> HIDE DEF new
<1>4. RequestTypeOK'
  BY <1>1, <1>2, <1>3 DEF RequestInv, RequestTypeOK
<1>5. /\ \A d \in Clients : call'[d] = IF d = c THEN x ELSE call[d]
      /\ \A j \in RunIds : run'[j] = IF j = k THEN new ELSE run[j]
  BY <1>2, <1>3 DEF RequestInv, RequestTypeOK
<1>6. \A j \in RunIds : run[j] # NoRun => run[j].id # r
  BY <1>0 DEF RequestInv, RunIsClaimed
<1>7. \A d \in Clients : (Owns(d)' => Owns(d)) /\ (MayStart(d)' => MayStart(d) /\ d # c)
  BY <1>0, <1>3, <1>5 DEF Owns, MayStart
<1>8. \A d \in Clients : Owns(d)' => OwnerHolds(d)'
  BY <1>2, <1>7 DEF RequestInv, OwnerHolds
<1>9. ASSUME NEW d \in Clients, call'[d] # NoCall, call'[d].phase \in {"created", "linked"}
      PROVE  OfRequest(call[d].run, d)'
  <2>1. CASE d = c
    BY <1>1, <1>3, <1>5, <1>9, <2>1 DEF OfRequest
  <2>2. CASE d # c
    <3>1. OfRequest(call[d].run, d) /\ call'[d] = call[d]
      BY <1>5, <1>9, <2>2 DEF RequestInv
    <3> QED
      BY <1>2, <1>5, <3>1 DEF OfRequest
  <2> QED
    BY <2>1, <2>2
<1>10. ASSUME NEW j \in RunIds, run'[j] # NoRun PROVE RunIsClaimed(j)'
  <2>1. CASE j = k
    <3>1. run'[j].id = r /\ run'[j].digest = DigestOf[c]
      BY <1>1, <1>5, <2>1
    <3>2. \A d \in Clients : IdOf[d] = r => ~MayStart(d)'
      BY <1>0, <1>7 DEF OwnerHolds, MayStart
    <3> QED
      BY <1>0, <1>2, <3>1, <3>2 DEF RunIsClaimed, OwnerHolds
  <2>2. CASE j # k
    <3>1. RunIsClaimed(j) /\ run'[j] = run[j]
      BY <1>5, <1>10, <2>2 DEF RequestInv
    <3> QED
      BY <1>2, <1>7, <3>1 DEF RunIsClaimed
  <2> QED
    BY <2>1, <2>2
<1>11. ASSUME NEW s \in RequestIds, claim'[s] # NoClaim, claim'[s].run # NoRun
       PROVE  LinkIsSound(s)'
  <2>1. LinkIsSound(s)
    BY <1>2, <1>11 DEF RequestInv
  <2> QED
    BY <1>2, <1>5, <2>1 DEF LinkIsSound
<1>12. OneRunPerRequest'
  BY <1>1, <1>5, <1>6 DEF RequestInv, OneRunPerRequest
<1>13. ToldOfOwnRun'
  <2> SUFFICES ASSUME NEW d \in Clients, answer[d] # NoCall, answer[d].run # NoRun
               PROVE  /\ run'[answer[d].run] # NoRun /\ run'[answer[d].run].id = IdOf[d]
                      /\ run'[answer[d].run].digest = DigestOf[d]
    BY <1>2 DEF ToldOfOwnRun
  <2>1. answer[d].run \in RunIds
    BY DEF RequestInv, RequestTypeOK, Reply
  <2> QED
    BY <1>2, <1>5, <2>1 DEF RequestInv, ToldOfOwnRun
<1> QED
  BY <1>4, <1>8, <1>9, <1>10, <1>11, <1>12, <1>13 DEF RequestInv

\* The callback links the run the owner has just started.
LEMMA LinkStep ==
  ASSUME RequestInv, NEW c \in Clients, LinkRun(c)
  PROVE  RequestInv'
<1> DEFINE r == IdOf[c]
           k == call[c].run
           entry == [claim[r] EXCEPT !.run = k]
           x == [phase |-> "linked", run |-> k]
<1>0. /\ r \in RequestIds /\ Owns(c) /\ ~MayStart(c) /\ OwnerHolds(c) /\ OfRequest(k, c)
      /\ k \in RunIds
  BY RequestConstants
  DEF LinkRun, At, Owns, MayStart, Phases, RequestInv, OfRequest
<1>1. claim[r] \in ClaimRow /\ claim[r].digest = DigestOf[c]
  BY <1>0 DEF OwnerHolds, RequestInv, RequestTypeOK
<1>2. entry \in ClaimRow /\ entry # NoClaim /\ entry.digest = DigestOf[c] /\ entry.run = k /\ k # NoRun
  BY <1>0, <1>1, RequestConstants DEF ClaimRow
<1>3. x \in StartCall /\ x # NoCall /\ x.phase = "linked" /\ x.run = k
  BY <1>0, RequestConstants DEF StartCall, Phases
<1>4. /\ claim' = [claim EXCEPT ![r] = entry] /\ call' = [call EXCEPT ![c] = x]
      /\ run' = run /\ answer' = answer
  BY <1>0 DEF LinkRun, Step, OwnerHolds
<1> HIDE DEF entry, x, k
<1>5. RequestTypeOK'
  BY <1>2, <1>3, <1>4 DEF RequestInv, RequestTypeOK
<1>6. /\ \A d \in Clients : call'[d] = IF d = c THEN x ELSE call[d]
      /\ \A s \in RequestIds : claim'[s] = IF s = r THEN entry ELSE claim[s]
  BY <1>4 DEF RequestInv, RequestTypeOK
<1>7. \A d \in Clients : (Owns(d)' => Owns(d)) /\ (MayStart(d)' => MayStart(d) /\ IdOf[d] # r)
  BY <1>0, <1>3, <1>6 DEF Owns, MayStart, OwnerHolds
<1>8. ASSUME NEW d \in Clients, Owns(d)' PROVE OwnerHolds(d)'
  <2>1. OwnerHolds(d) /\ IdOf[d] \in RequestIds
    BY <1>7, <1>8, RequestConstants DEF RequestInv
  <2>2. claim'[IdOf[d]] # NoClaim /\ claim'[IdOf[d]].digest = DigestOf[d]
    <3>1. CASE IdOf[d] = r
      <4>1. d = c
        BY <1>0, <1>7, <1>8, <3>1 DEF OwnerHolds
      <4> QED
        BY <1>2, <1>6, <2>1, <4>1
    <3>2. CASE IdOf[d] # r
      BY <1>6, <2>1, <3>2 DEF OwnerHolds
    <3> QED
      BY <3>1, <3>2
  <2>3. MayStart(d)' => claim'[IdOf[d]].run = NoRun
    BY <1>6, <1>7, <2>1 DEF OwnerHolds
  <2> QED
    BY <1>7, <2>1, <2>2, <2>3 DEF OwnerHolds
<1>9. \A d \in Clients : (call'[d] # NoCall /\ call'[d].phase \in {"created", "linked"}) =>
          OfRequest(call[d].run, d)'
  BY <1>0, <1>3, <1>4, <1>6 DEF RequestInv, OfRequest
<1>10. ASSUME NEW j \in RunIds, run'[j] # NoRun PROVE RunIsClaimed(j)'
  <2>1. RunIsClaimed(j) /\ run[j].id \in RequestIds /\ run'[j] = run[j]
    BY <1>4, <1>10 DEF RequestInv, RequestTypeOK, RunRow
  <2>2. claim'[run[j].id] # NoClaim /\ claim'[run[j].id].digest = run[j].digest
    BY <1>0, <1>2, <1>6, <2>1 DEF RunIsClaimed, OwnerHolds
  <2> QED
    BY <1>7, <2>1, <2>2 DEF RunIsClaimed
<1>11. ASSUME NEW s \in RequestIds, claim'[s] # NoClaim, claim'[s].run # NoRun
       PROVE  LinkIsSound(s)'
  <2>1. CASE s = r
    BY <1>0, <1>2, <1>4, <1>6, <2>1 DEF LinkIsSound, OfRequest
  <2>2. CASE s # r
    BY <1>4, <1>6, <1>11, <2>2 DEF RequestInv, LinkIsSound
  <2> QED
    BY <2>1, <2>2
<1>12. OneRunPerRequest' /\ ToldOfOwnRun'
  BY <1>4 DEF RequestInv, OneRunPerRequest, ToldOfOwnRun
<1> QED
  BY <1>5, <1>8, <1>9, <1>10, <1>11, <1>12 DEF RequestInv

-----------------------------------------------------------------------------
\* A step that ends runs and calls, and answers with runs of the caller's request.
LEMMA EndStep ==
  ASSUME RequestInv, claim' = claim,
         call' \in [Clients -> StartCall \cup {NoCall}],
         \A c \in Clients : call'[c] = call[c] \/ call'[c] = NoCall,
         run' \in [RunIds -> RunRow \cup {NoRun}],
         \A k \in RunIds : (run'[k] = NoRun <=> run[k] = NoRun)
             /\ (run[k] # NoRun => run'[k].id = run[k].id /\ run'[k].digest = run[k].digest),
         answer' \in [Clients -> Reply \cup {NoCall}],
         \A c \in Clients : answer'[c] = answer[c] \/ OwnAnswer(c, answer'[c])
  PROVE  RequestInv'
<1>1. RequestTypeOK'
  BY DEF RequestInv, RequestTypeOK
<1>2. \A d \in Clients : (Owns(d)' => Owns(d)) /\ (MayStart(d)' => MayStart(d))
  BY DEF Owns, MayStart
<1>3. \A d \in Clients : Owns(d)' => OwnerHolds(d)'
  BY <1>2 DEF RequestInv, OwnerHolds
<1>4. ASSUME NEW d \in Clients, call'[d] # NoCall, call'[d].phase \in {"created", "linked"}
      PROVE  OfRequest(call[d].run, d)'
  <2>1. OfRequest(call[d].run, d) /\ call'[d] = call[d]
    BY <1>4 DEF RequestInv
  <2> QED
    BY <2>1 DEF OfRequest
<1>5. ASSUME NEW k \in RunIds, run'[k] # NoRun PROVE RunIsClaimed(k)'
  <2>1. RunIsClaimed(k)
    BY <1>5 DEF RequestInv
  <2> QED
    BY <1>2, <1>5, <2>1 DEF RunIsClaimed
<1>6. ASSUME NEW r \in RequestIds, claim'[r] # NoClaim, claim'[r].run # NoRun
      PROVE  LinkIsSound(r)'
  <2>1. LinkIsSound(r)
    BY <1>6 DEF RequestInv
  <2> QED
    BY <2>1 DEF LinkIsSound
<1>7. OneRunPerRequest'
  BY DEF RequestInv, OneRunPerRequest
<1>8. ASSUME NEW c \in Clients, answer'[c] # NoCall, answer'[c].run # NoRun
      PROVE  /\ run'[answer'[c].run] # NoRun /\ run'[answer'[c].run].id = IdOf[c]
             /\ run'[answer'[c].run].digest = DigestOf[c]
  <2>1. OfRequest(answer'[c].run, c)
    BY <1>8, ToldBefore DEF OwnAnswer
  <2> QED
    BY <2>1 DEF OfRequest
<1>9. ToldOfOwnRun'
  BY <1>8 DEF ToldOfOwnRun
<1> QED
  BY <1>1, <1>3, <1>4, <1>5, <1>6, <1>7, <1>9 DEF RequestInv

LEMMA EndedRow ==
  ASSUME NEW entry \in RunRow, NEW status \in {"completed", "failed"}
  PROVE  /\ [entry EXCEPT !.status = status] \in RunRow
         /\ [entry EXCEPT !.status = status].id = entry.id
         /\ [entry EXCEPT !.status = status].digest = entry.digest
         /\ [entry EXCEPT !.status = status] # NoRun
  BY RequestConstants DEF RunRow

LEMMA EndRunStep ==
  ASSUME RequestInv, NEW c \in Clients, NEW status \in {"completed", "failed"},
         EndAgentRun(c, status)
  PROVE  RequestInv'
<1>0. PICK k \in RunIds : k = call[c].run /\ OfRequest(k, c)
  BY DEF EndAgentRun, At, RequestInv, OfRequest
<1>1. run[k] \in RunRow /\ k # NoRun
  BY <1>0, RequestConstants DEF OfRequest, RequestInv, RequestTypeOK
<1>2. /\ run' = [run EXCEPT ![k] = [run[k] EXCEPT !.status = status]]
      /\ call' = [call EXCEPT ![c] = NoCall] /\ claim' = claim
      /\ answer' = [answer EXCEPT ![c] = [kind |-> status, run |-> k]]
  BY <1>0 DEF EndAgentRun, Answer
<1>3. [kind |-> status, run |-> k] \in Reply /\ OwnAnswer(c, [kind |-> status, run |-> k])
  BY <1>0 DEF Reply, Kinds, OwnAnswer
<1>4. PICK new \in RunRow : /\ new = [run[k] EXCEPT !.status = status] /\ new # NoRun
                            /\ new.id = run[k].id /\ new.digest = run[k].digest
  BY <1>1, EndedRow
<1>5. /\ run' \in [RunIds -> RunRow \cup {NoRun}]
      /\ \A j \in RunIds : run'[j] = IF j = k THEN new ELSE run[j]
  BY <1>2, <1>4 DEF RequestInv, RequestTypeOK
<1>6. /\ call' \in [Clients -> StartCall \cup {NoCall}]
      /\ \A d \in Clients : call'[d] = call[d] \/ call'[d] = NoCall
      /\ answer' \in [Clients -> Reply \cup {NoCall}]
      /\ \A d \in Clients : answer'[d] = answer[d] \/ OwnAnswer(d, answer'[d])
  BY <1>2, <1>3 DEF RequestInv, RequestTypeOK
<1> QED
  BY <1>1, <1>2, <1>4, <1>5, <1>6, EndStep, RequestConstants

LEMMA CrashStep ==
  ASSUME RequestInv, RequestCrash
  PROVE  RequestInv'
<1>1. \A k \in RunIds :
         /\ run'[k] \in RunRow \cup {NoRun} /\ (run'[k] = NoRun <=> run[k] = NoRun)
         /\ run[k] # NoRun => run'[k].id = run[k].id /\ run'[k].digest = run[k].digest
  <2> TAKE k \in RunIds
  <2>1. run[k] \in RunRow \cup {NoRun}
    BY DEF RequestInv, RequestTypeOK
  <2>2. run'[k] = IF run[k] # NoRun /\ run[k].status = "running"
                  THEN [run[k] EXCEPT !.status = "failed"] ELSE run[k]
    BY DEF RequestCrash
  <2> QED
    BY <2>1, <2>2, EndedRow
<1>2. run' \in [RunIds -> RunRow \cup {NoRun}]
  BY <1>1 DEF RequestCrash
<1>3. /\ call' \in [Clients -> StartCall \cup {NoCall}]
      /\ \A c \in Clients : call'[c] = NoCall
      /\ claim' = claim /\ answer' = answer /\ answer' \in [Clients -> Reply \cup {NoCall}]
  BY DEF RequestCrash, RequestInv, RequestTypeOK
<1> QED
  BY <1>1, <1>2, <1>3, EndStep

-----------------------------------------------------------------------------
LEMMA NextRequest == RequestInv /\ [RequestNext]_requestVars => RequestInv'
<1> SUFFICES ASSUME RequestInv, [RequestNext]_requestVars PROVE RequestInv'
  OBVIOUS
<1>1. ASSUME NEW c \in Clients, ConstructorRaises(c) \/ EnterRun(c) \/ RaisesBeforeRun(c)
      PROVE  RequestInv'
  <2>1. MayStart(c) /\ Owns(c)
    BY <1>1 DEF ConstructorRaises, EnterRun, RaisesBeforeRun, At, MayStart, Owns, Phases
  <2>2. \E phase \in {"releasing", "entered", "uncertain"} : Step(c, phase, NoRun)
    BY <1>1 DEF ConstructorRaises, EnterRun, RaisesBeforeRun, EnteredPhaseOnFailure
  <2>3. UNCHANGED <<claim, run, answer>>
    BY <1>1 DEF ConstructorRaises, EnterRun, RaisesBeforeRun
  <2> QED
    BY <2>1, <2>2, <2>3, PhaseStep DEF Phases
<1>2. ASSUME NEW c \in Clients, ReportUncertain(c) PROVE RequestInv'
  BY <1>2, AnswerStep DEF ReportUncertain, Kinds
<1>3. ASSUME NEW c \in Clients, LinkFails(c) PROVE RequestInv'
  <2>1. OfRequest(call[c].run, c) /\ call[c].run \in RunIds
    BY <1>3 DEF LinkFails, At, RequestInv, OfRequest
  <2>2. Answer(c, "failed", call[c].run) /\ UNCHANGED <<claim, run>>
    BY <1>3 DEF LinkFails
  <2> QED
    BY <2>1, <2>2, AnswerStep DEF Kinds
<1>4. CASE UNCHANGED requestVars
  <2>1. UNCHANGED <<claim, run, call, answer>>
    BY <1>4 DEF requestVars
  <2> QED
    BY <2>1, EndStep DEF RequestInv, RequestTypeOK
<1> QED
  BY <1>1, <1>2, <1>3, <1>4, ClaimStep, ReplayStep, ReleaseStep, StartStep, LinkStep,
     EndRunStep, CrashStep DEF RequestNext

\* The invariant of the claims, for any number of clients, ids and runs.
THEOREM RequestInvariance == RequestSpec => []RequestInv
  BY InitRequest, NextRequest, PTL DEF RequestSpec

\* Every variable keeps its type.
THEOREM RequestTypeCorrect == RequestSpec => []RequestTypeOK
  BY RequestInvariance, PTL DEF RequestInv

\* However a request is retried and whatever raises or dies in between, one run
\* at most is started under its id.
THEOREM OneRun == RequestSpec => []OneRunPerRequest
  BY RequestInvariance, PTL DEF RequestInv

\* A client is told only of a run that its own canonical request started.
THEOREM ToldOwnRun == RequestSpec => []ToldOfOwnRun
  BY RequestInvariance, PTL DEF RequestInv

-----------------------------------------------------------------------------
(* Sign-in.  Every started flow counts in the window whose end it keeps;    *)
(* windows do not overlap, and a flow gives its attempt back when it is     *)
(* over and at most once.                                                   *)

\* The flows that the present window still counts.
CountedFlows ==
    {f \in Flows : flow[f] # NoOne /\ flow[f].window = starts.expires /\ f \notin refunded}

AttemptsInv ==
    /\ IsFiniteSet(CountedFlows) /\ starts.attempts = Cardinality(CountedFlows)
    /\ \A f \in Flows : flow[f] # NoOne => flow[f].window <= starts.expires
    /\ \A f \in refunded : flow[f] # NoOne /\ flow[f].state = "over"

\* A session that was open at a deactivation or a rotation was closed with it.
OutdatedIsClosed == \A s \in outdated : session[s] = "closed"

SignInv == SignTypeOK /\ AttemptsInv /\ OutdatedIsClosed

LEMMA InitSign == SignInit => SignInv
<1> SUFFICES ASSUME SignInit PROVE SignInv
  OBVIOUS
<1>1. SignTypeOK
  BY SignInConstants DEF SignInit, SignTypeOK, Limit, NoLimit
<1>2. CountedFlows = {}
  BY DEF SignInit, CountedFlows
<1>3. AttemptsInv
  BY <1>2, FS_EmptySet DEF SignInit, AttemptsInv, NoLimit
<1> QED
  BY <1>1, <1>3 DEF SignInv, SignInit, OutdatedIsClosed

\* The type of what each step reads.
LEMMA CloseTyped ==
  ASSUME SignTypeOK, NEW ids
  PROVE  /\ Close(ids) \in [SessionIds -> Tokens \cup {"sso", "closed", NoOne}]
         /\ \A s \in SessionIds :
               /\ session[s] = "closed" => Close(ids)[s] = "closed"
               /\ s \in ids /\ session[s] # NoOne => Close(ids)[s] = "closed"
  BY DEF SignTypeOK, Close, OpenSessions

LEMMA LimitTyped ==
  ASSUME SignTypeOK, NEW limit \in Limit
  PROVE  /\ Purged(limit) \in Limit
         /\ Counted(limit) \in Limit
  BY SignInConstants DEF SignTypeOK, Limit, Purged, Counted, NoLimit

LEMMA FlowState ==
  ASSUME SignTypeOK, NEW f \in Flows, flow[f] # NoOne, NEW s \in {"open", "taken", "over"},
         flow' = [flow EXCEPT ![f].state = s]
  PROVE  /\ flow' \in [Flows -> FlowRow \cup {NoOne}]
         /\ flow'[f] # NoOne /\ flow'[f].window = flow[f].window /\ flow'[f].state = s
         /\ \A g \in Flows \ {f} : flow'[g] = flow[g]
<1> DEFINE there == [flow[f] EXCEPT !.state = s]
<1>1. flow \in [Flows -> FlowRow \cup {NoOne}] /\ flow[f] \in FlowRow
  BY DEF SignTypeOK
<1>2. there \in FlowRow /\ there.window = flow[f].window /\ there.state = s
  BY <1>1 DEF FlowRow
<1>3. flow' = [flow EXCEPT ![f] = there]
  OBVIOUS
<1> HIDE DEF there
<1> QED
  BY <1>1, <1>2, <1>3, SignInConstants

-----------------------------------------------------------------------------
\* Steps that leave flows and the limit of started flows alone.
LEMMA NoFlowStep ==
  ASSUME SignInv, UNCHANGED <<flow, starts, refunded>>
  PROVE  AttemptsInv'
  BY DEF SignInv, AttemptsInv, CountedFlows

LEMMA CloseStep ==
  ASSUME SignInv, NEW ids, session' = Close(ids),
         outdated' \subseteq outdated \cup (ids \cap OpenSessions)
  PROVE  /\ session' \in [SessionIds -> Tokens \cup {"sso", "closed", NoOne}]
         /\ outdated' \subseteq SessionIds /\ OutdatedIsClosed'
  BY CloseTyped DEF SignInv, SignTypeOK, OutdatedIsClosed, OpenSessions

LEMMA MembersStep ==
  ASSUME SignInv,
         (\E k \in Tokens : IssueToken(k)) \/ (\E m \in Holders : Deactivate(m) \/ Reactivate(m))
  PROVE  SignInv'
<1>1. UNCHANGED <<flow, starts, refunded, failures, cookie, login, clock>>
  BY DEF IssueToken, Deactivate, Reactivate, loginVars, flowVars
<1>2. AttemptsInv'
  BY <1>1, NoFlowStep
<1>3. ASSUME NEW k \in Tokens, IssueToken(k)
      PROVE  SignTypeOK' /\ OutdatedIsClosed'
  <2>1. token' \in [Tokens -> {"unissued", "live", "revoked"}] /\ active' = active
    BY <1>3 DEF IssueToken, SignInv, SignTypeOK
  <2>2. /\ session' \in [SessionIds -> Tokens \cup {"sso", "closed", NoOne}]
        /\ outdated' \subseteq SessionIds /\ OutdatedIsClosed'
    <3>1. SessionsOf(HolderOf[k]) \subseteq OpenSessions
      BY DEF SessionsOf
    <3> QED
      BY <1>3, <3>1, CloseStep DEF IssueToken, ClosedWith
  <2> QED
    BY <1>1, <2>1, <2>2 DEF SignInv, SignTypeOK
<1>4. ASSUME NEW m \in Holders, Deactivate(m)
      PROVE  SignTypeOK' /\ OutdatedIsClosed'
  <2>1. active' \subseteq Holders /\ token' = token
    BY <1>4 DEF Deactivate, SignInv, SignTypeOK
  <2>2. /\ session' \in [SessionIds -> Tokens \cup {"sso", "closed", NoOne}]
        /\ outdated' \subseteq SessionIds /\ OutdatedIsClosed'
    <3>1. SessionsOf(m) \subseteq OpenSessions
      BY DEF SessionsOf
    <3> QED
      BY <1>4, <3>1, CloseStep DEF Deactivate, ClosedWith
  <2> QED
    BY <1>1, <2>1, <2>2 DEF SignInv, SignTypeOK
<1>5. ASSUME NEW m \in Holders, Reactivate(m)
      PROVE  SignTypeOK' /\ OutdatedIsClosed'
  BY <1>1, <1>5 DEF Reactivate, SignInv, SignTypeOK, OutdatedIsClosed
<1> QED
  BY <1>2, <1>3, <1>4, <1>5 DEF SignInv

LEMMA LoginStep ==
  ASSUME SignInv, NEW b \in Browsers,
         \/ \E k \in Tokens \cup {NoOne} : TestToken(b, k)
         \/ ClosePrevious(b)
         \/ \E s \in SessionIds : OpenSession(b, s)
  PROVE  SignInv'
<1>0. /\ login \in [Browsers -> LoginRow \cup {NoOne}] /\ failures \in Limit
      /\ session \in [SessionIds -> Tokens \cup {"sso", "closed", NoOne}]
      /\ cookie \in [Browsers -> SessionIds \cup {NoOne}]
  BY DEF SignInv, SignTypeOK
<1>1. UNCHANGED <<flow, starts, refunded, clock, token, active, outdated>>
  BY DEF TestToken, ClosePrevious, OpenSession, memberVars, flowVars
<1>2. AttemptsInv'
  BY <1>1, NoFlowStep
<1>3. ASSUME NEW k \in Tokens \cup {NoOne}, TestToken(b, k)
      PROVE  SignTypeOK' /\ OutdatedIsClosed'
  <2>1. failures' \in Limit
    BY <1>0, <1>3, LimitTyped DEF TestToken, SignInv
  <2>2. login' \in [Browsers -> LoginRow \cup {NoOne}]
    BY <1>0, <1>3 DEF TestToken, LoginRow
  <2> QED
    BY <1>1, <1>3, <2>1, <2>2 DEF TestToken, SignInv, SignTypeOK, OutdatedIsClosed
<1>4. CASE ClosePrevious(b)
  <2>1. login' \in [Browsers -> LoginRow \cup {NoOne}]
    <3>1. login[b] \in LoginRow
      BY <1>0, <1>4 DEF ClosePrevious
    <3>2. [login[b] EXCEPT !.phase = "closed"] \in LoginRow
      BY <3>1 DEF LoginRow
    <3> QED
      BY <1>0, <1>4, <3>2 DEF ClosePrevious
  <2>2. /\ session' \in [SessionIds -> Tokens \cup {"sso", "closed", NoOne}]
        /\ OutdatedIsClosed'
    BY <1>1, <1>4, CloseStep DEF ClosePrevious
  <2>3. UNCHANGED <<cookie, failures>>
    BY <1>4 DEF ClosePrevious
  <2> QED
    BY <1>1, <1>2, <2>1, <2>2, <2>3 DEF SignInv, SignTypeOK
<1>5. ASSUME NEW s \in SessionIds, OpenSession(b, s)
      PROVE  SignTypeOK' /\ OutdatedIsClosed'
  <2>1. login[b] \in LoginRow /\ login[b].token \in Tokens
    BY <1>0, <1>5 DEF OpenSession, LoginRow
  <2>2. login' \in [Browsers -> LoginRow \cup {NoOne}]
    BY <1>0, <1>5 DEF OpenSession
  <2>3. /\ session' \in [SessionIds -> Tokens \cup {"sso", "closed", NoOne}]
        /\ cookie' \in [Browsers -> SessionIds \cup {NoOne}]
    BY <1>0, <1>5, <2>1 DEF OpenSession
  <2>4. OutdatedIsClosed'
    BY <1>0, <1>1, <1>5, SignInConstants
    DEF OpenSession, SignInv, SignTypeOK, OutdatedIsClosed
  <2> QED
    BY <1>1, <1>5, <2>2, <2>3, <2>4 DEF OpenSession, SignInv, SignTypeOK
<1> QED
  BY <1>2, <1>3, <1>4, <1>5 DEF SignInv

LEMMA SessionStep ==
  ASSUME SignInv,
         \/ \E b \in Browsers : Logout(b)
         \/ \E s \in SessionIds : SessionExpires(s)
         \/ Tick
  PROVE  SignInv'
<1>1. UNCHANGED <<flow, starts, refunded, token, active, outdated, login, failures>>
  BY DEF Logout, SessionExpires, Tick, memberVars, flowVars, loginVars
<1>2. AttemptsInv'
  BY <1>1, NoFlowStep
<1>3. ASSUME NEW b \in Browsers, Logout(b)
      PROVE  SignTypeOK' /\ OutdatedIsClosed'
  <2>1. /\ session' \in [SessionIds -> Tokens \cup {"sso", "closed", NoOne}]
        /\ OutdatedIsClosed'
    BY <1>1, <1>3, CloseStep DEF Logout
  <2> QED
    BY <1>1, <1>3, <2>1 DEF Logout, SignInv, SignTypeOK
<1>4. ASSUME NEW s \in SessionIds, SessionExpires(s)
      PROVE  SignTypeOK' /\ OutdatedIsClosed'
  <2>1. /\ session' \in [SessionIds -> Tokens \cup {"sso", "closed", NoOne}]
        /\ OutdatedIsClosed'
    BY <1>1, <1>4, CloseStep DEF SessionExpires
  <2> QED
    BY <1>1, <1>4, <2>1 DEF SessionExpires, SignInv, SignTypeOK
<1>5. ASSUME Tick
      PROVE  SignTypeOK' /\ OutdatedIsClosed'
  BY <1>1, <1>5, SignInConstants DEF Tick, SignInv, SignTypeOK, OutdatedIsClosed
<1> QED
  BY <1>2, <1>3, <1>4, <1>5 DEF SignInv

-----------------------------------------------------------------------------
\* A new flow is the only one of a new window, or one more of the present one.
LEMMA StartFlowStep ==
  ASSUME SignInv, NEW b \in Browsers, NEW f \in Flows, StartFlow(b, f)
  PROVE  SignInv'
<1> DEFINE limit == Counted(Purged(starts))
           entry == [state |-> "open", browser |-> b, expires |-> clock + FlowTTL,
                   previous |-> cookie[b], window |-> limit.expires]
<1>0. /\ flow \in [Flows -> FlowRow \cup {NoOne}] /\ starts \in Limit /\ clock \in Nat
      /\ starts.expires \in Nat /\ starts.attempts \in Nat
      /\ Window \in Nat \ {0} /\ FlowTTL \in Nat
      /\ cookie[b] \in SessionIds \cup {NoOne}
  BY SignInConstants DEF SignInv, SignTypeOK, Limit
<1>1. limit \in Limit
  BY <1>0, LimitTyped DEF SignInv
<1>2. entry \in FlowRow /\ entry # NoOne /\ entry.window = limit.expires /\ entry.state = "open"
  BY <1>0, <1>1, SignInConstants DEF FlowRow, Limit
<1>3. /\ flow[f] = NoOne /\ starts' = limit /\ flow' = [flow EXCEPT ![f] = entry]
      /\ UNCHANGED <<memberVars, session, cookie, loginVars, clock, refunded>>
  BY DEF StartFlow
<1>4. IF starts.expires <= clock
      THEN limit.attempts = 1 /\ limit.expires > starts.expires
      ELSE limit.attempts = starts.attempts + 1 /\ limit.expires = starts.expires
  BY <1>0 DEF Counted, Purged, NoLimit, Limit
<1> HIDE DEF limit, entry
<1>5. /\ flow' \in [Flows -> FlowRow \cup {NoOne}] /\ flow'[f] = entry
      /\ \A g \in Flows \ {f} : flow'[g] = flow[g]
  BY <1>0, <1>2, <1>3
<1>6. SignTypeOK' /\ OutdatedIsClosed'
  BY <1>1, <1>3, <1>5 DEF SignInv, SignTypeOK, OutdatedIsClosed, memberVars, loginVars
<1>7. f \notin refunded /\ refunded \subseteq Flows /\ refunded' = refunded
  BY <1>3 DEF SignInv, SignTypeOK, AttemptsInv
<1>8. /\ \A g \in Flows : flow'[g] # NoOne => flow'[g].window <= starts'.expires
      /\ \A g \in refunded' : flow'[g] # NoOne /\ flow'[g].state = "over"
  <2>1. \A g \in Flows \ {f} : flow[g] # NoOne => flow[g].window \in Nat
    BY <1>0 DEF FlowRow
  <2>2. limit.expires \in Nat /\ limit.expires >= starts.expires
    BY <1>0, <1>1, <1>4 DEF Limit
  <2> QED
    BY <1>0, <1>2, <1>3, <1>5, <1>7, <2>1, <2>2 DEF SignInv, AttemptsInv
<1>9. CASE starts.expires <= clock
  <2>1. \A g \in Flows \ {f} : flow[g] # NoOne => flow[g].window # limit.expires
    BY <1>0, <1>1, <1>4, <1>9 DEF SignInv, AttemptsInv, Limit, FlowRow
  <2>2. CountedFlows' = {f}
    BY <1>2, <1>3, <1>5, <1>7, <2>1 DEF CountedFlows
  <2>3. IsFiniteSet({f}) /\ Cardinality({f}) = 1
    BY FS_Singleton
  <2> QED
    BY <1>3, <1>4, <1>6, <1>8, <1>9, <2>2, <2>3 DEF SignInv, AttemptsInv
<1>10. CASE ~(starts.expires <= clock)
  <2> DEFINE C == CountedFlows
  <2>1. CountedFlows' = C \cup {f} /\ f \notin C
    BY <1>2, <1>3, <1>4, <1>5, <1>7, <1>10 DEF CountedFlows
  <2>2. IsFiniteSet(C) /\ Cardinality(C) = starts.attempts
    BY DEF SignInv, AttemptsInv
  <2> HIDE DEF C
  <2>3. IsFiniteSet(C \cup {f}) /\ Cardinality(C \cup {f}) = starts.attempts + 1
    BY <2>1, <2>2, FS_AddElement
  <2> QED
    BY <1>3, <1>4, <1>6, <1>8, <1>10, <2>1, <2>3 DEF SignInv, AttemptsInv
<1> QED
  BY <1>9, <1>10

\* A flow that goes on without giving anything back.
LEMMA GoOnStep ==
  ASSUME SignInv, NEW f \in Flows, flow[f] # NoOne, f \notin refunded,
         NEW s \in {"open", "taken", "over"}, flow' = [flow EXCEPT ![f].state = s],
         UNCHANGED <<starts, refunded>>
  PROVE  /\ flow' \in [Flows -> FlowRow \cup {NoOne}] /\ AttemptsInv'
<1>1. /\ flow' \in [Flows -> FlowRow \cup {NoOne}]
      /\ flow'[f] # NoOne /\ flow'[f].window = flow[f].window
      /\ \A g \in Flows \ {f} : flow'[g] = flow[g]
  BY FlowState DEF SignInv
<1>2. CountedFlows' = CountedFlows
  BY <1>1 DEF CountedFlows
<1>3. refunded \subseteq Flows
  BY DEF SignInv, SignTypeOK
<1> QED
  BY <1>1, <1>2, <1>3 DEF SignInv, AttemptsInv

LEMMA AnswerFlowStep ==
  ASSUME SignInv, NEW f \in Flows, ConsumeFlow(f) \/ ProviderRefuses(f)
  PROVE  SignInv'
<1>1. /\ flow[f] # NoOne /\ flow[f].state \in {"open", "taken"}
      /\ \E s \in {"taken", "over"} : flow' = [flow EXCEPT ![f].state = s]
      /\ UNCHANGED <<memberVars, session, cookie, loginVars, starts, clock, refunded>>
  BY DEF ConsumeFlow, Claimable, ProviderRefuses
<1>2. f \notin refunded
  BY <1>1 DEF SignInv, AttemptsInv
<1>3. flow' \in [Flows -> FlowRow \cup {NoOne}] /\ AttemptsInv'
  BY <1>1, <1>2, GoOnStep
<1> QED
  BY <1>1, <1>3 DEF SignInv, SignTypeOK, OutdatedIsClosed, memberVars, loginVars

\* The callback opens the session and gives the attempt back to its window.
LEMMA OpenFlowStep ==
  ASSUME SignInv, NEW f \in Flows, NEW s \in SessionIds, OpenFlowSession(f, s)
  PROVE  SignInv'
<1>0. /\ flow \in [Flows -> FlowRow \cup {NoOne}] /\ starts \in Limit
      /\ session \in [SessionIds -> Tokens \cup {"sso", "closed", NoOne}]
      /\ cookie \in [Browsers -> SessionIds \cup {NoOne}]
      /\ refunded \subseteq Flows
  BY DEF SignInv, SignTypeOK
<1>1. /\ flow[f] # NoOne /\ flow[f].state = "taken" /\ session[s] = NoOne
      /\ flow' = [flow EXCEPT ![f].state = "over"]
      /\ UNCHANGED <<memberVars, loginVars, clock>>
  BY DEF OpenFlowSession
<1>2. f \notin refunded /\ flow[f] \in FlowRow
  BY <1>0, <1>1 DEF SignInv, AttemptsInv
<1>3. /\ flow' \in [Flows -> FlowRow \cup {NoOne}]
      /\ flow'[f] # NoOne /\ flow'[f].window = flow[f].window /\ flow'[f].state = "over"
      /\ \A g \in Flows \ {f} : flow'[g] = flow[g]
  BY <1>1, FlowState DEF SignInv
<1>4. CASE UNCHANGED <<session, cookie, starts, refunded>>
  <2>1. AttemptsInv'
    BY <1>1, <1>2, <1>4, GoOnStep
  <2> QED
    BY <1>1, <1>3, <1>4, <2>1 DEF SignInv, SignTypeOK, OutdatedIsClosed, memberVars, loginVars
<1>5. CASE /\ session' = [Close({flow[f].previous}) EXCEPT ![s] = "sso"]
           /\ cookie' = [cookie EXCEPT ![flow[f].browser] = s]
           /\ starts' = Refunded(f)
           /\ refunded' = IF Refund(f) THEN refunded \cup {f} ELSE refunded
  <2>1. /\ session' \in [SessionIds -> Tokens \cup {"sso", "closed", NoOne}]
        /\ \A x \in SessionIds : session[x] = "closed" => session'[x] = "closed"
    <3> DEFINE left == Close({flow[f].previous})
    <3>1. /\ left \in [SessionIds -> Tokens \cup {"sso", "closed", NoOne}]
          /\ \A x \in SessionIds : session[x] = "closed" => left[x] = "closed"
      BY CloseTyped DEF SignInv
    <3> HIDE DEF left
    <3>2. session' = [left EXCEPT ![s] = "sso"]
      BY <1>5 DEF left
    <3> QED
      BY <1>1, <3>1, <3>2, SignInConstants
  <2>2. cookie' \in [Browsers -> SessionIds \cup {NoOne}]
    BY <1>0, <1>2, <1>5
  <2>3. starts' \in Limit /\ starts'.expires = starts.expires
        /\ starts'.attempts = IF Refund(f) /\ starts.attempts > 0
                              THEN starts.attempts - 1 ELSE starts.attempts
    BY <1>0, <1>5 DEF Refunded, Limit
  <2>4. refunded' \subseteq Flows
    BY <1>0, <1>5
  <2>5. OutdatedIsClosed'
    BY <1>1, <2>1 DEF SignInv, SignTypeOK, OutdatedIsClosed, memberVars
  <2>6. SignTypeOK'
    BY <1>1, <1>3, <2>1, <2>2, <2>3, <2>4 DEF SignInv, SignTypeOK, memberVars, loginVars
  <2>7. /\ \A g \in Flows : flow'[g] # NoOne => flow'[g].window <= starts'.expires
        /\ \A g \in refunded' : flow'[g] # NoOne /\ flow'[g].state = "over"
    BY <1>0, <1>1, <1>3, <1>5, <2>3, <2>4 DEF SignInv, AttemptsInv
  <2>8. CASE Refund(f)
    <3> DEFINE C == CountedFlows
    <3>1. CountedFlows' = C \ {f} /\ f \in C
      BY <1>0, <1>1, <1>2, <1>3, <1>5, <2>3, <2>8 DEF CountedFlows, Refund
    <3>2. IsFiniteSet(C) /\ Cardinality(C) = starts.attempts
      BY DEF SignInv, AttemptsInv
    <3>3. Cardinality(C) \in Nat /\ Cardinality(C) # 0
      BY <3>1, <3>2, FS_CardinalityType, FS_EmptySet
    <3> HIDE DEF C
    <3>4. IsFiniteSet(C \ {f}) /\ Cardinality(C \ {f}) = starts.attempts - 1
      BY <3>1, <3>2, FS_RemoveElement
    <3>5. starts'.attempts = starts.attempts - 1
      BY <2>3, <2>8, <3>2, <3>3
    <3> QED
      BY <2>5, <2>6, <2>7, <3>1, <3>4, <3>5 DEF SignInv, AttemptsInv
  <2>9. CASE ~Refund(f)
    <3>0. refunded' = refunded /\ starts'.expires = starts.expires
      BY <1>5, <2>3, <2>9
    <3>1. CountedFlows' = CountedFlows
      BY <1>1, <1>3, <3>0 DEF CountedFlows
    <3>2. starts'.attempts = starts.attempts
      BY <2>3, <2>9
    <3>3. AttemptsInv'
      BY <2>7, <3>1, <3>2 DEF SignInv, AttemptsInv
    <3> QED
      BY <2>5, <2>6, <3>3 DEF SignInv
  <2> QED
    BY <2>8, <2>9
<1> QED
  BY <1>4, <1>5 DEF OpenFlowSession

LEMMA NextSign == SignInv /\ [SignNext]_signVars => SignInv'
<1> SUFFICES ASSUME SignInv, [SignNext]_signVars PROVE SignInv'
  OBVIOUS
<1>1. CASE UNCHANGED signVars
  BY <1>1 DEF signVars, SignInv, SignTypeOK, AttemptsInv, CountedFlows, OutdatedIsClosed
<1>2. CASE SignNext
  BY <1>2, MembersStep, LoginStep, SessionStep, StartFlowStep, AnswerFlowStep, OpenFlowStep
  DEF SignNext
<1> QED
  BY <1>1, <1>2

\* The invariant of sign-in, for any members, tokens, flows and limits.
THEOREM SignInvariance == SignSpec => []SignInv
  BY InitSign, NextSign, PTL DEF SignSpec

\* Every variable stays in its type, for any members, tokens, flows and limits.
THEOREM SignTypeCorrect == SignSpec => []SignTypeOK
<1>1. SignInv => SignTypeOK
  BY DEF SignInv
<1> QED
  BY <1>1, SignInvariance, PTL

\* The limit of started flows (consume of the flow, the refund of the callback):
\* its count is exact however late callbacks come and whatever windows ran out.
THEOREM AttemptsExact == SignSpec => []AttemptsAreExact
<1>1. SignInv => AttemptsAreExact
  <2> SUFFICES ASSUME SignInv PROVE AttemptsAreExact
    OBVIOUS
  <2>1. {f \in Flows : flow[f] # NoOne /\ flow[f].window = starts.expires} \ refunded = CountedFlows
    BY DEF CountedFlows
  <2> QED
    BY <2>1 DEF SignInv, AttemptsInv, AttemptsAreExact
<1> QED
  BY <1>1, SignInvariance, PTL

\* Deactivation and rotation: what they closed never speaks for anyone again.
THEOREM OutdatedDead == SignSpec => []OutdatedSessionIsDead
<1>1. SignInv => OutdatedSessionIsDead
  BY DEF SignInv, OutdatedIsClosed, OutdatedSessionIsDead, Resolves, OpenSessions
<1> QED
  BY <1>1, SignInvariance, PTL

-----------------------------------------------------------------------------
(* Human tasks.  The version of a task counts its event rows, and a row is  *)
(* known by its version: a conditional UPDATE that finds the version it     *)
(* read finds the whole row it read, so what was allowed then is legal now. *)

EventRow ==
    [action : Actions \cup {"create"}, by : Staff, to : TaskStatuses,
     value : ((Staff \cup {Unassigned}) \X (Days \cup {NoDay})) \cup Staff \cup Days \cup {NoDay},
     basis : Nat \cup {Legacy}]

\* The row a creation leaves.
Created(e) == [status |-> "open", assignee |-> e.value[1], due |-> e.value[2], version |-> 1]

\* states gives the row after each event of a log.
Replays(log, states) ==
    states = [k \in 1 .. Len(log) |-> IF k = 1 THEN Created(log[1]) ELSE After(states[k - 1], log[k])]

\* The rows of a log's first n events and one more.
Longer(states, n, e) == [k \in 1 .. n + 1 |-> IF k <= n THEN states[k] ELSE After(states[n], e)]

\* The k-th event of a log was legal for the row it changed.
Legal(log, states, k) ==
    /\ log[k].to = NextStage(states[k - 1].status, log[k].action)
    /\ states[k - 1].status \notin Ended
    /\ log[k].action \in {"start", "submit"} => CanWork(log[k].by, states[k - 1])
    /\ log[k].basis \in {k - 1, Legacy}

\* log is the whole story of the row present, and every later event was legal.
Told(log, states, present) ==
    /\ Replays(log, states)
    /\ \A other : Replays(log, other) => other = states
    /\ states[Len(log)] = present
    /\ \A k \in 2 .. Len(log) : Legal(log, states, k)

Tells(log, present) ==
    Len(log) = present.version /\ present.version >= 1 /\ \E states : Told(log, states, present)

LogsTell == \A t \in Tasks : task[t] # NoTask => Tells(events[t], task[t])

\* What a request has read: a row the task had, and an action allowed on it.
MoveIsSound(p) ==
    LET a == move[p]  t == a.task
    IN  /\ t \in Tasks /\ task[t] # NoTask
        /\ a.action \in Actions /\ a.value \in Values(a.action) /\ a.row \in TaskRow
        /\ a.row.version <= task[t].version
        /\ a.row.version = task[t].version => a.row = task[t]
        /\ a.row.version < MaxEvents
        /\ Allowed(p, a.row, a.action, a.value)
        /\ a.basis \in {a.row.version, Legacy}

TasksTyped ==
    /\ task \in [Tasks -> TaskRow \cup {NoTask}]
    /\ events \in [Tasks -> Seq(EventRow)]
    /\ \A t \in Tasks : Len(events[t]) <= MaxEvents + 1
    /\ DOMAIN move = Staff

TaskInv ==
    /\ TasksTyped /\ LogsTell
    /\ \A p \in Staff : move[p] # NoTask => MoveIsSound(p)

LEMMA InitTask == TaskInit => TaskInv
  BY TaskConstants DEF TaskInit, TaskInv, TasksTyped, LogsTell

-----------------------------------------------------------------------------
\* The replay of a log is one function, and an event adds one row to it.
LEMMA FirstReplay ==
  ASSUME NEW e
  PROVE  /\ Replays(<<e>>, [k \in 1 .. 1 |-> Created(e)])
         /\ \A other : Replays(<<e>>, other) => other = [k \in 1 .. 1 |-> Created(e)]
  BY DEF Replays

LEMMA GrownReplay ==
  ASSUME NEW S, NEW log \in Seq(S), Len(log) >= 1, NEW e \in S, NEW states, Replays(log, states),
         \A other : Replays(log, other) => other = states
  PROVE  /\ Replays(Append(log, e), Longer(states, Len(log), e))
         /\ \A other : Replays(Append(log, e), other) => other = Longer(states, Len(log), e)
<1> DEFINE n == Len(log)
           more == Longer(states, n, e)
           log2 == Append(log, e)
<1>0. n \in Nat /\ n >= 1 /\ Len(log2) = n + 1
  OBVIOUS
<1>1. /\ \A k \in 1 .. n : log2[k] = log[k]
      /\ log2[n + 1] = e
  OBVIOUS
<1> HIDE DEF n, log2
<1>2. \A k \in 1 .. n : states[k] = IF k = 1 THEN Created(log[1]) ELSE After(states[k - 1], log[k])
  BY DEF Replays, n
<1>3. /\ DOMAIN more = 1 .. n + 1
      /\ \A k \in 1 .. n : more[k] = states[k]
      /\ more[n + 1] = After(states[n], e)
  BY <1>0 DEF Longer
<1>4. more = [k \in 1 .. n + 1 |-> more[k]]
  BY <1>0 DEF Longer
<1> HIDE DEF more
<1>5. Replays(log2, more)
  <2> DEFINE next == [k \in 1 .. n + 1 |->
                        IF k = 1 THEN Created(log2[1]) ELSE After(more[k - 1], log2[k])]
  <2>1. \A k \in 1 .. n : more[k] = IF k = 1 THEN Created(log2[1]) ELSE After(more[k - 1], log2[k])
    <3> TAKE k \in 1 .. n
    <3>1. CASE k = 1
      BY <1>0, <1>1, <1>2, <1>3, <3>1
    <3>2. CASE k # 1
      <4>1. k - 1 \in 1 .. n
        BY <1>0, <3>2
      <4> QED
        BY <1>1, <1>2, <1>3, <3>2, <4>1
    <3> QED
      BY <3>1, <3>2
  <2>2. more[n + 1] = After(more[n], log2[n + 1]) /\ n + 1 # 1 /\ (n + 1) - 1 = n
    BY <1>0, <1>1, <1>3
  <2>3. \A k \in 1 .. n + 1 : more[k] = next[k]
    <3> TAKE k \in 1 .. n + 1
    <3>1. CASE k \in 1 .. n
      BY <2>1, <3>1
    <3>2. CASE k = n + 1
      BY <2>2, <3>2
    <3> QED
      BY <1>0, <3>1, <3>2
  <2>5. more = next
    BY <1>4, <2>3
  <2> QED
    BY <1>0, <2>5 DEF Replays
<1>6. ASSUME NEW other, Replays(log2, other) PROVE other = more
  <2>1. /\ other = [k \in 1 .. n + 1 |-> other[k]]
        /\ \A k \in 1 .. n + 1 :
              other[k] = IF k = 1 THEN Created(log2[1]) ELSE After(other[k - 1], log2[k])
    BY <1>0, <1>6 DEF Replays
  <2> DEFINE part == [k \in 1 .. n |-> other[k]]
             next == [k \in 1 .. n |-> IF k = 1 THEN Created(log[1]) ELSE After(part[k - 1], log[k])]
  <2>2. \A k \in 1 .. n : part[k] = next[k]
    <3> TAKE k \in 1 .. n
    <3>0. k \in 1 .. n + 1 /\ (k # 1 => k - 1 \in 1 .. n)
      BY <1>0
    <3>1. other[k] = IF k = 1 THEN Created(log[1]) ELSE After(other[k - 1], log[k])
      BY <1>0, <1>1, <2>1, <3>0
    <3> QED
      BY <3>0, <3>1
  <2>3. part = next
    BY <2>2
  <2>4. part = states
    BY <1>0, <2>3 DEF Replays, n
  <2>5. \A k \in 1 .. n : other[k] = states[k]
    BY <2>4
  <2>6. other[n + 1] = After(states[n], e)
    <3>1. n + 1 \in 1 .. n + 1 /\ n + 1 # 1 /\ (n + 1) - 1 = n /\ n \in 1 .. n
      BY <1>0
    <3> QED
      BY <1>1, <2>1, <2>5, <3>1
  <2>7. \A k \in 1 .. n + 1 : other[k] = more[k]
    BY <1>0, <1>3, <2>5, <2>6
  <2> HIDE DEF part, next
  <2> QED
    BY <1>4, <2>1, <2>7
<1> QED
  BY <1>5, <1>6 DEF n, log2, more

\* The recursive function of EventsTellTheTask is that replay.
LEMMA ReplayedIs ==
  ASSUME NEW t \in Tasks, NEW states, Told(events[t], states, task[t])
  PROVE  Replayed(t) = states
  BY DEF Told, Replays, Replayed, Created

-----------------------------------------------------------------------------
LEMMA CreateStep ==
  ASSUME TaskInv, NEW p \in Staff, NEW t \in Tasks, NEW m \in Staff \cup {Unassigned},
         NEW d \in Days \cup {NoDay}, CreateTask(p, t, m, d)
  PROVE  TaskInv'
<1> DEFINE entry == [status |-> "open", assignee |-> m, due |-> d, version |-> 1]
           e == [action |-> "create", by |-> p, to |-> "open", value |-> <<m, d>>, basis |-> 0]
<1>0. task \in [Tasks -> TaskRow \cup {NoTask}] /\ events \in [Tasks -> Seq(EventRow)]
  BY DEF TaskInv, TasksTyped
<1>1. entry \in TaskRow /\ entry # NoTask
  BY TaskConstants DEF TaskRow, TaskStatuses
<1>2. e \in EventRow /\ Created(e) = entry
  BY DEF EventRow, Actions, TaskStatuses, Created
<1>3. /\ task[t] = NoTask /\ task' = [task EXCEPT ![t] = entry]
      /\ events' = [events EXCEPT ![t] = <<e>>] /\ move' = move
  BY DEF CreateTask
<1>4. entry.version = 1
  OBVIOUS
<1> HIDE DEF entry, e
<1>5. /\ task'[t] = entry /\ events'[t] = <<e>> /\ Len(events'[t]) = 1 /\ events'[t] \in Seq(EventRow)
      /\ \A u \in Tasks \ {t} : task'[u] = task[u] /\ events'[u] = events[u]
  BY <1>0, <1>2, <1>3
<1>6. TasksTyped'
  <2>1. task' \in [Tasks -> TaskRow \cup {NoTask}] /\ events' \in [Tasks -> Seq(EventRow)]
    BY <1>0, <1>1, <1>3, <1>5
  <2> QED
    BY <1>3, <1>5, <2>1, TaskConstants DEF TaskInv, TasksTyped
<1>7. \E f : Told(events'[t], f, task'[t])
  <2> DEFINE f == [k \in 1 .. 1 |-> Created(e)]
  <2>1. Replays(<<e>>, f) /\ \A other : Replays(<<e>>, other) => other = f
    BY FirstReplay
  <2>2. f[1] = entry
    BY <1>2
  <2> HIDE DEF f
  <2>3. Told(events'[t], f, task'[t])
    BY <1>5, <2>1, <2>2 DEF Told
  <2> QED
    BY <2>3
<1>8. Tells(events'[t], task'[t])
  <2>1. Len(events'[t]) = task'[t].version /\ task'[t].version >= 1
    BY <1>4, <1>5
  <2> QED
    BY <1>7, <2>1 DEF Tells
<1>9. LogsTell'
  <2> SUFFICES ASSUME NEW u \in Tasks, task'[u] # NoTask
               PROVE  Tells(events'[u], task'[u])
    BY DEF LogsTell
  <2>1. CASE u = t
    BY <1>8, <2>1
  <2>2. CASE u # t
    <3>1. task'[u] = task[u] /\ events'[u] = events[u]
      BY <1>5, <2>2
    <3>2. Tells(events[u], task[u])
      BY <3>1 DEF TaskInv, LogsTell
    <3> QED
      BY <3>1, <3>2
  <2> QED
    BY <2>1, <2>2
<1>10. \A q \in Staff : move'[q] # NoTask => MoveIsSound(q)'
  BY <1>3, <1>5 DEF TaskInv, MoveIsSound
<1> QED
  BY <1>6, <1>9, <1>10 DEF TaskInv

LEMMA ReadStep ==
  ASSUME TaskInv, NEW p \in Staff, NEW t \in Tasks, NEW action \in Actions,
         NEW expected, NEW value \in Values(action), ReadTask(p, t, action, value, expected)
  PROVE  TaskInv'
<1> DEFINE a == [task |-> t, action |-> action, value |-> value, row |-> task[t], basis |-> expected]
<1>1. /\ UNCHANGED <<task, events>> /\ move' = [move EXCEPT ![p] = a] /\ DOMAIN move = Staff
      /\ task[t] # NoTask /\ Len(events[t]) < MaxEvents
      /\ Allowed(p, task[t], action, value) /\ expected \in {task[t].version, Legacy}
  BY DEF ReadTask, TaskInv, TasksTyped
<1>2. a.task = t /\ a.action = action /\ a.value = value /\ a.row = task[t] /\ a.basis = expected
  OBVIOUS
<1> HIDE DEF a
<1>3. move'[p] = a /\ DOMAIN move' = Staff /\ \A q \in Staff \ {p} : move'[q] = move[q]
  BY <1>1
<1>4. TasksTyped' /\ LogsTell'
  BY <1>1, <1>3 DEF TaskInv, TasksTyped, LogsTell, Told
<1>5. MoveIsSound(p)'
  <2>1. task[t] \in TaskRow /\ task[t].version \in Nat /\ Len(events[t]) = task[t].version
    BY <1>1 DEF TaskInv, TasksTyped, TaskRow, LogsTell, Tells
  <2> QED
    BY <1>1, <1>2, <1>3, <2>1 DEF MoveIsSound
<1>6. \A q \in Staff : move'[q] # NoTask => MoveIsSound(q)'
  BY <1>1, <1>3, <1>5 DEF TaskInv, MoveIsSound
<1> QED
  BY <1>4, <1>6 DEF TaskInv

LEMMA RefuseStep ==
  ASSUME TaskInv, NEW p \in Staff, RefuseTask(p)
  PROVE  TaskInv'
<1>1. UNCHANGED <<task, events>> /\ move' = [move EXCEPT ![p] = NoTask] /\ DOMAIN move = Staff
  BY DEF RefuseTask, TaskInv, TasksTyped
<1>2. TasksTyped' /\ LogsTell'
  BY <1>1 DEF TaskInv, TasksTyped, LogsTell, Told
<1>3. \A q \in Staff : move'[q] # NoTask => MoveIsSound(q)'
  BY <1>1 DEF TaskInv, MoveIsSound
<1> QED
  BY <1>2, <1>3 DEF TaskInv

\* The row that was written and the event that tells of it.
LEMMA WriteStep ==
  ASSUME TaskInv, NEW p \in Staff, WriteTask(p)
  PROVE  TaskInv'
<1> DEFINE a == move[p]
           t == move[p].task
           to == NextStage(a.row.status, a.action)
           entry == [status   |-> IF a.action \in {"assign", "due"} THEN task[t].status ELSE to,
                   assignee |-> IF a.action = "assign" THEN a.value ELSE task[t].assignee,
                   due      |-> IF a.action = "due" THEN a.value ELSE task[t].due,
                   version  |-> task[t].version + 1]
           e == [action |-> a.action, by |-> p, to |-> to, value |-> a.value, basis |-> a.basis]
           n == Len(events[t])
<1>0. task \in [Tasks -> TaskRow \cup {NoTask}] /\ events \in [Tasks -> Seq(EventRow)]
  BY DEF TaskInv, TasksTyped
<1>1. a # NoTask /\ MoveIsSound(p)
  BY DEF WriteTask, TaskInv
<1>2. /\ t \in Tasks /\ task[t] # NoTask /\ a.row = task[t] /\ task[t] \in TaskRow
      /\ a.action \in Actions /\ a.value \in Values(a.action)
      /\ task[t].version < MaxEvents
      /\ Allowed(p, task[t], a.action, a.value)
      /\ a.basis \in {task[t].version, Legacy}
  BY <1>0, <1>1 DEF MoveIsSound, WriteTask, Unmoved
<1>3. /\ task' = [task EXCEPT ![t] = entry]
      /\ events' = [events EXCEPT ![t] = Append(@, e)]
      /\ move' = [move EXCEPT ![p] = NoTask]
  BY <1>0, <1>2 DEF WriteTask
<1>4. /\ task[t].version \in Nat /\ task[t].status \in TaskStatuses
      /\ task[t].assignee \in Staff \cup {Unassigned} /\ task[t].due \in Days \cup {NoDay}
  BY <1>2 DEF TaskRow
<1>5. to = NextStage(task[t].status, a.action) /\ to \in TaskStatuses
  BY <1>2, <1>4 DEF NextStage, TaskStatuses, Ended
<1>6. /\ a.action = "assign" => a.value \in Staff
      /\ a.action = "due" => a.value \in Days \cup {NoDay}
      /\ a.value \in Staff \cup Days \cup {NoDay}
  BY <1>2 DEF Values
<1>7. entry \in TaskRow /\ entry.version = task[t].version + 1 /\ entry # NoTask
  <2>1. entry.status \in TaskStatuses
    BY <1>4, <1>5
  <2>2. entry.assignee \in Staff \cup {Unassigned} /\ entry.due \in Days \cup {NoDay}
    BY <1>4, <1>6
  <2>3. entry.version \in Nat
    BY <1>4
  <2>4. entry \in TaskRow
    BY <2>1, <2>2, <2>3 DEF TaskRow
  <2> QED
    BY <2>4, TaskConstants
<1>8. e \in EventRow
  <2>1. a.basis \in Nat \cup {Legacy}
    BY <1>2, <1>4
  <2> QED
    BY <1>2, <1>5, <1>6, <2>1 DEF EventRow
<1>9. After(task[t], e) = entry
  <2>1. a.action \in {"assign", "due"} => to = task[t].status
    BY <1>2, <1>4, <1>5 DEF NextStage
  <2> QED
    BY <2>1 DEF After
<1>10. /\ e.to = NextStage(task[t].status, e.action)
       /\ task[t].status \notin Ended
       /\ e.action \in {"start", "submit"} => CanWork(e.by, task[t])
       /\ e.basis \in {task[t].version, Legacy}
  BY <1>2, <1>5 DEF Allowed, Ended
<1>11. n \in Nat /\ n = task[t].version /\ n >= 1 /\ n < MaxEvents /\ events[t] \in Seq(EventRow)
  BY <1>0, <1>2, <1>4 DEF TaskInv, LogsTell, Tells
<1>12. PICK f : Told(events[t], f, task[t])
  BY <1>2 DEF TaskInv, LogsTell, Tells
<1> HIDE DEF entry, e, to, t, n
<1>13. /\ task'[t] = entry /\ events'[t] = Append(events[t], e)
       /\ \A u \in Tasks \ {t} : task'[u] = task[u] /\ events'[u] = events[u]
  BY <1>0, <1>2, <1>3
<1>14. /\ Len(events'[t]) = n + 1 /\ events'[t] \in Seq(EventRow)
       /\ \A k \in 1 .. n : events'[t][k] = events[t][k]
       /\ events'[t][n + 1] = e
  BY <1>8, <1>11, <1>13 DEF n
<1>15. TasksTyped'
  <2>1. task' \in [Tasks -> TaskRow \cup {NoTask}] /\ events' \in [Tasks -> Seq(EventRow)]
    BY <1>0, <1>2, <1>3, <1>7, <1>14
  <2>2. DOMAIN move' = Staff
    BY <1>3 DEF TaskInv, TasksTyped
  <2>3. \A u \in Tasks : Len(events'[u]) <= MaxEvents + 1
    BY <1>11, <1>13, <1>14, TaskConstants DEF TaskInv, TasksTyped
  <2> QED
    BY <2>1, <2>2, <2>3 DEF TasksTyped
<1>16. \E g : Told(events'[t], g, task'[t])
  <2> DEFINE more == Longer(f, n, e)
  <2>1. /\ Replays(Append(events[t], e), more)
        /\ \A other : Replays(Append(events[t], e), other) => other = more
    <3>1. Replays(events[t], f) /\ \A other : Replays(events[t], other) => other = f
      BY <1>12 DEF Told
    <3>2. Len(events[t]) = n
      BY DEF n
    <3> QED
      BY <1>8, <1>11, <3>1, <3>2, GrownReplay
  <2>2. f[n] = task[t] /\ \A k \in 2 .. n : Legal(events[t], f, k)
    BY <1>12 DEF Told, n
  <2>3. (\A k \in 1 .. n : more[k] = f[k]) /\ more[n + 1] = entry
    BY <1>9, <1>11, <2>2 DEF Longer
  <2> HIDE DEF more
  <2>4. \A k \in 2 .. n + 1 : Legal(events'[t], more, k)
    <3> TAKE k \in 2 .. n + 1
    <3>1. CASE k \in 2 .. n
      <4>1. k - 1 \in 1 .. n /\ k \in 1 .. n
        BY <1>11, <3>1
      <4> QED
        BY <1>14, <2>2, <2>3, <3>1, <4>1 DEF Legal
    <3>2. CASE k = n + 1
      <4>1. k - 1 = n /\ n \in 1 .. n
        BY <1>11, <3>2
      <4>2. more[k - 1] = task[t] /\ events'[t][k] = e
        BY <1>14, <2>2, <2>3, <3>2, <4>1
      <4> QED
        BY <1>10, <1>11, <4>1, <4>2 DEF Legal
    <3> QED
      BY <1>11, <3>1, <3>2
  <2>5. Told(events'[t], more, task'[t])
    <3>1. Replays(events'[t], more) /\ \A other : Replays(events'[t], other) => other = more
      BY <1>13, <2>1
    <3>2. more[Len(events'[t])] = task'[t]
      BY <1>13, <1>14, <2>3
    <3>3. \A k \in 2 .. Len(events'[t]) : Legal(events'[t], more, k)
      BY <1>14, <2>4
    <3> QED
      BY <3>1, <3>2, <3>3 DEF Told
  <2> QED
    BY <2>5
<1>17. Tells(events'[t], task'[t])
  <2>1. Len(events'[t]) = task'[t].version /\ task'[t].version >= 1
    BY <1>7, <1>11, <1>13, <1>14
  <2> QED
    BY <1>16, <2>1 DEF Tells
<1>18. LogsTell'
  <2> SUFFICES ASSUME NEW u \in Tasks, task'[u] # NoTask
               PROVE  Tells(events'[u], task'[u])
    BY DEF LogsTell
  <2>1. CASE u = t
    BY <1>17, <2>1
  <2>2. CASE u # t
    <3>1. task'[u] = task[u] /\ events'[u] = events[u]
      BY <1>13, <2>2
    <3>2. Tells(events[u], task[u])
      BY <3>1 DEF TaskInv, LogsTell
    <3> QED
      BY <3>1, <3>2
  <2> QED
    BY <2>1, <2>2
<1>19. ASSUME NEW q \in Staff, move'[q] # NoTask PROVE MoveIsSound(q)'
  <2>1. q # p /\ move'[q] = move[q] /\ MoveIsSound(q)
    BY <1>3, <1>19 DEF TaskInv, TasksTyped
  <2>2. CASE move[q].task = t
    <3> DEFINE r == move[q].row
    <3>1. r.version <= task[t].version /\ r \in TaskRow
      BY <2>1, <2>2 DEF MoveIsSound
    <3>3. r.version \in Nat
      BY <3>1 DEF TaskRow
    <3> HIDE DEF r
    <3>2. /\ r.version <= task'[t].version
          /\ r.version # task'[t].version /\ task'[t] # NoTask
      BY <1>4, <1>7, <1>13, <3>1, <3>3
    <3> QED
      BY <2>1, <2>2, <3>2 DEF MoveIsSound, r
  <2>3. CASE move[q].task # t
    BY <1>13, <2>1, <2>3 DEF MoveIsSound
  <2> QED
    BY <2>2, <2>3
<1> QED
  BY <1>15, <1>18, <1>19 DEF TaskInv

LEMMA NextTask == TaskInv /\ [TaskNext]_taskVars => TaskInv'
<1> SUFFICES ASSUME TaskInv, [TaskNext]_taskVars PROVE TaskInv'
  OBVIOUS
<1>1. CASE UNCHANGED taskVars
  BY <1>1 DEF taskVars, TaskInv, TasksTyped, LogsTell, MoveIsSound
<1>2. CASE TaskNext
  BY <1>2, CreateStep, ReadStep, WriteStep, RefuseStep DEF TaskNext
<1> QED
  BY <1>1, <1>2

\* The invariant of the human tasks, for any staff, tasks, days and bound.
THEOREM TaskInvariance == TaskSpec => []TaskInv
  BY InitTask, NextTask, PTL DEF TaskSpec

\* Every variable stays in its type, for any staff, tasks, days and bound.
THEOREM TaskTypeCorrect == TaskSpec => []TaskTypeOK
<1>1. TaskInv => TaskTypeOK
  <2> SUFFICES ASSUME TaskInv PROVE TaskTypeOK
    OBVIOUS
  <2>1. \A t \in Tasks : /\ Len(events[t]) \in 0 .. MaxEvents + 1
                         /\ \A k \in DOMAIN events[t] : events[t][k] \in EventRow
    BY DEF TaskInv, TasksTyped
  <2> QED
    BY <2>1 DEF TaskInv, TasksTyped, TaskTypeOK, EventRow, MoveIsSound
<1> QED
  BY <1>1, TaskInvariance, PTL

\* Event rows and conditional updates of human_tasks.py: whatever overlaps, the
\* events replay to the row, and each was legal for the row it changed.
THEOREM EventsTell == TaskSpec => []EventsTellTheTask
<1>1. TaskInv => EventsTellTheTask
  <2> SUFFICES ASSUME TaskInv, NEW t \in Tasks, task[t] # NoTask, NEW states, Told(events[t], states, task[t])
               PROVE  /\ Replayed(t)[Len(events[t])] = task[t]
                      /\ \A k \in 2 .. Len(events[t]) : Legal(events[t], Replayed(t), k)
    BY DEF TaskInv, LogsTell, Tells, EventsTellTheTask, Legal
  <2> QED
    BY ReplayedIs DEF Told
<1> QED
  BY <1>1, TaskInvariance, PTL

-----------------------------------------------------------------------------
(* Page indexes.  A row's vector is of the text its hash names, in a cache  *)
(* and in the hands of a search, and what a search found and kept is of the *)
(* texts it saw and the space it asks in.                                   *)

\* Rows whose vector is of the text they name.
RowsHold(cache) ==
    /\ cache \in [Pages -> CacheRow]
    /\ \A p \in Pages : cache[p] # NoVector => cache[p].vector.of = cache[p].hash

\* What a search has seen and found, until it writes.
SearchHolds(s) ==
    /\ s \in [path : {"pages", "children"}, phase : {"selected", "read", "indexed"},
              space : Spaces, seen : [Pages -> Texts] \cup {<<>>},
              found : [Pages -> CacheRow] \cup {<<>>}]
    /\ s.phase \in {"selected", "read"} => s.seen \in [Pages -> Texts]
    /\ s.phase = "read" =>
          /\ s.found \in [Pages -> CacheRow]
          /\ \A p \in Pages : s.found[p] # NoVector =>
                s.found[p].vector = [of |-> s.seen[p], space |-> s.space]

\* What was compared: vectors of the query's space, and of the parts' own text.
ScoredHolds(s) ==
    /\ s \in [path : {"pages", "children"}, space : Spaces,
              items : SUBSET [text : Texts, vector : Vector]]
    /\ \A item \in s.items : /\ item.vector.space = s.space
                             /\ s.path = "children" => item.vector.of = item.text

IndexInv ==
    /\ text \in [Pages -> Texts]
    /\ RowsHold(pageCache) /\ RowsHold(childIndex)
    /\ search = [u \in Readers |-> search[u]]
    /\ \A u \in Readers : search[u] # NoSearch => SearchHolds(search[u])
    /\ scored # NoSearch => ScoredHolds(scored)

LEMMA InitIndex == IndexInit => IndexInv
  BY DEF IndexInit, IndexInv, RowsHold, CacheRow

\* A reused row is what would be computed anew.
LEMMA ReusedIs ==
  ASSUME NEW cache, RowsHold(cache), NEW p \in Pages, NEW t \in Texts, NEW space,
         Reusable(cache[p], t, space)
  PROVE  cache[p].vector = [of |-> t, space |-> space]
<1>1. cache[p] \in CacheRow /\ cache[p] # NoVector /\ cache[p].hash = t
      /\ cache[p].vector.space = space /\ cache[p].vector.of = cache[p].hash
  BY DEF RowsHold, Reusable
<1>2. cache[p].vector \in Vector
  BY <1>1 DEF CacheRow
<1> QED
  BY <1>1, <1>2 DEF Vector

LEMMA FoundIs ==
  ASSUME NEW cache, RowsHold(cache), NEW texts \in [Pages -> Texts], NEW space
  PROVE  /\ Found(cache, texts, space) \in [Pages -> CacheRow]
         /\ \A p \in Pages : Found(cache, texts, space)[p] # NoVector =>
              Found(cache, texts, space)[p].vector = [of |-> texts[p], space |-> space]
<1>1. \A p \in Pages : Reusable(cache[p], texts[p], space) =>
          cache[p].vector = [of |-> texts[p], space |-> space]
  BY ReusedIs
<1> QED
  BY <1>1 DEF Found, RowsHold, CacheRow

\* A search begins, or moves on, with what it has seen and found.
LEMMA SearchMoves ==
  ASSUME IndexInv, NEW u \in Readers, NEW s, SearchHolds(s),
         search' = [search EXCEPT ![u] = s],
         UNCHANGED <<text, pageCache, childIndex>>, scored' = NoSearch
  PROVE  IndexInv'
<1>1. search = [v \in Readers |-> search[v]]
  BY DEF IndexInv
<1>2. /\ search'[u] = s /\ search' = [v \in Readers |-> search'[v]]
      /\ \A v \in Readers \ {u} : search'[v] = search[v]
  BY <1>1
<1> QED
  BY <1>2 DEF IndexInv

LEMMA ReadPagesStep ==
  ASSUME IndexInv, NEW u \in Readers, NEW space \in Spaces, ReadPages(u, space)
  PROVE  IndexInv'
<1> DEFINE s == [path |-> "pages", phase |-> "selected", space |-> space,
                 seen |-> text, found |-> <<>>]
<1>1. SearchHolds(s)
  BY DEF IndexInv, SearchHolds
<1> QED
  BY <1>1, SearchMoves DEF ReadPages, Begin

LEMMA ReadPageCacheStep ==
  ASSUME IndexInv, NEW u \in Readers, ReadPageCache(u)
  PROVE  IndexInv'
<1> DEFINE found == Found(pageCache, search[u].seen, search[u].space)
           s == [search[u] EXCEPT !.phase = "read", !.found = found]
<1>1. SearchHolds(search[u]) /\ search[u].phase = "selected" /\ RowsHold(pageCache)
  BY DEF ReadPageCache, Searching, IndexInv
<1>2. search[u].seen \in [Pages -> Texts]
  BY <1>1 DEF SearchHolds
<1>3. /\ found \in [Pages -> CacheRow]
      /\ \A p \in Pages : found[p] # NoVector =>
            found[p].vector = [of |-> search[u].seen[p], space |-> search[u].space]
  BY <1>1, <1>2, FoundIs
<1>4. search' = [search EXCEPT ![u] = s]
  BY DEF ReadPageCache, IndexInv
<1> HIDE DEF found
<1>5. SearchHolds(s)
  BY <1>1, <1>2, <1>3 DEF SearchHolds
<1> HIDE DEF s
<1> QED
  BY <1>4, <1>5, SearchMoves DEF ReadPageCache

LEMMA ReadChildIndexStep ==
  ASSUME IndexInv, NEW u \in Readers, NEW space \in Spaces, ReadChildIndex(u, space)
  PROVE  IndexInv'
<1> DEFINE found == Found(childIndex, text, space)
           s == [path |-> "children", phase |-> "read", space |-> space,
                 seen |-> text, found |-> found]
<1>1. text \in [Pages -> Texts] /\ RowsHold(childIndex)
  BY DEF IndexInv
<1>2. /\ found \in [Pages -> CacheRow]
      /\ \A p \in Pages : found[p] # NoVector =>
            found[p].vector = [of |-> text[p], space |-> space]
  BY <1>1, FoundIs
<1>3. /\ search' = [search EXCEPT ![u] = s]
      /\ UNCHANGED <<text, pageCache, childIndex>> /\ scored' = NoSearch
  BY DEF ReadChildIndex, Begin
<1> HIDE DEF found
<1>4. SearchHolds(s)
  BY <1>1, <1>2 DEF SearchHolds
<1> HIDE DEF s
<1> QED
  BY <1>3, <1>4, SearchMoves

\* A page read anew, or found and kept, has a row of the text that was seen.
LEMMA RebuiltIs ==
  ASSUME NEW u \in Readers, SearchHolds(search[u]), search[u].phase = "read", NEW p \in Pages
  PROVE  /\ Fresh(u, p) \in CacheRow /\ Fresh(u, p).vector.of = Fresh(u, p).hash
         /\ Rebuilt(u)[p].vector = [of |-> search[u].seen[p], space |-> search[u].space]
<1>1. search[u].seen[p] \in Texts /\ search[u].space \in Spaces
  BY DEF SearchHolds
<1>2. Fresh(u, p) = [hash |-> search[u].seen[p],
                     vector |-> [of |-> search[u].seen[p], space |-> search[u].space]]
  BY DEF Fresh
<1>3. Rebuilt(u)[p] = IF p \in Stale(u) THEN Fresh(u, p) ELSE search[u].found[p]
  BY DEF Rebuilt
<1>4. p \notin Stale(u) =>
        search[u].found[p].vector = [of |-> search[u].seen[p], space |-> search[u].space]
  BY DEF Stale, SearchHolds
<1>5. Fresh(u, p) \in CacheRow
  BY <1>1, <1>2 DEF CacheRow, Vector
<1> QED
  BY <1>2, <1>3, <1>4, <1>5

\* The rows of a cache stay true when what is missing is written.
LEMMA RowsStayTrue ==
  ASSUME NEW u \in Readers, SearchHolds(search[u]), search[u].phase = "read",
         NEW cache, RowsHold(cache)
  PROVE  RowsHold([p \in Pages |-> IF p \in Stale(u) THEN Fresh(u, p) ELSE cache[p]])
<1>1. \A p \in Pages : Fresh(u, p) \in CacheRow /\ Fresh(u, p).vector.of = Fresh(u, p).hash
  BY RebuiltIs
<1> QED
  BY <1>1 DEF RowsHold

LEMMA ChildrenScored ==
  ASSUME NEW u \in Readers, SearchHolds(search[u]), search[u].phase = "read", ScoreChildren(u)
  PROVE  ScoredHolds(scored')
<1> DEFINE items == {[text |-> search[u].seen[p], vector |-> Rebuilt(u)[p].vector] : p \in Pages}
<1>1. scored' = [path |-> "children", space |-> search[u].space, items |-> items]
  BY DEF ScoreChildren
<1>2. \A p \in Pages : /\ search[u].seen[p] \in Texts /\ search[u].space \in Spaces
                       /\ Rebuilt(u)[p].vector = [of |-> search[u].seen[p], space |-> search[u].space]
  BY RebuiltIs DEF SearchHolds
<1>3. \A item \in items : /\ item \in [text : Texts, vector : Vector]
                          /\ item.vector.space = search[u].space /\ item.vector.of = item.text
  <2> TAKE item \in items
  <2>1. PICK p \in Pages : item = [text |-> search[u].seen[p], vector |-> Rebuilt(u)[p].vector]
    OBVIOUS
  <2>2. item = [text |-> search[u].seen[p],
                vector |-> [of |-> search[u].seen[p], space |-> search[u].space]]
    BY <1>2, <2>1
  <2> QED
    BY <1>2, <2>2 DEF Vector
<1>4. search[u].space \in Spaces
  BY DEF SearchHolds
<1> HIDE DEF items
<1> QED
  BY <1>1, <1>3, <1>4 DEF ScoredHolds

\* A search that ends leaves the others as they were.
LEMMA SearchEnds ==
  ASSUME IndexInv, NEW u \in Readers, search' = [search EXCEPT ![u] = NoSearch]
  PROVE  /\ search' = [v \in Readers |-> search'[v]]
         /\ \A v \in Readers : search'[v] # NoSearch => SearchHolds(search'[v])
  BY DEF IndexInv

LEMMA UpsertPagesStep ==
  ASSUME IndexInv, NEW u \in Readers, UpsertPages(u)
  PROVE  IndexInv'
<1> DEFINE s == [search[u] EXCEPT !.phase = "indexed", !.seen = <<>>, !.found = <<>>]
<1>1. /\ search[u] # NoSearch /\ search[u].phase = "read"
      /\ pageCache' = [p \in Pages |-> IF p \in Stale(u) THEN Fresh(u, p) ELSE pageCache[p]]
      /\ UNCHANGED <<text, childIndex>> /\ scored' = NoSearch
  BY DEF UpsertPages, Searching
<1>2. search = [v \in Readers |-> search[v]] /\ SearchHolds(search[u])
  BY <1>1 DEF IndexInv
<1>3. search' = [search EXCEPT ![u] = s]
  BY <1>2 DEF UpsertPages
<1>4. SearchHolds(s)
  BY <1>2 DEF SearchHolds
<1> HIDE DEF s
<1>5. /\ search'[u] = s /\ search' = [v \in Readers |-> search'[v]]
      /\ \A v \in Readers \ {u} : search'[v] = search[v]
  BY <1>2, <1>3
<1>6. RowsHold(pageCache')
  BY <1>1, <1>2, RowsStayTrue DEF IndexInv
<1> QED
  BY <1>1, <1>4, <1>5, <1>6 DEF IndexInv

LEMMA ScorePagesStep ==
  ASSUME IndexInv, NEW u \in Readers, ScorePages(u)
  PROVE  IndexInv'
<1> DEFINE served == {p \in Pages : Compatible(pageCache[p], search[u].space)}
           items == {[text |-> text[p], vector |-> pageCache[p].vector] : p \in served}
<1>1. /\ search[u] # NoSearch
      /\ scored' = [path |-> "pages", space |-> search[u].space, items |-> items]
      /\ search' = [search EXCEPT ![u] = NoSearch]
      /\ UNCHANGED <<text, pageCache, childIndex>>
  BY DEF ScorePages, Searching
<1>2. search[u].space \in Spaces
  BY <1>1 DEF IndexInv, SearchHolds
<1>3. \A p \in served : /\ text[p] \in Texts /\ pageCache[p].vector \in Vector
                        /\ pageCache[p].vector.space = search[u].space
  BY DEF IndexInv, RowsHold, CacheRow, Compatible
<1>4. \A item \in items : /\ item \in [text : Texts, vector : Vector]
                          /\ item.vector.space = search[u].space
  BY <1>3
<1> HIDE DEF items, served
<1>5. ScoredHolds(scored')
  BY <1>1, <1>2, <1>4 DEF ScoredHolds
<1> QED
  BY <1>1, <1>5, SearchEnds DEF IndexInv

LEMMA ReuseChildrenStep ==
  ASSUME IndexInv, NEW u \in Readers, ReuseChildren(u)
  PROVE  IndexInv'
<1>1. /\ SearchHolds(search[u]) /\ search[u].phase = "read" /\ ScoreChildren(u)
      /\ search' = [search EXCEPT ![u] = NoSearch] /\ UNCHANGED <<text, pageCache, childIndex>>
  BY DEF ReuseChildren, Searching, IndexInv
<1> QED
  BY <1>1, ChildrenScored, SearchEnds DEF IndexInv

LEMMA RebuildChildrenStep ==
  ASSUME IndexInv, NEW u \in Readers, RebuildChildren(u)
  PROVE  IndexInv'
<1>1. /\ SearchHolds(search[u]) /\ search[u].phase = "read"
      /\ search' = [search EXCEPT ![u] = NoSearch] /\ UNCHANGED <<text, pageCache>>
  BY DEF RebuildChildren, Searching, IndexInv
<1>2. CASE SameTexts(u)
  <2>1. /\ childIndex' = [p \in Pages |-> IF p \in Stale(u) THEN Fresh(u, p) ELSE childIndex[p]]
        /\ ScoreChildren(u)
    BY <1>2 DEF RebuildChildren
  <2>2. RowsHold(childIndex')
    BY <1>1, <2>1, RowsStayTrue DEF IndexInv
  <2> QED
    BY <1>1, <2>1, <2>2, ChildrenScored, SearchEnds DEF IndexInv
<1>3. CASE ~ SameTexts(u)
  <2>1. childIndex' = childIndex /\ scored' = NoSearch
    BY <1>3 DEF RebuildChildren
  <2> QED
    BY <1>1, <2>1, SearchEnds DEF IndexInv
<1> QED
  BY <1>2, <1>3

LEMMA NextIndex == IndexInv /\ [IndexNext]_indexVars => IndexInv'
<1> SUFFICES ASSUME IndexInv, [IndexNext]_indexVars PROVE IndexInv'
  OBVIOUS
<1>1. CASE UNCHANGED indexVars
  BY <1>1 DEF indexVars, IndexInv
<1>2. ASSUME NEW p \in Pages, NEW t \in Texts, CorrectText(p, t) PROVE IndexInv'
  BY <1>2 DEF CorrectText, IndexInv
<1>3. ASSUME NEW u \in Readers, EmbeddingFails(u) PROVE IndexInv'
  BY <1>3, SearchEnds DEF EmbeddingFails, IndexInv
<1> QED
  BY <1>1, <1>2, <1>3, ReadPagesStep, ReadPageCacheStep, ReadChildIndexStep, UpsertPagesStep,
     ScorePagesStep, ReuseChildrenStep, RebuildChildrenStep DEF IndexNext

\* The invariant of the page indexes, for any readers, pages, texts and spaces.
THEOREM IndexInvariance == IndexSpec => []IndexInv
  BY InitIndex, NextIndex, PTL DEF IndexSpec

\* Every variable of the page indexes stays in its type.
THEOREM IndexTypeCorrect == IndexSpec => []IndexTypeOK
<1>1. IndexInv => IndexTypeOK
  BY DEF IndexInv, IndexTypeOK, RowsHold, SearchHolds, ScoredHolds
<1> QED
  BY <1>1, IndexInvariance, PTL

\* The caches of rag.py and rag_child_index.py: for any pages, texts and spaces,
\* whatever is corrected or rewritten between reading a cache and scoring, the
\* query meets only vectors of its own space, a part's vector is of the text
\* shown for it, and a row's vector is of the text its hash names.
THEOREM VectorsOfTheQuery == IndexSpec => []VectorsAreOfTheQuery
<1>1. IndexInv => VectorsAreOfTheQuery
  BY DEF IndexInv, VectorsAreOfTheQuery, RowsHold, ScoredHolds
<1> QED
  BY <1>1, IndexInvariance, PTL

-----------------------------------------------------------------------------
(* A framework run.  The outputs grow by one node at a time, a new one that *)
(* was planned and whose needs are done already; and what is reported is    *)
(* fixed with the outputs, after the last node.                             *)

\* The nodes done were planned, each came once and after all it depends on.
InPlannedOrder(log) ==
    /\ \A j, k \in DOMAIN log : j # k => log[j] # log[k]
    /\ \A k \in DOMAIN log : /\ Planned(log[k])
                             /\ Requires(log[k]) \subseteq {log[j] : j \in 1 .. k - 1}

\* What a phase of the bridge rests on.
BridgeKnows ==
    /\ bridge.phase \in {"waiting", "computing", "leaving"} => captured \in CaseStates
    /\ bridge.phase = "computing" => bridge.node \in FrameworkNodes /\ Runnable(bridge.node)
    /\ bridge.phase = "leaving" => (bridge.node = "succeeded" => "finish" \in NodesDone)
    /\ reported = "completed" => /\ bridge.phase = "ended"
                                 /\ "finish" \in NodesDone /\ captured # NoSession

\* A result comes with an outcome.
ResultTells ==
    message # NoRequest /\ message.kind = "result" =>
        message.status \in {"succeeded", "failed", "mismatched"}

FrameworkInv == FrameworkTypeOK /\ InPlannedOrder(outputs) /\ BridgeKnows /\ ResultTells

LEMMA InitFramework == FrameworkInit => FrameworkInv
<1> SUFFICES ASSUME FrameworkInit PROVE FrameworkInv
  OBVIOUS
<1>1. FrameworkTypeOK
  <2>1. "planner" \in FrameworkNodes /\ <<>> \in Seq(FrameworkNodes)
    BY DEF FrameworkNodes
  <2> QED
    BY <2>1 DEF FrameworkInit, FrameworkTypeOK
<1>2. InPlannedOrder(outputs)
  BY DEF FrameworkInit, InPlannedOrder
<1>3. BridgeKnows
  BY DEF FrameworkInit, BridgeKnows
<1> QED
  BY <1>1, <1>2, <1>3 DEF FrameworkInit, FrameworkInv, ResultTells

-----------------------------------------------------------------------------
\* The tests of a node read the plan and the outputs alone.
LEMMA SameTests ==
  ASSUME UNCHANGED <<dag, outputs>>, NEW n
  PROVE  /\ Requires(n)' = Requires(n) /\ (Planned(n)' <=> Planned(n))
         /\ NodesDone' = NodesDone /\ (Runnable(n)' <=> Runnable(n))
<1>1. Requires(n)' = Requires(n)
  BY DEF Requires
<1>2. (Planned(n)' <=> Planned(n)) /\ NodesDone' = NodesDone
  BY DEF Planned, NodesDone
<1> QED
  BY <1>1, <1>2 DEF Runnable

LEMMA SameOrder ==
  ASSUME InPlannedOrder(outputs), UNCHANGED <<dag, outputs>>
  PROVE  InPlannedOrder(outputs)'
<1>1. \A k \in DOMAIN outputs : /\ Requires(outputs[k])' = Requires(outputs[k])
                               /\ Planned(outputs[k])' <=> Planned(outputs[k])
  BY DEF Requires, Planned
<1> QED
  BY <1>1 DEF InPlannedOrder

\* A step of anybody but the host leaves its knowledge alone.
LEMMA BridgeKept ==
  ASSUME FrameworkInv, UNCHANGED <<dag, captured, outputs, bridge, reported>>
  PROVE  InPlannedOrder(outputs)' /\ BridgeKnows'
<1>1. InPlannedOrder(outputs)'
  BY SameOrder DEF FrameworkInv
<1>2. Runnable(bridge.node)' <=> Runnable(bridge.node)
  BY DEF Runnable, Requires, Planned, NodesDone
<1>3. NodesDone' = NodesDone
  BY DEF NodesDone
<1> QED
  BY <1>1, <1>2, <1>3 DEF FrameworkInv, BridgeKnows

LEMMA AbortStep ==
  ASSUME FrameworkInv, NEW told \in {"raised", "rejected", "unknown"}, Abort(told),
         UNCHANGED <<dag, material, mayView, captured, outputs, overdue>>,
         message' \in {message, NoRequest}
  PROVE  FrameworkInv'
<1>1. FrameworkTypeOK'
  BY DEF FrameworkInv, FrameworkTypeOK, Abort, EndFramework
<1>2. InPlannedOrder(outputs)'
  BY SameOrder DEF FrameworkInv
<1>3. bridge'.phase = "ended" /\ reported' # "completed"
  BY DEF FrameworkInv, FrameworkTypeOK, Abort, EndFramework
<1> QED
  BY <1>1, <1>2, <1>3 DEF FrameworkInv, BridgeKnows, ResultTells

LEMMA StartFrameworkStep ==
  ASSUME FrameworkInv, NEW honest \in BOOLEAN, StartFramework(honest)
  PROVE  FrameworkInv'
<1>1. InPlannedOrder(outputs)'
  BY SameOrder DEF StartFramework, FrameworkInv
<1>2. CASE mayView
  <2>1. /\ bridge' = [bridge EXCEPT !.phase = "waiting"] /\ captured' = material
        /\ sidecar' = [state |-> "ready", seq |-> 0, honest |-> honest]
        /\ UNCHANGED <<dag, material, mayView, outputs, message, overdue, reported>>
        /\ bridge.phase = "idle" /\ bridge'.phase = "waiting" /\ captured' \in CaseStates
    BY <1>2 DEF StartFramework, FrameworkInv, FrameworkTypeOK
  <2>2. FrameworkTypeOK'
    BY <2>1 DEF FrameworkInv, FrameworkTypeOK
  <2>3. BridgeKnows'
    BY <2>1 DEF FrameworkInv, BridgeKnows
  <2> QED
    BY <1>1, <2>1, <2>2, <2>3 DEF FrameworkInv, ResultTells
<1>3. CASE ~ mayView
  <2>1. /\ bridge' = [bridge EXCEPT !.phase = "ended"] /\ reported' = "raised"
        /\ UNCHANGED <<dag, material, mayView, captured, outputs, sidecar, message, overdue>>
        /\ bridge'.phase = "ended"
    BY <1>3 DEF StartFramework, EndFramework, FrameworkInv, FrameworkTypeOK
  <2>2. FrameworkTypeOK'
    BY <2>1 DEF FrameworkInv, FrameworkTypeOK
  <2>3. BridgeKnows'
    BY <2>1 DEF BridgeKnows
  <2> QED
    BY <1>1, <2>1, <2>2, <2>3 DEF FrameworkInv, ResultTells
<1> QED
  BY <1>2, <1>3

LEMMA CannotStartStep ==
  ASSUME FrameworkInv, NEW told \in {"rejected", "unknown"}, CannotStart(told)
  PROVE  FrameworkInv'
<1>1. /\ bridge' = [bridge EXCEPT !.phase = "ended"] /\ reported' = told
      /\ UNCHANGED <<dag, material, mayView, captured, outputs, sidecar, message, overdue>>
      /\ bridge'.phase = "ended" /\ reported' # "completed"
  BY DEF CannotStart, EndFramework, FrameworkInv, FrameworkTypeOK
<1>2. FrameworkTypeOK'
  BY <1>1 DEF FrameworkInv, FrameworkTypeOK
<1>3. InPlannedOrder(outputs)'
  BY <1>1, SameOrder DEF FrameworkInv
<1> QED
  BY <1>1, <1>2, <1>3 DEF FrameworkInv, BridgeKnows, ResultTells

LEMMA AcceptNodeStep ==
  ASSUME FrameworkInv, AcceptNode
  PROVE  FrameworkInv'
<1>1. /\ bridge' = [phase |-> "computing", node |-> message.node, seq |-> message.seq]
      /\ bridge.phase = "waiting" /\ message \in [kind : {"node", "result", "noise"},
             node : FrameworkNodes, seq : Nat,
             status : {"none", "succeeded", "failed", "mismatched"}]
      /\ Runnable(message.node) /\ message' = NoRequest
      /\ UNCHANGED <<dag, material, mayView, captured, outputs, sidecar, overdue, reported>>
  BY DEF AcceptNode, FrameworkInv, FrameworkTypeOK
<1>2. FrameworkTypeOK'
  BY <1>1 DEF FrameworkInv, FrameworkTypeOK
<1>3. InPlannedOrder(outputs)'
  BY <1>1, SameOrder DEF FrameworkInv
<1>4. Runnable(bridge.node)'
  <2> DEFINE n == message.node
  <2>1. bridge'.node = n /\ Runnable(n)
    BY <1>1
  <2>2. UNCHANGED <<dag, outputs>>
    BY <1>1
  <2> HIDE DEF n
  <2> QED
    BY <2>1, <2>2 DEF Runnable, NodesDone, Planned, Requires
<1>5. bridge'.phase = "computing" /\ bridge'.node \in FrameworkNodes
  BY <1>1
<1>6. captured' \in CaseStates /\ reported' # "completed"
  BY <1>1 DEF FrameworkInv, BridgeKnows
<1>7. BridgeKnows'
  BY <1>4, <1>5, <1>6 DEF BridgeKnows
<1> QED
  BY <1>1, <1>2, <1>3, <1>7 DEF FrameworkInv, ResultTells

LEMMA FinishNodeStep ==
  ASSUME FrameworkInv, FinishNode
  PROVE  FrameworkInv'
<1>0. FrameworkTypeOK /\ InPlannedOrder(outputs) /\ BridgeKnows /\ bridge.phase = "computing"
      /\ ResultTells
  BY DEF FrameworkInv, FinishNode
<1>1. CASE ~ StillCurrent
  <2>1. Abort("raised") /\ UNCHANGED <<dag, material, mayView, captured, outputs, message, overdue>>
    BY <1>1 DEF FinishNode
  <2> QED
    BY <2>1, AbortStep
<1>2. CASE StillCurrent
  <2> DEFINE n == bridge.node
             log == Append(outputs, n)
             len == Len(outputs)
  <2>1. /\ outputs' = log /\ UNCHANGED <<dag, material, mayView, captured, message, overdue>>
        /\ \/ Abort("unknown")
           \/ /\ bridge' = [bridge EXCEPT !.phase = "waiting"] /\ UNCHANGED reported
              /\ sidecar' \in {[sidecar EXCEPT !.state = "ready"], sidecar}
    BY <1>2 DEF FinishNode
  <2>2. /\ n \in FrameworkNodes /\ n \notin NodesDone /\ Requires(n) \subseteq NodesDone /\ Planned(n)
    BY <1>0 DEF BridgeKnows, Runnable
  <2>3. outputs \in Seq(FrameworkNodes) /\ len \in Nat /\ DOMAIN outputs = 1 .. len
    BY <1>0 DEF FrameworkTypeOK
  <2>4. NodesDone = {outputs[k] : k \in 1 .. len}
    BY <2>3 DEF NodesDone, ToSet
  <2>5. /\ log \in Seq(FrameworkNodes) /\ DOMAIN log = 1 .. len + 1 /\ log[len + 1] = n
        /\ \A k \in 1 .. len : log[k] = outputs[k]
    BY <2>2, <2>3
  <2> HIDE DEF n, log, len
  <2>6. \A k \in 1 .. len + 1 : /\ Planned(log[k])
                                /\ Requires(log[k]) \subseteq {log[j] : j \in 1 .. k - 1}
    <3> SUFFICES ASSUME NEW k \in 1 .. len + 1
                 PROVE  Planned(log[k]) /\ Requires(log[k]) \subseteq {log[j] : j \in 1 .. k - 1}
      OBVIOUS
    <3>1. CASE k \in 1 .. len
      <4>1. {log[j] : j \in 1 .. k - 1} = {outputs[j] : j \in 1 .. k - 1}
        BY <2>3, <2>5, <3>1
      <4>2. /\ Planned(outputs[k])
            /\ Requires(outputs[k]) \subseteq {outputs[j] : j \in 1 .. k - 1}
        BY <1>0, <2>3, <3>1 DEF InPlannedOrder
      <4>3. log[k] = outputs[k]
        BY <2>5, <3>1
      <4> QED
        BY <4>1, <4>2, <4>3
    <3>2. CASE k = len + 1
      <4>1. {log[j] : j \in 1 .. k - 1} = {outputs[j] : j \in 1 .. len}
        BY <2>3, <2>5, <3>2
      <4>2. log[k] = n
        BY <2>5, <3>2
      <4> QED
        BY <2>2, <2>4, <4>1, <4>2
    <3> QED
      BY <2>3, <3>1, <3>2
  <2>7. \A j, k \in 1 .. len + 1 : j # k => log[j] # log[k]
    <3>1. \A j, k \in 1 .. len : j # k => outputs[j] # outputs[k]
      BY <1>0, <2>3 DEF InPlannedOrder
    <3>2. \A j \in 1 .. len : outputs[j] # n
      BY <2>2, <2>4
    <3> QED
      BY <2>3, <2>5, <3>1, <3>2
  <2>8. \A m : Planned(m)' = Planned(m) /\ Requires(m)' = Requires(m)
    BY <2>1 DEF Planned, Requires
  <2>9. InPlannedOrder(outputs)'
    <3>1. InPlannedOrder(log)
      BY <2>5, <2>6, <2>7 DEF InPlannedOrder
    <3>2. outputs' = log /\ dag' = dag
      BY <2>1
    <3> QED
      BY <3>1, <3>2 DEF InPlannedOrder, Planned, Requires
  <2>10. FrameworkTypeOK'
    BY <1>0, <2>1, <2>5 DEF FrameworkTypeOK, Abort, EndFramework
  <2>11. BridgeKnows'
    <3>1. bridge'.phase \in {"waiting", "ended"} /\ reported' # "completed"
      BY <1>0, <2>1 DEF FrameworkTypeOK, BridgeKnows, Abort, EndFramework
    <3> QED
      BY <1>0, <2>1, <3>1 DEF BridgeKnows
  <2> QED
    BY <1>0, <2>1, <2>9, <2>10, <2>11 DEF FrameworkInv, ResultTells
<1> QED
  BY <1>1, <1>2

LEMMA AcceptResultStep ==
  ASSUME FrameworkInv, AcceptResult
  PROVE  FrameworkInv'
<1> DEFINE taken == message.status # "mismatched" /\ StillCurrent /\ Believable(message.status)
<1>1. CASE taken
  <2>1. /\ bridge' = [bridge EXCEPT !.phase = "leaving", !.node = message.status]
        /\ message' = NoRequest /\ bridge.phase = "waiting"
        /\ message.status \in {"succeeded", "failed"}
        /\ message.status = "succeeded" => "finish" \in NodesDone
        /\ UNCHANGED <<dag, material, mayView, captured, outputs, sidecar, overdue, reported>>
    BY <1>1 DEF AcceptResult, Believable, FrameworkInv, ResultTells
  <2>2. bridge'.phase = "leaving" /\ bridge'.node = message.status /\ FrameworkTypeOK'
    BY <2>1 DEF FrameworkInv, FrameworkTypeOK
  <2>3. InPlannedOrder(outputs)'
    BY <2>1, SameOrder DEF FrameworkInv
  <2>4. NodesDone' = NodesDone /\ captured' \in CaseStates /\ reported' # "completed"
    BY <2>1 DEF NodesDone, FrameworkInv, BridgeKnows
  <2>5. BridgeKnows'
    BY <2>1, <2>2, <2>4 DEF BridgeKnows
  <2> QED
    BY <2>1, <2>2, <2>3, <2>5 DEF FrameworkInv, ResultTells
<1>2. CASE ~ taken
  <2>1. \E told \in {"raised", "unknown"} : Abort(told)
    BY <1>2 DEF AcceptResult
  <2> QED
    BY <2>1, AbortStep DEF AcceptResult
<1> QED
  BY <1>1, <1>2

LEMMA WaitForExitStep ==
  ASSUME FrameworkInv, WaitForExit
  PROVE  FrameworkInv'
<1>1. /\ bridge.phase = "leaving" /\ bridge' = [bridge EXCEPT !.phase = "ended"]
      /\ reported' \in {"raised", "completed", "failed"}
      /\ reported' = "completed" => bridge.node = "succeeded"
      /\ UNCHANGED <<dag, material, mayView, captured, outputs, sidecar, message, overdue>>
  BY DEF WaitForExit, EndFramework
<1>2. FrameworkTypeOK' /\ bridge'.phase = "ended"
  BY <1>1 DEF FrameworkInv, FrameworkTypeOK
<1>3. InPlannedOrder(outputs)'
  BY <1>1, SameOrder DEF FrameworkInv
<1>4. NodesDone' = NodesDone
  BY <1>1 DEF NodesDone
<1>5. captured # NoSession
  BY <1>1, FrameworkConstants DEF FrameworkInv, BridgeKnows
<1>6. BridgeKnows'
  BY <1>1, <1>2, <1>4, <1>5 DEF FrameworkInv, BridgeKnows
<1> QED
  BY <1>1, <1>2, <1>3, <1>6 DEF FrameworkInv, ResultTells

LEMMA GiveUpStep ==
  ASSUME FrameworkInv, GiveUp
  PROVE  FrameworkInv'
<1>1. \E told \in {"raised", "unknown"} : Abort(told)
  BY DEF GiveUp
<1> QED
  BY <1>1, AbortStep DEF GiveUp

\* What the process does touches its own state and the line it writes.
LEMMA ProcessStep ==
  ASSUME FrameworkInv,
         UNCHANGED <<dag, material, mayView, captured, outputs, bridge, overdue, reported>>,
         sidecar' \in [state : {"none", "ready", "asked", "done", "dead"}, seq : Nat, honest : BOOLEAN],
         \/ message' = message
         \/ /\ message' \in [kind : {"node", "result", "noise"}, node : FrameworkNodes, seq : Nat,
                             status : {"none", "succeeded", "failed", "mismatched"}]
            /\ message'.kind = "result" => message'.status # "none"
  PROVE  FrameworkInv'
<1>1. FrameworkTypeOK'
  BY DEF FrameworkInv, FrameworkTypeOK
<1>2. ResultTells'
  BY DEF FrameworkInv, ResultTells
<1> QED
  BY <1>1, <1>2, BridgeKept DEF FrameworkInv

LEMMA NextFramework == FrameworkInv /\ [FrameworkNext]_frameworkVars => FrameworkInv'
<1> SUFFICES ASSUME FrameworkInv, [FrameworkNext]_frameworkVars PROVE FrameworkInv'
  OBVIOUS
<1>0. sidecar \in [state : {"none", "ready", "asked", "done", "dead"}, seq : Nat, honest : BOOLEAN]
  BY DEF FrameworkInv, FrameworkTypeOK
<1>1. "finish" \in FrameworkNodes
  BY DEF FrameworkNodes
<1>2. CASE UNCHANGED frameworkVars
  BY <1>0, <1>2, ProcessStep DEF frameworkVars
<1>3. ASSUME \/ \E c \in CaseStates : ChangeCase(c)
             \/ ChangeRight \/ DeadlinePasses
      PROVE  FrameworkInv'
  <2>1. /\ UNCHANGED <<dag, captured, outputs, bridge, sidecar, message, reported>>
        /\ material' \in CaseStates /\ mayView' \in BOOLEAN /\ overdue' \in BOOLEAN
    BY <1>3 DEF ChangeCase, ChangeRight, DeadlinePasses, FrameworkInv, FrameworkTypeOK
  <2>2. FrameworkTypeOK' /\ ResultTells'
    BY <2>1 DEF FrameworkInv, FrameworkTypeOK, ResultTells
  <2> QED
    BY <2>1, <2>2, BridgeKept DEF FrameworkInv
<1>4. ASSUME \E told \in {"rejected", "raised"} : NodeRaises(told) PROVE FrameworkInv'
  BY <1>4, AbortStep DEF NodeRaises
<1>5. ASSUME RefuseNode \/ RefuseNoise PROVE FrameworkInv'
  <2>1. \E told \in {"raised", "rejected", "unknown"} : Abort(told)
    BY <1>5 DEF RefuseNode, RefuseNoise
  <2> QED
    BY <1>5, <2>1, AbortStep DEF RefuseNode, RefuseNoise
<1>6. ASSUME NEW n \in FrameworkNodes, AskNode(n) PROVE FrameworkInv'
  <2> DEFINE line == [kind |-> "node", node |-> n, seq |-> sidecar.seq + 1, status |-> "none"]
  <2>1. /\ message' = line /\ sidecar' = [sidecar EXCEPT !.seq = line.seq, !.state = "asked"]
        /\ UNCHANGED <<dag, material, mayView, captured, outputs, bridge, overdue, reported>>
    BY <1>6 DEF AskNode, SendMessage
  <2>2. /\ line \in [kind : {"node", "result", "noise"}, node : FrameworkNodes, seq : Nat,
                        status : {"none", "succeeded", "failed", "mismatched"}]
        /\ line.kind = "node" /\ line.seq \in Nat
    BY <1>0, <1>6
  <2> HIDE DEF line
  <2> QED
    BY <1>0, <2>1, <2>2, ProcessStep
<1>7. ASSUME NEW status \in {"succeeded", "failed"}, SendResult(status) PROVE FrameworkInv'
  BY <1>0, <1>1, <1>7, ProcessStep DEF SendResult
<1>8. ASSUME NEW kind \in {"node", "result", "noise"}, NEW n \in FrameworkNodes, NEW seq \in Nat,
             NEW status \in {"none", "succeeded", "failed", "mismatched"},
             kind = "result" => status # "none", SendAnything(kind, n, seq, status)
      PROVE  FrameworkInv'
  BY <1>0, <1>8, ProcessStep DEF SendAnything
<1>9. ASSUME WorkerDies PROVE FrameworkInv'
  BY <1>0, <1>9, ProcessStep DEF WorkerDies
<1>10. CASE FrameworkNext
  <2>1. \A seq \in 0 .. Cardinality(FrameworkNodes) + 1 : seq \in Nat
    OBVIOUS
  <2> QED
    BY <1>3, <1>4, <1>5, <1>6, <1>7, <1>8, <1>9, <1>10, <1>1, <2>1, StartFrameworkStep,
       CannotStartStep, AcceptNodeStep, FinishNodeStep, AcceptResultStep, WaitForExitStep,
       GiveUpStep DEF FrameworkNext
<1> QED
  BY <1>2, <1>10

\* The invariant of a framework run, for any specialists, plans and case states.
THEOREM FrameworkInvariance == FrameworkSpec => []FrameworkInv
  BY InitFramework, NextFramework, PTL DEF FrameworkSpec

\* Every variable of a framework run stays in its type.
THEOREM FrameworkTypeCorrect == FrameworkSpec => []FrameworkTypeOK
<1>1. FrameworkInv => FrameworkTypeOK
  BY DEF FrameworkInv
<1> QED
  BY <1>1, FrameworkInvariance, PTL

\* ReadonlyCaseSession and run_framework: for any specialists, dependencies and
\* plans, and any process at the other end, a run reported as completed did the
\* whole plan, each node once and after all it depends on.
THEOREM CompletedWhole == FrameworkSpec => []CompletedIsWhole
<1>1. FrameworkInv => CompletedIsWhole
  <2> SUFFICES ASSUME FrameworkInv, reported = "completed" PROVE CompletedIsWhole
    BY DEF CompletedIsWhole
  <2>1. /\ captured # NoSession /\ "finish" \in NodesDone /\ InPlannedOrder(outputs)
        /\ outputs \in Seq(FrameworkNodes) /\ DOMAIN outputs = 1 .. Len(outputs) /\ dag \in Plans
    BY DEF FrameworkInv, FrameworkTypeOK, BridgeKnows
  <2>2. NodesDone = {outputs[k] : k \in DOMAIN outputs} /\ NodesDone \subseteq FrameworkNodes
    BY <2>1 DEF NodesDone, ToSet
  <2>3. \A n \in NodesDone : Planned(n) /\ Requires(n) \subseteq NodesDone
    <3> SUFFICES ASSUME NEW k \in DOMAIN outputs
                 PROVE  Planned(outputs[k]) /\ Requires(outputs[k]) \subseteq NodesDone
      BY <2>2
    <3>1. {outputs[j] : j \in 1 .. k - 1} \subseteq NodesDone
      BY <2>1, <2>2
    <3> QED
      BY <2>1, <3>1 DEF InPlannedOrder
  <2>4. {"planner", "retrieve", "critic"} \subseteq NodesDone
    BY <2>1, <2>3 DEF Requires
  <2>5. dag \cup {"memory_recall"} \subseteq NodesDone
    BY <2>3, <2>4 DEF Requires
  <2>6. NodesDone = (FrameworkNodes \ Specialists) \cup dag
    <3>1. FrameworkNodes \ Specialists = {"planner", "memory_recall", "retrieve", "critic", "finish"}
      BY FrameworkConstants DEF FrameworkNodes
    <3>2. \A n \in NodesDone : n \in FrameworkNodes /\ (n \in Specialists => n \in dag)
      BY <2>2, <2>3 DEF Planned
    <3> QED
      BY <2>1, <2>4, <2>5, <3>1, <3>2
  <2> QED
    BY <2>1, <2>6 DEF CompletedIsWhole, InPlannedOrder
<1> QED
  BY <1>1, FrameworkInvariance, PTL

-----------------------------------------------------------------------------
(* A model's answer.  At each stage it is known what the last call brought  *)
(* and, on the critic's path, which calls have their rows: all of them, or  *)
(* all but the last, whose row the next step writes from the observation.   *)

Call == [by : {"loop", "single"}, model : {"primary", "fallback"},
         text : {"valid", "invalid", "empty", "tools", "failed"}]

CallRow == [kind : {"tool_loop", "chat", "critic", "chat_fallback", "critic_fallback"},
        about : Nat, status : {"ok", "failed"}]

AnswerTyped ==
    /\ question \in Questions
    /\ stage \in {"start", "looping", "asking", "checking", "failing", "retrying", "done"}
    /\ calls \in Seq(Call) /\ rows \in Seq(CallRow) /\ observed \in Nat
    /\ answered \in [by : {"none", "raised", "rules", "model"}, call : Nat,
                     model : {"none", "primary", "fallback"}]

\* What the stage says of the last call.
LastCallIs ==
    /\ stage = "checking" => LastCall > 0 /\ calls[LastCall].text \in {"valid", "invalid"}
    /\ stage = "retrying" => LastCall > 0 /\ calls[LastCall].text = "invalid"
    /\ stage # "done" => /\ answered.by = "none"
                         /\ \A i \in DOMAIN calls : calls[i].model = "primary"

\* The last call's row is still to be written, from what was observed of it.
Owed ==
    \/ stage = "checking" /\ calls[LastCall].by = "single" /\ observed = LastCall
    \/ stage = "failing" /\ calls[LastCall].text = "failed" /\ observed = 0

RowsFollow ==
    question.path = "critic" =>
        \A i \in DOMAIN calls : Accounted(i) \/ (i = LastCall /\ Owed)

AnswerInv == AnswerTyped /\ LastCallIs /\ ModelAnswerMeetsContract /\ RowsFollow

LEMMA InitAnswer == AnswerInit => AnswerInv
  BY DEF AnswerInit, AnswerInv, AnswerTyped, LastCallIs, ModelAnswerMeetsContract, RowsFollow,
     NoAnswer, Questions, Earlier, LastCall

-----------------------------------------------------------------------------
\* The lists only grow.
LEMMA Grows ==
  ASSUME NEW S, NEW s \in Seq(S), NEW e \in S
  PROVE  /\ Append(s, e) \in Seq(S) /\ Len(Append(s, e)) = Len(s) + 1 /\ Len(s) \in Nat
         /\ Append(s, e)[Len(s) + 1] = e /\ \A i \in DOMAIN s : Append(s, e)[i] = s[i]
         /\ DOMAIN s = 1 .. Len(s) /\ DOMAIN Append(s, e) = 1 .. Len(s) + 1
  OBVIOUS

LEMMA Joins ==
  ASSUME NEW S, NEW s \in Seq(S), NEW t \in Seq(S)
  PROVE  s \o t \in Seq(S)
  OBVIOUS

\* A row, once written, serves its call for good.
LEMMA StaysAccounted ==
  ASSUME AnswerTyped, NEW i \in DOMAIN calls, Accounted(i),
         \/ calls' = calls
         \/ \E c \in Call : calls' = Append(calls, c),
         \/ rows' = rows
         \/ \E r \in CallRow : rows' = Append(rows, r)
  PROVE  Accounted(i)'
<1>1. PICK j \in DOMAIN rows : \/ rows[j].about = i
                               \/ /\ calls[i].text = "failed"
                                  /\ rows[j].status = "failed" /\ rows[j].about = 0
  BY DEF Accounted
<1>2. calls \in Seq(Call) /\ rows \in Seq(CallRow)
  BY DEF AnswerTyped
<1>3. calls'[i] = calls[i]
  BY <1>2, Grows
<1>4. j \in DOMAIN rows' /\ rows'[j] = rows[j]
  BY <1>2, Grows
<1> QED
  BY <1>1, <1>3, <1>4 DEF Accounted

\* A row that is written now for call i.
LEMMA AccountedNow ==
  ASSUME AnswerTyped, NEW r \in CallRow, rows' = Append(rows, r), NEW i \in Nat,
         \/ r.about = i
         \/ calls'[i].text = "failed" /\ r.status = "failed" /\ r.about = 0
  PROVE  Accounted(i)'
<1>1. rows \in Seq(CallRow)
  BY DEF AnswerTyped
<1>2. Len(rows) + 1 \in DOMAIN rows' /\ rows'[Len(rows) + 1] = r
  BY <1>1, Grows
<1> QED
  BY <1>2 DEF Accounted

\* No call is made and the answer stays open.
LEMMA StageMoves ==
  ASSUME AnswerInv, UNCHANGED <<question, calls, rows, observed, answered>>,
         stage \in {"start", "looping"}, stage' \in {"looping", "asking"}
  PROVE  AnswerInv'
<1>1. AnswerTyped' /\ LastCallIs' /\ ModelAnswerMeetsContract'
  BY DEF AnswerInv, AnswerTyped, LastCallIs, ModelAnswerMeetsContract, LastCall
<1>2. RowsFollow'
  BY DEF AnswerInv, RowsFollow, Owed, Accounted
<1> QED
  BY <1>1, <1>2 DEF AnswerInv

\* The primary is asked once more, in the loop or alone.
LEMMA PrimaryAsked ==
  ASSUME AnswerInv, stage \in {"looping", "asking"}, NEW c \in Call, c.model = "primary",
         calls' = Append(calls, c), UNCHANGED <<question, answered>>,
         stage' \in {"looping", "checking", "failing"}, observed' \in Nat,
         stage' = "checking" => c.text \in {"valid", "invalid"},
         \/ rows' = rows
         \/ \E r \in CallRow : rows' = Append(rows, r)
  PROVE  /\ AnswerTyped' /\ LastCallIs' /\ ModelAnswerMeetsContract'
         /\ LastCall' = LastCall + 1 /\ calls'[LastCall + 1] = c /\ LastCall \in Nat
         /\ question.path = "critic" => \A i \in 1 .. LastCall : Accounted(i)'
<1>0. /\ calls \in Seq(Call) /\ rows \in Seq(CallRow) /\ AnswerTyped /\ answered.by = "none"
      /\ \A i \in DOMAIN calls : calls[i].model = "primary"
  BY DEF AnswerInv, AnswerTyped, LastCallIs
<1>1. /\ calls' \in Seq(Call) /\ LastCall' = LastCall + 1 /\ LastCall \in Nat
      /\ calls'[LastCall + 1] = c /\ \A i \in 1 .. LastCall : calls'[i] = calls[i]
      /\ DOMAIN calls = 1 .. LastCall /\ DOMAIN calls' = 1 .. LastCall + 1
  BY <1>0, Grows DEF LastCall
<1>2. rows' \in Seq(CallRow)
  <2>1. \A r \in CallRow : Append(rows, r) \in Seq(CallRow)
    BY <1>0, Grows
  <2> QED
    BY <1>0, <2>1
<1>3. AnswerTyped'
  BY <1>0, <1>1, <1>2 DEF AnswerTyped
<1>4. \A i \in DOMAIN calls' : calls'[i].model = "primary"
  <2> TAKE i \in DOMAIN calls'
  <2>1. CASE i \in 1 .. LastCall
    BY <1>0, <1>1, <2>1
  <2>2. CASE i = LastCall + 1
    BY <1>1, <2>2
  <2> QED
    BY <1>1, <2>1, <2>2
<1>5. LastCallIs'
  BY <1>0, <1>1, <1>4 DEF LastCallIs
<1>6. ModelAnswerMeetsContract'
  BY <1>0, <1>4 DEF ModelAnswerMeetsContract
<1>7. ASSUME question.path = "critic", NEW i \in 1 .. LastCall PROVE Accounted(i)'
  <2>1. Accounted(i)
    BY <1>1, <1>7 DEF AnswerInv, RowsFollow, Owed
  <2> QED
    BY <1>0, <1>1, <2>1, StaysAccounted
<1> QED
  BY <1>1, <1>3, <1>5, <1>6, <1>7

\* A call of the loop has its row at once.
LEMMA LoopAsked ==
  ASSUME AnswerInv, stage = "looping", NEW c \in Call, c.model = "primary",
         calls' = Append(calls, c), UNCHANGED <<question, observed, answered>>,
         stage' \in {"looping", "checking", "failing"},
         stage' = "checking" => c.text \in {"valid", "invalid"},
         NEW r \in CallRow, rows' = Append(rows, r),
         r.about = LastCall + 1 \/ (c.text = "failed" /\ r.status = "failed" /\ r.about = 0)
  PROVE  AnswerInv'
<1>0. observed' \in Nat /\ AnswerTyped
  BY DEF AnswerInv, AnswerTyped
<1>1. /\ AnswerTyped' /\ LastCallIs' /\ ModelAnswerMeetsContract'
      /\ LastCall' = LastCall + 1 /\ calls'[LastCall + 1] = c /\ LastCall \in Nat
      /\ question.path = "critic" => \A i \in 1 .. LastCall : Accounted(i)'
  BY <1>0, PrimaryAsked
<1>2. DOMAIN calls' = 1 .. LastCall + 1 /\ LastCall \in Nat /\ calls'[LastCall + 1] = c
  BY <1>1 DEF AnswerTyped, LastCall
<1>3. ASSUME question.path = "critic", NEW i \in 1 .. LastCall + 1 PROVE Accounted(i)'
  <2>1. CASE i \in 1 .. LastCall
    BY <1>1, <1>3, <2>1
  <2>2. CASE i = LastCall + 1
    <3>1. calls'[i] = c /\ i \in Nat
      BY <1>2, <2>2
    <3>2. \/ r.about = i
          \/ calls'[i].text = "failed" /\ r.status = "failed" /\ r.about = 0
      BY <2>2, <3>1
    <3>3. AnswerTyped /\ rows' = Append(rows, r)
      BY <1>0
    <3> QED
      BY <3>1, <3>2, <3>3, AccountedNow
  <2> QED
    BY <1>2, <2>1, <2>2
<1>4. RowsFollow'
  BY <1>2, <1>3 DEF RowsFollow
<1> QED
  BY <1>1, <1>4 DEF AnswerInv

LEMMA LoopStep ==
  ASSUME AnswerInv,
         \/ ToolRound \/ LoopFails
         \/ \E reply \in {"valid", "invalid", "empty"} : LoopAnswer(reply)
  PROVE  AnswerInv'
<1>0. AnswerTyped /\ LastCall \in Nat
  BY DEF AnswerInv, AnswerTyped, LastCall
<1>1. CASE ToolRound
  <2> DEFINE c == [by |-> "loop", model |-> "primary", text |-> "tools"]
             r == [kind |-> "tool_loop", about |-> LastCall + 1, status |-> "ok"]
  <2>1. /\ calls' = Append(calls, c) /\ rows' = Append(rows, r)
        /\ stage = "looping" /\ UNCHANGED <<question, stage, observed, answered>>
    BY <1>1 DEF ToolRound, Sent, Account, Entry
  <2>2. c \in Call /\ c.model = "primary" /\ r \in CallRow /\ r.about = LastCall + 1
    BY <1>0 DEF Call, CallRow
  <2> HIDE DEF c, r
  <2> QED
    BY <2>1, <2>2, LoopAsked
<1>2. ASSUME NEW reply \in {"valid", "invalid", "empty"}, LoopAnswer(reply) PROVE AnswerInv'
  <2> DEFINE c == [by |-> "loop", model |-> "primary", text |-> reply]
             r == [kind |-> "tool_loop", about |-> LastCall + 1, status |-> "ok"]
  <2>1. /\ calls' = Append(calls, c) /\ rows' = Append(rows, r)
        /\ stage = "looping" /\ stage' = IF reply = "empty" THEN "failing" ELSE "checking"
        /\ UNCHANGED <<question, observed, answered>>
    BY <1>2 DEF LoopAnswer, Sent, Account, Entry
  <2>2. c \in Call /\ c.model = "primary" /\ c.text = reply /\ r \in CallRow /\ r.about = LastCall + 1
    BY <1>0, <1>2 DEF Call, CallRow
  <2> HIDE DEF c, r
  <2> QED
    BY <1>2, <2>1, <2>2, LoopAsked
<1>3. CASE LoopFails
  <2>1. CASE UNCHANGED <<calls, rows>>
    <3>1. stage = "looping" /\ stage' = "failing" /\ UNCHANGED <<question, calls, rows, observed, answered>>
      BY <1>3, <2>1 DEF LoopFails
    <3>2. AnswerTyped' /\ LastCallIs' /\ ModelAnswerMeetsContract'
      BY <3>1 DEF AnswerInv, AnswerTyped, LastCallIs, ModelAnswerMeetsContract, LastCall
    <3>3. RowsFollow'
      BY <3>1 DEF AnswerInv, RowsFollow, Owed, Accounted
    <3> QED
      BY <3>2, <3>3 DEF AnswerInv
  <2>2. CASE Sent("loop", "primary", "failed") /\ Account("tool_loop", 0, "failed")
    <3> DEFINE c == [by |-> "loop", model |-> "primary", text |-> "failed"]
               r == [kind |-> "tool_loop", about |-> 0, status |-> "failed"]
    <3>1. /\ calls' = Append(calls, c) /\ rows' = Append(rows, r)
          /\ stage = "looping" /\ stage' = "failing" /\ UNCHANGED <<question, observed, answered>>
      BY <1>3, <2>2 DEF LoopFails, Sent, Account, Entry
    <3>2. /\ c \in Call /\ c.model = "primary" /\ c.text = "failed"
          /\ r \in CallRow /\ r.about = 0 /\ r.status = "failed"
      BY DEF Call, CallRow
    <3> HIDE DEF c, r
    <3> QED
      BY <3>1, <3>2, LoopAsked
  <2> QED
    BY <1>3, <2>1, <2>2 DEF LoopFails
<1> QED
  BY <1>1, <1>2, <1>3

LEMMA AskPrimaryStep ==
  ASSUME AnswerInv, NEW reply \in {"valid", "invalid", "failed", "unsent"}, AskPrimary(reply)
  PROVE  AnswerInv'
<1>0. AnswerTyped /\ LastCall \in Nat /\ stage = "asking"
  BY DEF AnswerInv, AnswerTyped, LastCall, AskPrimary
<1>1. CASE reply = "unsent"
  <2>1. stage' = "failing" /\ UNCHANGED <<question, calls, rows, observed, answered>>
    BY <1>1 DEF AskPrimary
  <2>2. AnswerTyped' /\ LastCallIs' /\ ModelAnswerMeetsContract'
    BY <1>0, <2>1 DEF AnswerInv, AnswerTyped, LastCallIs, ModelAnswerMeetsContract, LastCall
  <2>3. RowsFollow'
    BY <1>0, <2>1 DEF AnswerInv, RowsFollow, Owed, Accounted
  <2> QED
    BY <2>2, <2>3 DEF AnswerInv
<1>2. CASE reply # "unsent"
  <2> DEFINE c == [by |-> "single", model |-> "primary", text |-> reply]
  <2>1. /\ calls' = Append(calls, c) /\ observed' = IF reply = "failed" THEN 0 ELSE LastCall + 1
        /\ stage' = IF reply = "failed" THEN "failing" ELSE "checking"
        /\ UNCHANGED <<question, rows, answered>>
    BY <1>2 DEF AskPrimary, Sent
  <2>2. c \in Call /\ c.model = "primary" /\ c.by = "single" /\ c.text = reply
    BY <1>2 DEF Call
  <2> HIDE DEF c
  <2>3. observed' \in Nat
    BY <1>0, <2>1
  <2>4. /\ AnswerTyped' /\ LastCallIs' /\ ModelAnswerMeetsContract'
        /\ LastCall' = LastCall + 1 /\ calls'[LastCall + 1] = c
        /\ question.path = "critic" => \A i \in 1 .. LastCall : Accounted(i)'
    BY <1>0, <1>2, <2>1, <2>2, <2>3, PrimaryAsked
  <2>5. DOMAIN calls' = 1 .. LastCall + 1
    BY <2>4 DEF AnswerTyped, LastCall
  <2>6. Owed'
    BY <1>2, <2>1, <2>2, <2>4 DEF Owed
  <2>7. RowsFollow'
    BY <1>0, <2>1, <2>4, <2>5, <2>6 DEF RowsFollow
  <2> QED
    BY <2>4, <2>7 DEF AnswerInv
<1> QED
  BY <1>1, <1>2

\* The question is over and no call is owed a row on the critic's path.
LEMMA Ends ==
  ASSUME AnswerTyped', stage' = "done", ModelAnswerMeetsContract',
         question'.path = "critic" => \A i \in DOMAIN calls' : Accounted(i)'
  PROVE  AnswerInv'
  BY DEF AnswerInv, LastCallIs, RowsFollow

\* What AccountUnlessLooped and the except clause write settles what is owed.
LEMMA LoopSettled ==
  ASSUME AnswerInv, NEW status \in {"ok", "failed"}, UNCHANGED calls,
         \/ Account(question.path, observed, status) /\ (stage = "failing" => status = "failed")
         \/ Looped /\ UNCHANGED rows /\ stage = "checking"
  PROVE  /\ rows' \in Seq(CallRow)
         /\ question.path = "critic" => \A i \in DOMAIN calls' : Accounted(i)'
<1>0. AnswerTyped /\ rows \in Seq(CallRow) /\ question.path \in {"chat", "critic"} /\ observed \in Nat
      /\ calls \in Seq(Call)
  BY DEF AnswerInv, AnswerTyped, Questions
<1>1. CASE UNCHANGED rows /\ Looped /\ stage = "checking"
  <2>1. ~ Owed
    BY <1>1 DEF Looped, Owed
  <2> QED
    BY <1>0, <1>1, <2>1 DEF AnswerInv, RowsFollow, Accounted
<1>2. CASE Account(question.path, observed, status) /\ (stage = "failing" => status = "failed")
  <2> DEFINE r == [kind |-> question.path, about |-> observed, status |-> status]
  <2>1. /\ rows' = Append(rows, r) /\ r \in CallRow
        /\ r.about = observed /\ r.status = status
    BY <1>0, <1>2 DEF Account, Entry, CallRow
  <2> HIDE DEF r
  <2>2. rows' \in Seq(CallRow)
    BY <1>0, <2>1, Grows
  <2>3. ASSUME question.path = "critic", NEW i \in DOMAIN calls PROVE Accounted(i)'
    <3>0. i \in Nat
      BY <1>0
    <3>1. CASE Accounted(i)
      BY <1>0, <2>1, <3>1, StaysAccounted
    <3>2. CASE i = LastCall /\ Owed
      <4>1. r.about = i \/ (calls'[i].text = "failed" /\ r.status = "failed" /\ r.about = 0)
        BY <1>2, <2>1, <3>2 DEF Owed
      <4> QED
        BY <1>0, <2>1, <3>0, <4>1, AccountedNow
    <3> QED
      BY <2>3, <3>1, <3>2 DEF AnswerInv, RowsFollow
  <2> QED
    BY <2>2, <2>3
<1> QED
  BY <1>1, <1>2

LEMMA AttemptFailedStep ==
  ASSUME AnswerInv, AttemptFailed
  PROVE  AnswerInv'
<1>1. /\ stage = "failing" /\ Account(question.path, observed, "failed")
      /\ stage' = "done" /\ UNCHANGED <<question, calls, observed>>
      /\ answered' = [by |-> IF question.path = "chat" THEN "raised" ELSE "rules",
                      call |-> 0, model |-> "none"]
  BY DEF AttemptFailed, WithoutModel
<1>2. /\ rows' \in Seq(CallRow)
      /\ question.path = "critic" => \A i \in DOMAIN calls' : Accounted(i)'
  BY <1>1, LoopSettled
<1>3. AnswerTyped' /\ answered'.by # "model"
  BY <1>1, <1>2 DEF AnswerInv, AnswerTyped
<1>4. ModelAnswerMeetsContract'
  BY <1>1, <1>3 DEF AnswerInv, ModelAnswerMeetsContract, LastCall
<1> QED
  BY <1>1, <1>2, <1>3, <1>4, Ends

LEMMA AcceptPrimaryStep ==
  ASSUME AnswerInv, AcceptPrimary
  PROVE  AnswerInv'
<1>1. /\ stage = "checking" /\ calls[LastCall].text = "valid"
      /\ stage' = "done" /\ UNCHANGED <<question, calls, observed>>
      /\ answered' = [by |-> "model", call |-> LastCall, model |-> "primary"]
      /\ \/ Looped /\ UNCHANGED rows
         \/ Account(question.path, observed, "ok")
  BY DEF AcceptPrimary, AccountUnlessLooped, FromModel, Passes
<1>2. /\ rows' \in Seq(CallRow)
      /\ question.path = "critic" => \A i \in DOMAIN calls' : Accounted(i)'
  BY <1>1, LoopSettled
<1>3. LastCall \in Nat /\ LastCall > 0 /\ LastCall \in DOMAIN calls
  BY <1>1 DEF AnswerInv, AnswerTyped, LastCallIs, LastCall
<1>4. AnswerTyped'
  BY <1>1, <1>2, <1>3 DEF AnswerInv, AnswerTyped
<1>5. \A i \in DOMAIN calls' : calls'[i].model = "primary"
  BY <1>1 DEF AnswerInv, LastCallIs
<1>6. ModelAnswerMeetsContract'
  BY <1>1, <1>3, <1>5 DEF ModelAnswerMeetsContract
<1> QED
  BY <1>1, <1>2, <1>4, <1>6, Ends

LEMMA RejectPrimaryStep ==
  ASSUME AnswerInv, RejectPrimary
  PROVE  AnswerInv'
<1>0. AnswerTyped /\ LastCall > 0 /\ calls[LastCall].text = "invalid" /\ answered.by = "none"
      /\ \A i \in DOMAIN calls : calls[i].model = "primary"
  BY DEF AnswerInv, LastCallIs, RejectPrimary, Passes
<1>1. /\ stage = "checking" /\ UNCHANGED <<question, calls, observed>>
      /\ \/ stage' = "retrying" /\ UNCHANGED answered
         \/ /\ stage' = "done"
            /\ answered' = [by |-> IF question.path = "chat" THEN "raised" ELSE "rules",
                            call |-> 0, model |-> "none"]
      /\ \/ Looped /\ UNCHANGED rows
         \/ Account(question.path, observed, "failed")
         \/ question.path # "critic" /\ UNCHANGED rows
  BY DEF RejectPrimary, AccountUnlessLooped, WithoutModel
<1>2. /\ rows' \in Seq(CallRow)
      /\ question.path = "critic" => \A i \in DOMAIN calls' : Accounted(i)'
  BY <1>0, <1>1, LoopSettled DEF AnswerTyped
<1>3. AnswerTyped' /\ answered'.by # "model" /\ (stage' = "retrying" => answered'.by = "none")
  BY <1>0, <1>1, <1>2 DEF AnswerTyped
<1>4. ModelAnswerMeetsContract'
  BY <1>0, <1>1, <1>3 DEF ModelAnswerMeetsContract
<1>5. LastCallIs'
  BY <1>0, <1>1, <1>3 DEF LastCallIs, LastCall
<1>6. RowsFollow'
  BY <1>1, <1>2 DEF RowsFollow
<1> QED
  BY <1>3, <1>4, <1>5, <1>6 DEF AnswerInv

LEMMA AskFallbackStep ==
  ASSUME AnswerInv, NEW reply \in {"valid", "invalid", "failed", "unsent"}, AskFallback(reply)
  PROVE  AnswerInv'
<1> DEFINE seen == CASE reply = "unsent" -> observed [] reply = "failed" -> 0 [] OTHER -> LastCall + 1
           c == [by |-> "single", model |-> "fallback", text |-> reply]
<1>0. /\ AnswerTyped /\ LastCall \in Nat /\ LastCall > 0 /\ calls[LastCall].text = "invalid"
      /\ \A i \in DOMAIN calls : calls[i].model = "primary"
      /\ calls \in Seq(Call) /\ rows \in Seq(CallRow) /\ observed \in Nat
      /\ question.path \in {"chat", "critic"} /\ DOMAIN calls = 1 .. LastCall
  BY DEF AnswerInv, AnswerTyped, LastCallIs, AskFallback, LastCall, Questions
<1>1. /\ stage = "retrying" /\ stage' = "done" /\ UNCHANGED question /\ observed' = seen
      /\ IF reply = "unsent" THEN calls' = calls ELSE calls' = Append(calls, c)
      /\ FallbackRows(reply, seen)
      /\ \/ reply = "valid" /\ answered' = [by |-> "model", call |-> LastCall + 1, model |-> "fallback"]
         \/ /\ reply # "valid"
            /\ answered' = [by |-> IF question.path = "chat" THEN "raised" ELSE "rules",
                            call |-> 0, model |-> "none"]
  BY DEF AskFallback, Sent, Passes, FromModel, WithoutModel
<1>2. seen \in Nat /\ (reply = "failed" => seen = 0)
      /\ (reply \in {"valid", "invalid"} => seen = LastCall + 1)
  BY <1>0
<1>3. reply # "unsent" => c \in Call /\ c.model = "fallback" /\ c.text = reply
  BY DEF Call
<1> HIDE DEF seen, c
<1>4. rows' \in Seq(CallRow)
  <2> DEFINE failed == [kind |-> "chat", about |-> seen, status |-> "failed"]
             ok == [kind |-> "chat_fallback", about |-> seen, status |-> "ok"]
             critic == [kind |-> "critic_fallback", about |-> seen,
                        status |-> IF Passes(reply) THEN "ok" ELSE "failed"]
  <2>1. failed \in CallRow /\ ok \in CallRow /\ critic \in CallRow
    BY <1>2 DEF CallRow
  <2>2. \/ rows' = rows \/ rows' = Append(rows, failed) \/ rows' = Append(rows, critic)
        \/ rows' = rows \o <<failed, ok>>
    BY <1>0, <1>1 DEF FallbackRows, Account, Entry
  <2> HIDE DEF failed, ok, critic
  <2>3. <<failed, ok>> \in Seq(CallRow)
    BY <2>1
  <2>4. rows \o <<failed, ok>> \in Seq(CallRow)
    BY <1>0, <2>3, Joins
  <2>5. Append(rows, failed) \in Seq(CallRow) /\ Append(rows, critic) \in Seq(CallRow)
    BY <1>0, <2>1, Grows
  <2> QED
    BY <1>0, <2>2, <2>4, <2>5
<1>5. /\ calls' \in Seq(Call) /\ \A i \in 1 .. LastCall : calls'[i] = calls[i]
      /\ reply = "unsent" => LastCall' = LastCall /\ DOMAIN calls' = 1 .. LastCall
      /\ reply # "unsent" => /\ LastCall' = LastCall + 1 /\ DOMAIN calls' = 1 .. LastCall + 1
                            /\ calls'[LastCall + 1] = c
  BY <1>0, <1>1, <1>3, Grows DEF LastCall
<1>6. AnswerTyped'
  BY <1>0, <1>1, <1>2, <1>4, <1>5 DEF AnswerTyped
<1>7. ModelAnswerMeetsContract'
  <2>1. CASE reply = "unsent"
    BY <1>0, <1>1, <1>5, <2>1 DEF ModelAnswerMeetsContract
  <2>2. CASE reply # "unsent"
    <3>1. answered'.by = "model" => answered'.call = LastCall + 1 /\ answered'.model = "fallback"
                                    /\ reply = "valid"
      BY <1>1
    <3>2. \A i \in DOMAIN calls' : calls'[i].model = "fallback" => i = LastCall + 1
      BY <1>0, <1>5, <2>2
    <3>3. calls'[LastCall].text = "invalid" /\ LastCall + 1 > 1 /\ (LastCall + 1) - 1 = LastCall
      BY <1>0, <1>5
    <3>4. ASSUME NEW i \in DOMAIN calls', calls'[i].model = "fallback"
          PROVE  i = LastCall' /\ i > 1 /\ calls'[i - 1].text = "invalid"
      BY <1>5, <2>2, <3>2, <3>3, <3>4
    <3>5. answered'.by = "model" => calls'[answered'.call].text = "valid"
                                    /\ calls'[answered'.call].model = answered'.model
      BY <1>3, <1>5, <2>2, <3>1
    <3> QED
      BY <3>4, <3>5 DEF ModelAnswerMeetsContract
  <2> QED
    BY <2>1, <2>2
<1>8. ASSUME question.path = "critic", NEW i \in DOMAIN calls' PROVE Accounted(i)'
  <2> DEFINE r == [kind |-> "critic_fallback", about |-> seen,
                   status |-> IF reply = "valid" THEN "ok" ELSE "failed"]
  <2>1. rows' = Append(rows, r)
    BY <1>1, <1>8 DEF FallbackRows, Passes, Entry
  <2>2. r \in CallRow /\ r.about = seen /\ (reply = "failed" => r.status = "failed")
    BY <1>2 DEF CallRow
  <2> HIDE DEF r
  <2>3. CASE i \in 1 .. LastCall
    <3>1. Accounted(i) /\ i \in DOMAIN calls
      BY <1>0, <1>1, <1>8, <2>3 DEF AnswerInv, RowsFollow, Owed
    <3> QED
      BY <1>0, <1>1, <1>3, <2>1, <2>2, <3>1, StaysAccounted
  <2>4. CASE i = LastCall + 1
    <3>1. reply # "unsent" /\ calls'[i] = c /\ i \in Nat
      BY <1>0, <1>5, <1>8, <2>4
    <3>2. \/ r.about = i
          \/ calls'[i].text = "failed" /\ r.status = "failed" /\ r.about = 0
      BY <1>2, <1>3, <2>2, <2>4, <3>1
    <3> QED
      BY <1>0, <2>1, <2>2, <3>1, <3>2, AccountedNow
  <2> QED
    BY <1>0, <1>5, <1>8, <2>3, <2>4
<1> QED
  BY <1>1, <1>6, <1>7, <1>8, Ends

LEMMA NextAnswer == AnswerInv /\ [AnswerNext]_answerVars => AnswerInv'
<1> SUFFICES ASSUME AnswerInv, [AnswerNext]_answerVars PROVE AnswerInv'
  OBVIOUS
<1>1. CASE UNCHANGED answerVars
  BY <1>1 DEF answerVars, AnswerInv, AnswerTyped, LastCallIs, ModelAnswerMeetsContract,
     RowsFollow, Owed, Accounted, LastCall
<1>2. CASE BeginAnswer
  BY <1>2, StageMoves DEF BeginAnswer
<1>3. CASE ToolsUnsupported
  BY <1>3, StageMoves DEF ToolsUnsupported
<1>4. CASE AnswerNext
  BY <1>2, <1>3, <1>4, LoopStep, AskPrimaryStep, AttemptFailedStep, AcceptPrimaryStep,
     RejectPrimaryStep, AskFallbackStep DEF AnswerNext
<1> QED
  BY <1>1, <1>4

\* The invariant of a model's answer, for any number of tool rounds.
THEOREM AnswerInvariance == AnswerSpec => []AnswerInv
  BY InitAnswer, NextAnswer, PTL DEF AnswerSpec

\* validate_review_answer and the one fallback: for any number of tool rounds, an
\* answer given as a model's passed the contract and names its model, and the
\* fallback follows only an answer of the primary that was rejected.
THEOREM AnswerMeetsContract == AnswerSpec => []ModelAnswerMeetsContract
<1>1. AnswerInv => ModelAnswerMeetsContract
  BY DEF AnswerInv
<1> QED
  BY <1>1, AnswerInvariance, PTL

\* CriticAgent and _account_llm_call: when the critic is done every call it made
\* has a row of its own, whichever failed or was rejected.
THEOREM CriticAccounted == AnswerSpec => []CriticCallsAreAccounted
<1>1. AnswerInv => CriticCallsAreAccounted
  BY DEF AnswerInv, RowsFollow, Owed, CriticCallsAreAccounted
<1> QED
  BY <1>1, AnswerInvariance, PTL

-----------------------------------------------------------------------------
(* The workbench.  No step of one part touches a variable of another.       *)

LEMMA InitOfParts ==
  Init => /\ ConflictInit /\ ChatInit /\ EvidenceInit /\ TaskInit /\ SignInit
          /\ RequestInit /\ IndexInit /\ FrameworkInit /\ AnswerInit
  BY DEF Init

LEMMA StepOfParts ==
  ASSUME [Next]_workbenchVars
  PROVE  /\ [ConflictNext]_conflictVars /\ [ChatNext]_chatVars /\ [EvidenceNext]_evidenceVars
         /\ [TaskNext]_taskVars /\ [SignNext]_signVars /\ [RequestNext]_requestVars
         /\ [IndexNext]_indexVars /\ [FrameworkNext]_frameworkVars /\ [AnswerNext]_answerVars
<1>1. CASE UNCHANGED workbenchVars
  BY <1>1 DEF workbenchVars
<1>2. CASE Next
  BY <1>2 DEF Next
<1> QED
  BY <1>1, <1>2

\* Whatever the parts do side by side, each behaves as it would alone.
THEOREM PartsAreIndependent ==
  Spec => /\ ConflictSpec /\ ChatSpec /\ EvidenceSpec /\ TaskSpec /\ SignSpec
          /\ RequestSpec /\ IndexSpec /\ FrameworkSpec /\ AnswerSpec
  BY InitOfParts, StepOfParts, PTL
     DEF Spec, ConflictSpec, ChatSpec, EvidenceSpec, TaskSpec, SignSpec, RequestSpec,
         IndexSpec, FrameworkSpec, AnswerSpec

\* So the results about the parts hold of the workbench: every invariant that is
\* model-checked there holds for any values of the constants.
THEOREM WorkbenchIsSafe ==
  Spec => [](/\ ConflictSeenByOneSide /\ NeverOwnDecision
             /\ ApprovalBindsContent /\ ConfirmedQuoteStands
             /\ OneRunPerRequest /\ ToldOfOwnRun
             /\ AttemptsAreExact /\ OutdatedSessionIsDead
             /\ EventsTellTheTask /\ VectorsAreOfTheQuery /\ CompletedIsWhole
             /\ ModelAnswerMeetsContract /\ CriticCallsAreAccounted)
  BY PartsAreIndependent, ConflictNotMissed, SeparateDecider,
     BoundApproval, StandingQuote, OneRun, ToldOwnRun, AttemptsExact, OutdatedDead,
     EventsTell, VectorsOfTheQuery, CompletedWhole, AnswerMeetsContract, CriticAccounted, PTL

\* And the chat submissions of the workbench implement the promise of AnswerOnce.
THEOREM WorkbenchAnswersOnce ==
  ASSUME Streaming = Submissions, Outlive = FALSE
  PROVE  Spec => SubmitsOnce
  BY PartsAreIndependent, ChatRefinement, PTL
===============================================================================
