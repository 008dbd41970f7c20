-------------------------- MODULE HostRuntime_proof --------------------------
(***************************************************************************)
(* Theorems about HostRuntime.  The lease makes the files of a run the     *)
(* driver's own; the journal in them, marked before a call, is what keeps a *)
(* node from being called twice and lets a completed node be trusted.      *)
(***************************************************************************)
EXTENDS HostRuntime, TLAPS

\* The choice of the first node of a set is one of its members.
LEMMA FirstIn ==
  ASSUME NEW ns \in SUBSET Nodes, ns # {}
  PROVE  First(ns) \in ns
<1>1. ns \subseteq {"user", "step", "gap", "draft", "assistant", "audit"}
  BY NodesAssumption DEF Stage
<1>2. \E n \in ns : \A m \in ns : Order[n] <= Order[m]
  <2>1. CASE "user" \in ns
    BY <1>1, <2>1 DEF Order
  <2>2. CASE "user" \notin ns /\ "step" \in ns
    BY <1>1, <2>2 DEF Order
  <2>3. CASE "user" \notin ns /\ "step" \notin ns /\ "gap" \in ns
    BY <1>1, <2>3 DEF Order
  <2>4. CASE ns \cap {"user", "step", "gap"} = {} /\ "draft" \in ns
    BY <1>1, <2>4 DEF Order
  <2>5. CASE ns \cap {"user", "step", "gap", "draft"} = {} /\ "assistant" \in ns
    BY <1>1, <2>5 DEF Order
  <2>6. CASE ns \cap {"user", "step", "gap", "draft", "assistant"} = {}
    <3>1. ns = {"audit"}
      BY <1>1, <2>6
    <3> QED
      BY <3>1 DEF Order
  <2> QED
    BY <1>1, <2>1, <2>2, <2>3, <2>4, <2>5, <2>6
<1> QED
  BY <1>2 DEF First

LEMMA InitInv == Init => IInv
<1> SUFFICES ASSUME Init PROVE IInv
  OBVIOUS
<1> USE DEF Init, NoLink, NoFrame, Idle
<1>1. TypeOK
  BY BoundsAssumption DEF TypeOK, LinkRow, FrameState, Driver, NodeStates, Terminal
<1>2. OneLease /\ Permitted /\ CalledOnce
  BY DEF OneLease, Permitted, CalledOnce
<1>3. FilesSound
  BY DEF FilesSound, FilesOK
<1>4. SidecarKnows
  BY DEF SidecarKnows, Knows, SidecarPhases, NodePhases, CallPhases
<1>5. PurgeKnows /\ SuccessIsComplete /\ StateIsPurged
  BY DEF PurgeKnows, SuccessIsComplete, StateIsPurged, Gone
<1> QED
  BY <1>1, <1>2, <1>3, <1>4, <1>5 DEF IInv

\* A driver that holds a lease works on a request of its own.
LEMMA Lease ==
  ASSUME IInv, NEW d \in Drivers, worker[d].phase # "idle"
  PROVE  /\ worker[d].request \in Requests
         /\ worker[d].request # None
         /\ \A e \in Drivers : worker[e].request = worker[d].request => e = d
BY NamesAssumption DEF IInv, OneLease, TypeOK, Driver

\* What a driver knows of some files depends only on the rows of its request.
LEMMA KnowsStays ==
  ASSUME NEW CONSTANT v, NEW CONSTANT g, Knows(v, g), UNCHANGED <<link, receipts>>,
         (v.phase = "create" \/ v.phase \in NodePhases) =>
            \A m \in Nodes : calls'[v.request][m] = calls[v.request][m]
  PROVE  Knows(v, g)'
<1>1. \A p : Gone(p)' <=> Gone(p)
  BY DEF Gone
<1>2. v.phase = "create" => \A m \in Nodes : calls'[v.request][m] = 0
  BY DEF Knows
<1>3. v.phase = "started" => calls'[v.request][v.node] = 0
  BY DEF Knows, NodePhases
<1> QED
  BY <1>1, <1>2, <1>3 DEF Knows, OpenNode

\* So a step that leaves a driver, its files and all rows alone leaves it true.
LEMMA KnowsOfOthers ==
  ASSUME IInv, NEW e \in Drivers, worker'[e] = worker[e],
         frame'[worker[e].request] = frame[worker[e].request],
         UNCHANGED <<link, receipts, calls>>
  PROVE  Knows(worker[e], frame[worker[e].request])'
<1>1. PICK v, g : v = worker[e] /\ g = frame[v.request]
  OBVIOUS
<1>2. Knows(v, g)
  BY <1>1 DEF IInv, SidecarKnows
<1>3. \A m \in Nodes : calls'[v.request][m] = calls[v.request][m]
  OBVIOUS
<1>4. Knows(v, g)'
  BY <1>2, <1>3, KnowsStays
<1> QED
  BY <1>1, <1>4

\* A step that changes only the files of a leased request and its driver keeps
\* the invariant if it keeps what that driver knows.
LEMMA DriverStep ==
  ASSUME IInv, NEW d \in Drivers, worker[d].phase # "idle",
         NEW f \in FrameState, NEW w \in Driver,
         frame' = [frame EXCEPT ![worker[d].request] = f],
         worker' = [worker EXCEPT ![d] = w],
         UNCHANGED <<host, clock, calls, drives>>,
         faults' \in 0 .. MaxFaults,
         w = Idle \/ (w.request = worker[d].request
                      /\ w.phase \notin {"idle", "purge", "purging"} /\ Knows(w, f)),
         FilesOK(worker[d].request, f),
         Gone(worker[d].request) => f = NoFrame \/ worker[d].request \in outbox
  PROVE  IInv'
<1> DEFINE q == worker[d].request
<1>0. q \in Requests /\ q # None /\ \A e \in Drivers : worker[e].request = q => e = d
  BY Lease
<1>a. \A p \in Requests : frame'[p] = IF p = q THEN f ELSE frame[p]
  BY <1>0 DEF IInv, TypeOK
<1>b. \A e \in Drivers : worker'[e] = IF e = d THEN w ELSE worker[e]
  BY DEF IInv, TypeOK
<1>c. UNCHANGED <<link, run, receipts, outbox, clock, calls, drives>>
  BY DEF host
<1>d. \A p : Gone(p)' <=> Gone(p)
  BY <1>c DEF Gone
<1>1. TypeOK'
  BY <1>0, <1>c DEF IInv, TypeOK
<1>2. OneLease'
  BY <1>0, <1>b DEF IInv, OneLease, Idle
<1>3. Permitted' /\ CalledOnce'
  BY <1>c DEF IInv, Permitted, CalledOnce, Gone
<1>4. FilesSound'
  <2> SUFFICES ASSUME NEW p \in Requests PROVE FilesOK(p, frame[p])'
    BY DEF FilesSound
  <2>1. FilesOK(p, frame'[p])
    BY <1>a DEF IInv, FilesSound
  <2> QED
    BY <2>1, <1>c DEF FilesOK, Gone
<1>5. SidecarKnows'
  <2> SUFFICES ASSUME NEW e \in Drivers PROVE Knows(worker[e], frame[worker[e].request])'
    BY DEF SidecarKnows
  <2>1. CASE e = d /\ w = Idle
    BY <2>1, <1>b DEF Idle, Knows, SidecarPhases, NodePhases, CallPhases
  <2>2. CASE e = d /\ w # Idle
    <3>1. /\ w.request = q /\ Knows(w, f)
          /\ worker'[e] = w /\ frame'[worker'[e].request] = f
      BY <2>2, <1>0, <1>a, <1>b
    <3> QED
      BY <3>1, <1>c DEF Knows, OpenNode, Gone
  <2>3. CASE e # d
    <3>1. worker'[e] = worker[e] /\ worker[e].request # q
      BY <2>3, <1>0, <1>b
    <3>2. Knows(worker[e], frame[worker[e].request])
      BY DEF IInv, SidecarKnows
    <3>3. CASE worker[e].phase = "idle"
      BY <3>1, <3>3 DEF Knows, SidecarPhases, NodePhases, CallPhases
    <3>4. CASE worker[e].phase # "idle"
      <4>0. PICK v, g : v = worker[e] /\ g = frame[v.request]
        OBVIOUS
      <4>1. worker'[e] = v /\ frame'[v.request] = g
        BY <3>1, <3>4, <4>0, <1>a, Lease
      <4>2. Knows(v, g)
        BY <3>2, <4>0
      <4>3. UNCHANGED <<link, receipts, calls>>
        BY <1>c
      <4> QED
        BY <4>1, <4>2, <4>3, KnowsStays
    <3> QED
      BY <3>3, <3>4
  <2> QED
    BY <2>1, <2>2, <2>3
<1>6. PurgeKnows'
  <2>1. \A p \in outbox : link'[p].status = "deleted"
    BY <1>c DEF IInv, PurgeKnows, Gone
  <2>2. ASSUME NEW e \in Drivers, worker'[e].phase \in {"purge", "purging"}
        PROVE  /\ link'[worker'[e].request].status = "deleted"
               /\ worker'[e].phase = "purging" => frame'[worker'[e].request] = NoFrame
    <3>1. e # d /\ worker'[e] = worker[e] /\ worker[e].request # q
      BY <2>2, <1>0, <1>b DEF Idle
    <3>2. worker[e].request \in Requests
      BY <2>2, <3>1, Lease
    <3>3. Gone(worker[e].request) /\ (worker[e].phase = "purging" => frame[worker[e].request] = NoFrame)
      BY <2>2, <3>1 DEF IInv, PurgeKnows
    <3> QED
      BY <2>2, <3>1, <3>2, <3>3, <1>a, <1>c DEF Gone
  <2> QED
    BY <2>1, <2>2, <1>c DEF PurgeKnows, Gone
<1>7. SuccessIsComplete'
  BY <1>c DEF IInv, SuccessIsComplete
<1>8. StateIsPurged'
  BY <1>a, <1>c, <1>d DEF IInv, StateIsPurged
<1> QED
  BY <1>1, <1>2, <1>3, <1>4, <1>5, <1>6, <1>7, <1>8 DEF IInv

\* What the invariant says of the files and the driver of a leased request.
LEMMA Mine ==
  ASSUME IInv, NEW d \in Drivers, worker[d].phase # "idle"
  PROVE  /\ frame[worker[d].request] \in FrameState
         /\ FilesOK(worker[d].request, frame[worker[d].request])
         /\ worker[d] \in Driver
         /\ Knows(worker[d], frame[worker[d].request])
         /\ Gone(worker[d].request) /\ frame[worker[d].request] # NoFrame
            => worker[d].request \in outbox
<1>1. worker[d].request \in Requests
  BY Lease
<1>2. frame \in [Requests -> FrameState] /\ worker \in [Drivers -> Driver]
  BY DEF IInv, TypeOK
<1>3. FilesSound /\ SidecarKnows /\ StateIsPurged
  BY DEF IInv
<1> QED
  BY <1>1, <1>2, <1>3 DEF FilesSound, SidecarKnows, StateIsPurged

\* Hearing of a cancellation changes nothing that the invariant reads.
LEMMA HeardOK ==
  ASSUME TypeOK, NEW q \in Requests
  PROVE  /\ Heard(q) \in FrameState
         /\ Heard(q).status = frame[q].status
         /\ Heard(q).node = frame[q].node
         /\ Heard(q).journal = frame[q].journal
<1>1. frame[q] \in FrameState /\ link[q] \in LinkRow
  BY DEF TypeOK
<1> QED
  BY <1>1 DEF Heard, FrameState, LinkRow

\* A step that leaves the files of the run alone.
LEMMA PhaseStep ==
  ASSUME IInv, NEW d \in Drivers, worker[d].phase # "idle", NEW w \in Driver,
         worker' = [worker EXCEPT ![d] = w],
         UNCHANGED <<host, clock, frame, calls, drives>>,
         faults' \in 0 .. MaxFaults,
         w = Idle \/ (w.request = worker[d].request
                      /\ w.phase \notin {"idle", "purge", "purging"}
                      /\ Knows(w, frame[worker[d].request]))
  PROVE  IInv'
<1>1. frame' = [frame EXCEPT ![worker[d].request] = frame[worker[d].request]]
  BY Lease DEF IInv, TypeOK
<1> QED
  BY <1>1, Mine, DriverStep

\* A step that saves sound files.
LEMMA SaveStep ==
  ASSUME IInv, NEW d \in Drivers, worker[d].phase # "idle",
         ~Gone(worker[d].request),
         NEW g \in FrameState, NEW w \in Driver,
         Save(d, g, w),
         w.request = worker[d].request, w.phase \notin {"idle", "purge", "purging"},
         Knows(w, g),
         FilesOK(worker[d].request, g)
  PROVE  IInv'
<1> DEFINE q == worker[d].request
           saved == [g EXCEPT !.revision = @ + 1]
           shown == [saved EXCEPT !.published = saved.revision]
<1>1. saved \in FrameState /\ shown \in FrameState
  <2>1. saved \in FrameState /\ saved.revision \in Nat
    BY DEF FrameState
  <2> HIDE DEF saved
  <2> QED
    BY <2>1 DEF FrameState
<1>2. FilesOK(q, saved) /\ FilesOK(q, shown)
  BY DEF FrameState, FilesOK
<1>3. Knows(w, shown)
  BY DEF FrameState, Knows, OpenNode
<1>4. faults \in 0 .. MaxFaults /\ worker[d] \in Driver
  BY Mine DEF IInv, TypeOK
<1>5. Idle \in Driver
  BY DEF Idle, Driver, LinkRow, NoLink
<1>6. CASE /\ frame' = [frame EXCEPT ![q] = shown]
           /\ worker' = [worker EXCEPT ![d] = w]
           /\ UNCHANGED <<host, clock, calls, bounds>>
  <2> HIDE DEF shown, saved
  <2>1. UNCHANGED <<host, clock, calls, drives>> /\ faults' \in 0 .. MaxFaults
    BY <1>4, <1>6 DEF bounds
  <2> QED
    BY <1>1, <1>2, <1>3, <1>6, <2>1, DriverStep
<1>7. CASE /\ Fault
           /\ frame' = [frame EXCEPT ![q] = saved]
           /\ \E after \in {Idle, [worker[d] EXCEPT !.phase = "failed"]} :
                 worker' = [worker EXCEPT ![d] = after]
           /\ UNCHANGED <<host, clock, calls, drives>>
  <2> HIDE DEF saved
  <2>1. PICK after \in {Idle, [worker[d] EXCEPT !.phase = "failed"]} :
           worker' = [worker EXCEPT ![d] = after]
    BY <1>7
  <2>2. faults' \in 0 .. MaxFaults
    BY <1>4, <1>7, BoundsAssumption DEF Fault
  <2>3. after \in Driver
    BY <1>4, <1>5 DEF Driver
  <2>4. after = Idle \/ (after.request = q /\ after.phase = "failed")
    BY <1>4 DEF Driver
  <2>5. after.phase = "failed" => Knows(after, saved)
    BY DEF Knows, SidecarPhases, NodePhases, CallPhases
  <2> QED
    BY <1>1, <1>2, <1>7, <2>1, <2>2, <2>3, <2>4, <2>5, DriverStep
<1> QED
  BY <1>6, <1>7 DEF Save

\* A step of the host on request q with new row and receipts.
HostChange(q, row, rs) ==
    /\ link' = [link EXCEPT ![q] = row]
    /\ receipts' = [receipts EXCEPT ![q] = rs]
    /\ run' \in [Requests -> {"none", "running", "completed", "failed"}]
    /\ outbox' = outbox \/ (outbox' = outbox \cup {q} /\ row.status = "deleted")
    /\ Gone(q) => row.status = "deleted"
    /\ row.status = "deleted" => Gone(q) \/ q \in outbox'
    /\ row.status # "deleted" => (link[q].started => row.started) /\ receipts[q] \subseteq rs
    /\ row.status = "succeeded" => rs = Nodes
    /\ UNCHANGED <<frame, calls, drives, faults>>
    /\ clock' \in [Requests -> 0 .. 2]
    /\ worker' \in [Drivers -> Driver]
    /\ \A e \in Drivers :
          \/ worker'[e] = worker[e]
          \/ /\ worker[e].request = q /\ worker[e].phase # "idle"
             /\ \/ worker'[e] = Idle
                \/ /\ worker'[e].request = q
                   /\ worker'[e].phase \notin {"idle", "purge", "purging"}
                   /\ Knows(worker[e], frame[worker[e].request])'

\* A step of the host that changes the row of one request, with or without the
\* driver that has its lease.
LEMMA HostStep ==
  ASSUME IInv, NEW q \in Requests, NEW row \in LinkRow, NEW rs \in SUBSET Nodes,
         HostChange(q, row, rs)
  PROVE  IInv'
<1> USE DEF HostChange
<1>a. \A p \in Requests : p # q => link'[p] = link[p] /\ receipts'[p] = receipts[p]
  BY DEF IInv, TypeOK
<1>b. link'[q] = row /\ receipts'[q] = rs
  BY DEF IInv, TypeOK
<1>c. \A p \in Requests : Gone(p) => Gone(p)'
  BY <1>a, <1>b DEF Gone
<1>d. \A p \in Requests : ~Gone(p)' =>
         (link[p].started => link'[p].started) /\ receipts[p] \subseteq receipts'[p]
  BY <1>a, <1>b DEF Gone
<1>e. \A p \in Requests : Gone(p)' => Gone(p) \/ p \in outbox'
  BY <1>a, <1>b DEF Gone
<1>1. TypeOK'
  BY DEF IInv, TypeOK
<1>2. OneLease'
  BY DEF IInv, OneLease, Idle
<1>3. Permitted' /\ CalledOnce'
  BY <1>c, <1>d DEF IInv, Permitted, CalledOnce
<1>4. FilesSound'
  <2> SUFFICES ASSUME NEW p \in Requests PROVE FilesOK(p, frame[p])'
    BY DEF FilesSound
  <2>1. FilesOK(p, frame[p])
    BY DEF IInv, FilesSound
  <2> QED
    BY <2>1, <1>c, <1>d DEF FilesOK
<1>5. SidecarKnows'
  <2> SUFFICES ASSUME NEW e \in Drivers PROVE Knows(worker[e], frame[worker[e].request])'
    BY DEF SidecarKnows
  <2>1. CASE worker'[e].phase = "idle"
    BY <2>1 DEF Knows, SidecarPhases, NodePhases, CallPhases
  <2>2. CASE worker'[e] = worker[e] /\ worker[e].phase # "idle"
    <3>1. Knows(worker[e], frame[worker[e].request]) /\ worker[e].request \in Requests
      BY <2>2, Mine, Lease
    <3>2. PICK v, g : v = worker[e] /\ g = frame[v.request]
      OBVIOUS
    <3>3. Knows(v, g) /\ worker'[e] = v /\ frame'[v.request] = g /\ calls' = calls
      BY <2>2, <3>1, <3>2
    <3>4. ~Gone(v.request)' =>
             /\ ~Gone(v.request)
             /\ link[v.request].started => link'[v.request].started
             /\ receipts[v.request] \subseteq receipts'[v.request]
      BY <3>1, <3>2, <1>c, <1>d
    <3> HIDE DEF HostChange
    <3>5. Knows(v, g)'
      BY <3>3, <3>4 DEF Knows, OpenNode
    <3> QED
      BY <3>3, <3>5
  <2> QED
    BY <2>1, <2>2 DEF Idle
<1>6. PurgeKnows'
  <2>1. \A p \in outbox' : Gone(p)'
    BY <1>b, <1>c DEF IInv, TypeOK, PurgeKnows, Gone
  <2>2. ASSUME NEW e \in Drivers, worker'[e].phase \in {"purge", "purging"}
        PROVE  /\ Gone(worker[e].request)'
               /\ worker'[e].phase = "purging" => frame'[worker'[e].request] = NoFrame
    <3>1. worker'[e] = worker[e]
      BY <2>2 DEF Idle
    <3>2. worker[e].request \in Requests
      BY <2>2, <3>1, Lease
    <3>3. Gone(worker[e].request) /\ (worker[e].phase = "purging" => frame[worker[e].request] = NoFrame)
      BY <2>2, <3>1 DEF IInv, PurgeKnows
    <3> QED
      BY <2>2, <3>1, <3>2, <3>3, <1>c DEF Gone
  <2> QED
    BY <2>1, <2>2 DEF PurgeKnows
<1>7. SuccessIsComplete'
  BY <1>a, <1>b DEF IInv, SuccessIsComplete
<1>8. StateIsPurged'
  BY <1>e DEF IInv, StateIsPurged
<1> QED
  BY <1>1, <1>2, <1>3, <1>4, <1>5, <1>6, <1>7, <1>8 DEF IInv

LEMMA RequestSteps ==
  ASSUME IInv, NEW q \in Requests, Accept(q) \/ Cancel(q) \/ Tick(q) \/ DeleteCase(q)
  PROVE  IInv'
<1>0. TypeOK /\ link[q] \in LinkRow /\ receipts[q] \in SUBSET Nodes
  BY DEF IInv, TypeOK
<1>1. CASE Accept(q)
  <2> DEFINE row == [link[q] EXCEPT !.status = "queued"]
  <2>1. row \in LinkRow /\ row.status = "queued" /\ row.started = link[q].started
    BY <1>0 DEF LinkRow
  <2>2. ~Gone(q) /\ link' = [link EXCEPT ![q] = row] /\ UNCHANGED <<receipts, outbox, clock, frame, worker, calls, drives, faults>>
    BY <1>1 DEF Accept, Gone, bounds
  <2>3. run' \in [Requests -> {"none", "running", "completed", "failed"}]
    BY <1>0, <1>1 DEF Accept, TypeOK
  <2> HIDE DEF row
  <2>a. HostChange(q, row, receipts[q])
    BY <1>0, <2>1, <2>2, <2>3 DEF HostChange, TypeOK
  <2> QED
    BY <1>0, <2>1, <2>2, <2>3, <2>a, HostStep
<1>2. CASE Cancel(q)
  <2> DEFINE status == IF link[q].status = "queued" THEN "cancelled" ELSE link[q].status
             row == [link[q] EXCEPT !.cancel = TRUE, !.status = status]
  <2>1. row \in LinkRow /\ row.status \notin {"succeeded", "deleted"} /\ row.started = link[q].started
    BY <1>0, <1>2 DEF Cancel, LinkRow, Terminal
  <2>2. ~Gone(q) /\ UNCHANGED <<receipts, outbox, clock, frame, worker, calls, drives, faults>>
    BY <1>2 DEF Cancel, Gone, bounds
  <2>3. link' = [link EXCEPT ![q] = row]
    BY <1>0, <1>2 DEF Cancel, TypeOK, LinkRow
  <2>4. run' \in [Requests -> {"none", "running", "completed", "failed"}]
    BY <1>0, <1>2 DEF Cancel, RunStatus, TypeOK
  <2> HIDE DEF row
  <2>a. HostChange(q, row, receipts[q])
    BY <1>0, <2>1, <2>2, <2>3, <2>4 DEF HostChange, TypeOK
  <2> QED
    BY <1>0, <2>1, <2>2, <2>3, <2>4, <2>a, HostStep
<1>3. CASE Tick(q)
  <2>1. UNCHANGED <<link, run, receipts, outbox, frame, worker, calls, drives, faults>>
    BY <1>3 DEF Tick, host, bounds
  <2>2. clock' \in [Requests -> 0 .. 2]
    BY <1>0, <1>3 DEF Tick, TypeOK
  <2>3. link' = [link EXCEPT ![q] = link[q]] /\ receipts' = [receipts EXCEPT ![q] = receipts[q]]
    BY <1>0, <2>1 DEF TypeOK
  <2>4. link[q].status = "succeeded" => receipts[q] = Nodes
    BY DEF IInv, SuccessIsComplete
  <2>a. HostChange(q, link[q], receipts[q])
    BY <1>0, <2>1, <2>2, <2>3, <2>4 DEF HostChange, TypeOK, Gone
  <2> QED
    BY <1>0, <2>1, <2>2, <2>3, <2>4, <2>a, HostStep
<1>4. CASE DeleteCase(q)
  <2> DEFINE row == [NoLink EXCEPT !.status = "deleted"]
  <2>1. row \in LinkRow /\ row.status = "deleted"
    BY DEF LinkRow, NoLink
  <2>2. /\ link' = [link EXCEPT ![q] = row] /\ receipts' = [receipts EXCEPT ![q] = {}]
        /\ outbox' = outbox \cup {q}
        /\ UNCHANGED <<clock, frame, worker, calls, drives, faults>>
    BY <1>4 DEF DeleteCase, bounds
  <2>3. run' \in [Requests -> {"none", "running", "completed", "failed"}]
    BY <1>0, <1>4 DEF DeleteCase, TypeOK
  <2>4. q \in outbox' /\ {} \in SUBSET Nodes
    BY <2>2
  <2> HIDE DEF row
  <2>a. HostChange(q, row, {})
    BY <1>0, <2>1, <2>2, <2>3, <2>4 DEF HostChange, TypeOK
  <2> QED
    BY <1>0, <2>1, <2>2, <2>3, <2>4, <2>a, HostStep
<1> QED
  BY <1>1, <1>2, <1>3, <1>4

\* The other drivers do not notice a step that concerns the files or the lease of
\* one request that none of them has.
LEMMA LeaseSteps ==
  ASSUME IInv, NEW d \in Drivers, NEW q \in Requests, Drive(d, q) \/ Purge(d, q)
  PROVE  IInv'
<1>1. PICK command \in {"recover", "inspect", "approve", "purge"} :
         TakeLease(d, q, command) /\ (command = "purge" => q \in outbox)
  BY DEF Drive, Purge
<1> DEFINE w == [Idle EXCEPT !.request = q, !.command = command,
                            !.phase = IF command = "purge" THEN "purge" ELSE "begin"]
<1>2. w \in Driver /\ w.request = q /\ w.todo = {} /\ w.phase = (IF command = "purge" THEN "purge" ELSE "begin")
  BY DEF Idle, Driver, LinkRow, NoLink
<1>3. /\ worker' = [worker EXCEPT ![d] = w] /\ ~Leased(q)
      /\ UNCHANGED <<link, run, receipts, outbox, clock, frame, calls, faults>>
  BY <1>1 DEF TakeLease, host
<1>4. drives' \in [Requests -> Nat]
  BY <1>1 DEF TakeLease, IInv, TypeOK
<1> HIDE DEF w
<1>5. \A e \in Drivers : worker'[e] = IF e = d THEN w ELSE worker[e]
  BY <1>3 DEF IInv, TypeOK
<1>6. TypeOK'
  BY <1>2, <1>3, <1>4 DEF IInv, TypeOK
<1>7. OneLease'
  BY <1>2, <1>3, <1>5, NamesAssumption DEF IInv, OneLease, Leased
<1>8. Permitted' /\ CalledOnce' /\ FilesSound' /\ SuccessIsComplete' /\ StateIsPurged'
  BY <1>3 DEF IInv, Permitted, CalledOnce, FilesSound, FilesOK, SuccessIsComplete, StateIsPurged, Gone
<1>9. SidecarKnows'
  <2> SUFFICES ASSUME NEW e \in Drivers PROVE Knows(worker[e], frame[worker[e].request])'
    BY DEF SidecarKnows
  <2>1. CASE e = d
    BY <1>2, <1>5, <2>1 DEF Knows, SidecarPhases, NodePhases, CallPhases
  <2>2. CASE e # d
    BY <1>3, <1>5, <2>2, KnowsOfOthers
  <2> QED
    BY <2>1, <2>2
<1>10. PurgeKnows'
  BY <1>1, <1>2, <1>3, <1>5 DEF IInv, PurgeKnows, Gone
<1> QED
  BY <1>6, <1>7, <1>8, <1>9, <1>10 DEF IInv

\* The files of a request are gone; its lease, if any, is with the driver that
\* removed them.
LEMMA FilesGone ==
  ASSUME IInv, NEW q \in Requests, frame' = [frame EXCEPT ![q] = NoFrame],
         UNCHANGED <<host, clock, calls, drives>>, faults' \in 0 .. MaxFaults,
         \/ UNCHANGED worker /\ ~Leased(q)
         \/ \E d \in Drivers : /\ worker[d].request = q /\ worker[d].phase = "purge"
                               /\ worker' = [worker EXCEPT ![d].phase = "purging"]
  PROVE  IInv'
<1>1. NoFrame \in FrameState
  BY DEF NoFrame, FrameState, NodeStates
<1>2. \A p \in Requests : frame'[p] = IF p = q THEN NoFrame ELSE frame[p]
  BY DEF IInv, TypeOK
<1>3. UNCHANGED <<link, run, receipts, outbox, clock, calls, drives>>
  BY DEF host
<1>4. worker' \in [Drivers -> Driver]
  <2>1. ASSUME NEW d \in Drivers PROVE [worker[d] EXCEPT !.phase = "purging"] \in Driver
    <3>1. worker[d] \in Driver
      BY DEF IInv, TypeOK
    <3> QED
      BY <3>1 DEF Driver
  <2> QED
    BY <2>1 DEF IInv, TypeOK
<1>5. \A e \in Drivers :
         \/ worker'[e] = worker[e] /\ (worker[e].phase # "idle" => worker[e].request \in Requests \ {q})
         \/ worker[e].phase = "purge" /\ worker[e].request = q
            /\ worker'[e] = [worker[e] EXCEPT !.phase = "purging"]
  <2>1. CASE UNCHANGED worker /\ ~Leased(q)
    BY <2>1, Lease DEF Leased
  <2>2. ASSUME NEW d \in Drivers, worker[d].request = q, worker[d].phase = "purge",
               worker' = [worker EXCEPT ![d].phase = "purging"]
        PROVE  \A e \in Drivers : worker'[e] = (IF e = d THEN [worker[d] EXCEPT !.phase = "purging"] ELSE worker[e])
                  /\ (e # d /\ worker[e].phase # "idle" => worker[e].request \in Requests \ {q})
    BY <2>2, Lease DEF IInv, TypeOK
  <2> QED
    BY <2>1, <2>2
<1>6. TypeOK'
  BY <1>1, <1>3, <1>4 DEF IInv, TypeOK
<1>7. OneLease'
  <2>1. \A e \in Drivers : /\ worker'[e].request = worker[e].request
                           /\ worker'[e].phase = "idle" <=> worker[e].phase = "idle"
    BY <1>5 DEF IInv, TypeOK, Driver
  <2> QED
    BY <2>1 DEF IInv, OneLease
<1>8. Permitted' /\ CalledOnce' /\ SuccessIsComplete'
  BY <1>3 DEF IInv, Permitted, CalledOnce, SuccessIsComplete, Gone
<1>9. FilesSound'
  BY <1>2, <1>3 DEF IInv, FilesSound, FilesOK, NoFrame, Gone
<1>10. StateIsPurged'
  BY <1>2, <1>3 DEF IInv, StateIsPurged, Gone
<1>11. SidecarKnows'
  <2> SUFFICES ASSUME NEW e \in Drivers PROVE Knows(worker[e], frame[worker[e].request])'
    BY DEF SidecarKnows
  <2>1. CASE worker'[e].phase \in {"idle", "purging"}
    BY <2>1 DEF Knows, SidecarPhases, NodePhases, CallPhases
  <2>2. CASE worker'[e] = worker[e] /\ worker[e].phase # "idle" /\ worker[e].request \in Requests \ {q}
    BY <1>2, <1>3, <2>2, KnowsOfOthers
  <2>3. CASE worker[e].phase = "idle" /\ worker'[e] = worker[e]
    BY <2>1, <2>3
  <2>4. CASE worker'[e] = [worker[e] EXCEPT !.phase = "purging"]
    <3>1. worker[e] \in Driver
      BY DEF IInv, TypeOK
    <3>2. worker'[e].phase = "purging"
      BY <2>4, <3>1 DEF Driver
    <3> QED
      BY <2>1, <3>2
  <2> QED
    BY <1>5, <2>2, <2>3, <2>4
<1>12. PurgeKnows'
  <2>1. \A p \in outbox' : Gone(p)'
    BY <1>3 DEF IInv, PurgeKnows, Gone
  <2>2. ASSUME NEW e \in Drivers, worker'[e].phase \in {"purge", "purging"}
        PROVE  /\ Gone(worker[e].request)'
               /\ worker'[e].phase = "purging" => frame'[worker'[e].request] = NoFrame
    BY <1>2, <1>3, <1>5, <2>2 DEF IInv, PurgeKnows, TypeOK, Driver, Gone
  <2> QED
    BY <2>1, <2>2 DEF PurgeKnows
<1> QED
  BY <1>6, <1>7, <1>8, <1>9, <1>10, <1>11, <1>12 DEF IInv

LEMMA LoseStateStep ==
  ASSUME IInv, NEW q \in Requests, LoseState(q)
  PROVE  IInv'
<1>1. faults' \in 0 .. MaxFaults
  BY BoundsAssumption DEF LoseState, Fault, IInv, TypeOK
<1> QED
  BY <1>1, FilesGone DEF LoseState

LEMMA PurgeSteps ==
  ASSUME IInv, NEW d \in Drivers, PurgeStep(d)
  PROVE  IInv'
<1> DEFINE q == worker[d].request
<1>0. q \in Requests /\ q # None /\ \A e \in Drivers : worker[e].request = q => e = d
  BY Lease DEF PurgeStep
<1>1. CASE worker[d].phase = "purge"
  <2>1. /\ frame' = [frame EXCEPT ![q] = NoFrame]
        /\ worker' = [worker EXCEPT ![d].phase = "purging"]
        /\ UNCHANGED <<host, clock, calls, drives, faults>>
    BY <1>1 DEF PurgeStep, PurgeOrder, Goto, host, bounds
  <2>2. faults' \in 0 .. MaxFaults
    BY <2>1 DEF IInv, TypeOK
  <2> QED
    BY <1>0, <1>1, <2>1, <2>2, FilesGone
<1>2. CASE worker[d].phase = "purging"
  <2>1. /\ frame' = frame /\ outbox' = outbox \ {q}
        /\ worker' = [worker EXCEPT ![d] = Idle]
        /\ UNCHANGED <<link, run, receipts, clock, calls, drives, faults>>
    BY <1>0, <1>2 DEF PurgeStep, PurgeOrder, Release, bounds, IInv, TypeOK
  <2>2. \A e \in Drivers : worker'[e] = IF e = d THEN Idle ELSE worker[e]
    BY <2>1 DEF IInv, TypeOK
  <2>3. Idle \in Driver
    BY DEF Idle, Driver, LinkRow, NoLink
  <2>4. TypeOK'
    BY <2>1, <2>3 DEF IInv, TypeOK
  <2>5. OneLease'
    BY <1>0, <2>2 DEF IInv, OneLease, Idle
  <2>6. Permitted' /\ CalledOnce' /\ FilesSound' /\ SuccessIsComplete'
    BY <2>1 DEF IInv, Permitted, CalledOnce, FilesSound, FilesOK, SuccessIsComplete, Gone
  <2>7. StateIsPurged'
    BY <1>2, <2>1 DEF IInv, StateIsPurged, PurgeKnows, Gone
  <2>8. SidecarKnows'
    <3> SUFFICES ASSUME NEW e \in Drivers PROVE Knows(worker[e], frame[worker[e].request])'
      BY DEF SidecarKnows
    <3>1. CASE e = d
      BY <2>2, <3>1 DEF Idle, Knows, SidecarPhases, NodePhases, CallPhases
    <3>2. CASE e # d
      BY <2>1, <2>2, <3>2, KnowsOfOthers
    <3> QED
      BY <3>1, <3>2
  <2>9. PurgeKnows'
    BY <2>1, <2>2 DEF IInv, PurgeKnows, Gone, Idle
  <2> QED
    BY <2>4, <2>5, <2>6, <2>7, <2>8, <2>9 DEF IInv
<1> QED
  BY <1>1, <1>2 DEF PurgeStep

LEMMA BeginStep ==
  ASSUME IInv, NEW d \in Drivers, Begin(d)
  PROVE  IInv'
<1> DEFINE q == worker[d].request
           status == IF Expired(q) THEN "exhausted"
                     ELSE IF link[q].status = "queued" /\ worker[d].command # "inspect" THEN "running"
                     ELSE link[q].status
           row == [link[q] EXCEPT !.status = status]
           w == [worker[d] EXCEPT !.phase = "find", !.row = link[q]]
<1>0. TypeOK /\ worker[d].phase = "begin" /\ q \in Requests /\ link[q] \in LinkRow
      /\ receipts[q] \in SUBSET Nodes /\ worker[d] \in Driver
  BY Lease, Mine DEF IInv, TypeOK, Begin
<1>1. /\ row \in LinkRow /\ row.started = link[q].started
      /\ row.status = "deleted" <=> Gone(q)
      /\ row.status = "succeeded" => link[q].status = "succeeded"
  <2>1. status \in {"none", "queued", "running", "awaiting_approval", "unknown", "deleted"} \cup Terminal
    BY <1>0 DEF LinkRow, Terminal
  <2>2. (status = "deleted" <=> Gone(q)) /\ (status = "succeeded" => link[q].status = "succeeded")
    BY DEF Expired, Gone
  <2> HIDE DEF status
  <2> QED
    BY <1>0, <2>1, <2>2 DEF LinkRow
<1>2. /\ link' = [link EXCEPT ![q] = row]
      /\ worker' = [worker EXCEPT ![d] = Idle] \/ worker' = [worker EXCEPT ![d] = w]
      /\ UNCHANGED <<receipts, outbox, clock, frame, calls, drives, faults>>
  BY <1>0 DEF Begin, Release, bounds, TypeOK, Driver
<1>3. run' \in [Requests -> {"none", "running", "completed", "failed"}]
  BY <1>0 DEF Begin, RunStatus, TypeOK
<1>4. w \in Driver /\ w.request = q /\ w.phase = "find" /\ w.todo = {}
  <2>1. Knows(worker[d], frame[q])
    BY <1>0, Mine
  <2>2. worker[d].todo = {}
    BY <1>0, <2>1 DEF Knows
  <2> QED
    BY <1>0, <2>2 DEF Driver, SidecarPhases
<1>5. Idle \in Driver
  BY DEF Idle, Driver, LinkRow, NoLink
<1>6. link[q].status = "succeeded" => receipts[q] = Nodes
  BY <1>0 DEF IInv, SuccessIsComplete
<1>7. receipts' = [receipts EXCEPT ![q] = receipts[q]] /\ clock' \in [Requests -> 0 .. 2]
  BY <1>0, <1>2 DEF TypeOK
<1> HIDE DEF row, w
<1>8. worker' \in [Drivers -> Driver]
  BY <1>0, <1>2, <1>4, <1>5 DEF TypeOK
<1>9. \A e \in Drivers : worker'[e] = worker[e] \/ (e = d /\ worker'[e] \in {Idle, w})
  BY <1>0, <1>2 DEF TypeOK
<1>10. worker'[d] = w => Knows(worker[d], frame[worker[d].request])'
  BY <1>4 DEF Knows, SidecarPhases, NodePhases, CallPhases
<1>11. \A e \in Drivers :
          \/ worker'[e] = worker[e]
          \/ /\ worker[e].request = q /\ worker[e].phase # "idle"
             /\ \/ worker'[e] = Idle
                \/ /\ worker'[e].request = q
                   /\ worker'[e].phase \notin {"idle", "purge", "purging"}
                   /\ Knows(worker[e], frame[worker[e].request])'
  BY <1>0, <1>4, <1>9, <1>10
<1>12. /\ Gone(q) => row.status = "deleted"
       /\ row.status = "deleted" => Gone(q) \/ q \in outbox'
       /\ row.status # "deleted" => (link[q].started => row.started) /\ receipts[q] \subseteq receipts[q]
       /\ row.status = "succeeded" => receipts[q] = Nodes
  BY <1>1, <1>6
<1>13. outbox' = outbox /\ UNCHANGED <<frame, calls, drives, faults>>
  BY <1>2
<1> HIDE DEF q
<1>a. HostChange(q, row, receipts[q])
  BY <1>0, <1>1, <1>2, <1>3, <1>7, <1>8, <1>11, <1>12, <1>13 DEF HostChange, q
<1> QED
  BY <1>0, <1>1, <1>2, <1>3, <1>7, <1>8, <1>11, <1>12, <1>13, <1>a, HostStep

LEMMA AuthorizeStep ==
  ASSUME IInv, NEW d \in Drivers, AuthorizeStart(d)
  PROVE  IInv'
<1> DEFINE q == worker[d].request
           row == [link[q] EXCEPT !.started = TRUE]
<1>0. /\ TypeOK /\ worker[d].phase = "start" /\ ~Gone(q) /\ q \in Requests /\ link[q] \in LinkRow
      /\ receipts[q] \in SUBSET Nodes /\ worker[d] \in Driver
  BY Lease, Mine DEF IInv, TypeOK, AuthorizeStart, At
<1>1. Knows(worker[d], frame[q]) /\ worker[d].todo = {}
  BY <1>0, Mine DEF Knows
<1>2. CASE StartAllowed(q)
  <2> DEFINE w == [worker[d] EXCEPT !.phase = "create"]
  <2>1. row \in LinkRow /\ row.started /\ row.status = link[q].status
    BY <1>0 DEF LinkRow
  <2>2. w \in Driver /\ w.request = q /\ w.phase = "create" /\ w.todo = {}
    BY <1>0, <1>1 DEF Driver, SidecarPhases
  <2>3. /\ link' = [link EXCEPT ![q] = row] /\ worker' = [worker EXCEPT ![d] = w]
        /\ UNCHANGED <<run, receipts, outbox, clock, frame, calls, drives, faults>>
    BY <1>0, <1>2 DEF AuthorizeStart, Goto, bounds, TypeOK, LinkRow, Driver
  <2>4. \A n \in Nodes : calls[q][n] = 0
    BY <1>0, <1>2 DEF StartAllowed, IInv, Permitted
  <2>5. link[q].status = "succeeded" => receipts[q] = Nodes
    BY <1>0 DEF IInv, SuccessIsComplete
  <2>6. receipts' = [receipts EXCEPT ![q] = receipts[q]]
    BY <1>0, <2>3 DEF TypeOK
  <2> HIDE DEF row, w
  <2>7. worker' \in [Drivers -> Driver] /\ \A e \in Drivers : worker'[e] = IF e = d THEN w ELSE worker[e]
    BY <1>0, <2>2, <2>3 DEF TypeOK
  <2>8. link'[q].started
    BY <1>0, <2>1, <2>3 DEF TypeOK
  <2>9. Knows(worker[d], frame[worker[d].request])'
    BY <2>2, <2>3, <2>4, <2>7, <2>8 DEF Knows, SidecarPhases, NodePhases, CallPhases
  <2>10. \A e \in Drivers :
            \/ worker'[e] = worker[e]
            \/ /\ worker[e].request = q /\ worker[e].phase # "idle"
               /\ \/ worker'[e] = Idle
                  \/ /\ worker'[e].request = q
                     /\ worker'[e].phase \notin {"idle", "purge", "purging"}
                     /\ Knows(worker[e], frame[worker[e].request])'
    BY <1>0, <2>2, <2>7, <2>9
  <2>11. /\ run' \in [Requests -> {"none", "running", "completed", "failed"}]
         /\ clock' \in [Requests -> 0 .. 2]
    BY <1>0, <2>3 DEF TypeOK
  <2>12. row.status # "deleted"
    BY <1>0, <2>1 DEF Gone
  <2>13. /\ link' = [link EXCEPT ![q] = row] /\ outbox' = outbox
         /\ UNCHANGED <<frame, calls, drives, faults>>
         /\ worker' \in [Drivers -> Driver]
    BY <2>3, <2>7
  <2>14. (link[q].started => row.started) /\ receipts[q] \subseteq receipts[q]
         /\ (row.status = "succeeded" => receipts[q] = Nodes)
    BY <2>1, <2>5
  <2>a. HostChange(q, row, receipts[q])
    BY <1>0, <2>1, <2>6, <2>10, <2>11, <2>12, <2>13, <2>14 DEF HostChange
  <2> QED
    BY <1>0, <2>1, <2>6, <2>10, <2>11, <2>12, <2>13, <2>14, <2>a, HostStep
<1>3. CASE ~StartAllowed(q)
  <2> DEFINE w == [worker[d] EXCEPT !.phase = "failed"]
  <2>1. w \in Driver /\ w.request = q /\ w.phase = "failed"
    BY <1>0 DEF Driver
  <2>2. /\ worker' = [worker EXCEPT ![d] = w]
        /\ UNCHANGED <<host, clock, frame, calls, drives, faults>>
    BY <1>0, <1>3 DEF AuthorizeStart, Goto, bounds, host, TypeOK
  <2> HIDE DEF w
  <2>3. Knows(w, frame[q])
    BY <2>1 DEF Knows, SidecarPhases, NodePhases, CallPhases
  <2> QED
    BY <1>0, <2>1, <2>2, <2>3, PhaseStep DEF TypeOK
<1> QED
  BY <1>2, <1>3

\* HostStep where the driver of the request gives its lease back.
LEMMA ReleaseStep ==
  ASSUME IInv, NEW d \in Drivers, worker[d].phase # "idle", NEW row \in LinkRow,
         link' = [link EXCEPT ![worker[d].request] = row],
         run' \in [Requests -> {"none", "running", "completed", "failed"}],
         row.status = "deleted" <=> Gone(worker[d].request),
         row.status # "deleted" => row.started = link[worker[d].request].started,
         row.status = "succeeded" => receipts[worker[d].request] = Nodes,
         worker' = [worker EXCEPT ![d] = Idle],
         UNCHANGED <<receipts, outbox, clock, frame, calls, drives, faults>>
  PROVE  IInv'
<1> DEFINE q == worker[d].request
<1>0. q \in Requests /\ receipts[q] \in SUBSET Nodes
  BY Lease DEF IInv, TypeOK
<1>1. Idle \in Driver
  BY DEF Idle, Driver, LinkRow, NoLink
<1>2. worker' \in [Drivers -> Driver] /\ \A e \in Drivers : worker'[e] = IF e = d THEN Idle ELSE worker[e]
  BY <1>1 DEF IInv, TypeOK
<1>3. /\ receipts' = [receipts EXCEPT ![q] = receipts[q]] /\ clock' \in [Requests -> 0 .. 2]
      /\ UNCHANGED <<frame, calls, drives, faults>> /\ outbox' = outbox
  BY DEF IInv, TypeOK
<1>4. \A e \in Drivers :
         \/ worker'[e] = worker[e]
         \/ /\ worker[e].request = q /\ worker[e].phase # "idle"
            /\ \/ worker'[e] = Idle
               \/ /\ worker'[e].request = q
                  /\ worker'[e].phase \notin {"idle", "purge", "purging"}
                  /\ Knows(worker[e], frame[worker[e].request])'
  BY <1>2
<1>5. /\ Gone(q) => row.status = "deleted"
      /\ row.status = "deleted" => Gone(q) \/ q \in outbox'
      /\ row.status # "deleted" => (link[q].started => row.started) /\ receipts[q] \subseteq receipts[q]
      /\ row.status = "succeeded" => receipts[q] = Nodes
  OBVIOUS
<1> HIDE DEF q
<1>6. link' = [link EXCEPT ![q] = row]
  BY DEF q
<1>a. HostChange(q, row, receipts[q])
  BY <1>0, <1>2, <1>3, <1>4, <1>5, <1>6 DEF HostChange
<1> QED
  BY <1>0, <1>2, <1>3, <1>4, <1>5, <1>6, <1>a, HostStep

LEMMA ProjectStep ==
  ASSUME IInv, NEW d \in Drivers, Project(d)
  PROVE  IInv'
<1> DEFINE q == worker[d].request
           row == [link[q] EXCEPT !.cursor = frame[q].published, !.status = frame[q].status]
<1>0. /\ TypeOK /\ worker[d].phase = "project" /\ q \in Requests /\ link[q] \in LinkRow
      /\ frame[q] \in FrameState /\ FilesOK(q, frame[q]) /\ receipts[q] \subseteq Nodes
  BY Lease, Mine DEF IInv, TypeOK, Project
<1>1. /\ worker' = [worker EXCEPT ![d] = Idle]
      /\ UNCHANGED <<receipts, outbox, clock, frame, calls, drives, faults>>
  BY DEF Project, Release, bounds
<1>2. run' \in [Requests -> {"none", "running", "completed", "failed"}]
  BY <1>0 DEF Project, RunStatus, TypeOK
<1>3. CASE ~Gone(q) /\ Complete(q)
  <2>1. row \in LinkRow /\ row.status = frame[q].status /\ row.started = link[q].started
    BY <1>0 DEF LinkRow, FrameState
  <2>2. row.status # "deleted"
    BY <1>0, <2>1 DEF FrameState, Terminal
  <2>3. row.status = "succeeded" => receipts[q] = Nodes
    BY <1>0, <1>3, <2>1 DEF FilesOK
  <2>4. link' = [link EXCEPT ![q] = row]
    BY <1>3 DEF Project
  <2> HIDE DEF row
  <2> QED
    BY <1>0, <1>1, <1>2, <1>3, <2>1, <2>2, <2>3, <2>4, ReleaseStep
<1>4. CASE ~(~Gone(q) /\ Complete(q))
  <2>1. link' = [link EXCEPT ![q] = link[q]]
    BY <1>0, <1>4 DEF Project, TypeOK
  <2>2. link[q].status = "succeeded" => receipts[q] = Nodes
    BY <1>0 DEF IInv, SuccessIsComplete
  <2> QED
    BY <1>0, <1>1, <1>2, <2>1, <2>2, ReleaseStep DEF Gone
<1> QED
  BY <1>3, <1>4

LEMMA MarkUnknownStep ==
  ASSUME IInv, NEW d \in Drivers, MarkUnknown(d)
  PROVE  IInv'
<1> DEFINE q == worker[d].request
           row == IF Gone(q) THEN link[q] ELSE Unknown(q)
<1>0. /\ TypeOK /\ worker[d].phase = "failed" /\ q \in Requests /\ link[q] \in LinkRow
      /\ run' = run
  BY Lease DEF IInv, TypeOK, MarkUnknown
<1>1. /\ link' = [link EXCEPT ![q] = row]
      /\ worker' = [worker EXCEPT ![d] = Idle]
      /\ UNCHANGED <<receipts, outbox, clock, frame, calls, drives, faults>>
  BY <1>0 DEF MarkUnknown, Release, bounds, TypeOK
<1>2. row \in LinkRow /\ row.started = link[q].started /\ row.status \in {link[q].status, "unknown"}
      /\ (Gone(q) => row = link[q])
  BY <1>0 DEF Unknown, LinkRow
<1>3. (row.status = "deleted" <=> Gone(q)) /\ (row.status = "succeeded" => receipts[q] = Nodes)
  BY <1>0, <1>2 DEF IInv, SuccessIsComplete, Gone
<1>4. run' \in [Requests -> {"none", "running", "completed", "failed"}]
  BY <1>0 DEF TypeOK
<1> HIDE DEF row
<1> QED
  BY <1>0, <1>1, <1>2, <1>3, <1>4, ReleaseStep

LEMMA WriteStep ==
  ASSUME IInv, NEW d \in Drivers, Write(d)
  PROVE  IInv'
<1> DEFINE q == worker[d].request
           n == worker[d].node
<1>0. /\ TypeOK /\ worker[d].phase = "call" /\ ~Gone(q) /\ q \in Requests /\ link[q] \in LinkRow
      /\ receipts[q] \in SUBSET Nodes /\ worker[d] \in Driver /\ Knows(worker[d], frame[q])
  BY Lease, Mine DEF IInv, TypeOK, Write, At
<1>1. n \in Nodes
  BY <1>0 DEF Knows, NodePhases, CallPhases
<1>2. CASE WriteAllowed(d)
  <2> DEFINE w == [worker[d] EXCEPT !.phase = "applied"]
             rs == receipts[q] \cup {n}
  <2>1. w \in Driver /\ w.request = q /\ w.phase = "applied" /\ w.todo = worker[d].todo /\ w.node = n
    BY <1>0 DEF Driver, SidecarPhases
  <2>2. /\ receipts' = [receipts EXCEPT ![q] = rs] /\ worker' = [worker EXCEPT ![d] = w]
        /\ UNCHANGED <<link, run, outbox, clock, frame, calls, drives, faults>>
    BY <1>0, <1>2 DEF Write, Goto, bounds, TypeOK
  <2>3. rs \in SUBSET Nodes /\ (link[q].status = "succeeded" => rs = Nodes)
    BY <1>0, <1>1 DEF IInv, SuccessIsComplete
  <2>4. n \in rs
    OBVIOUS
  <2> HIDE DEF rs, w
  <2>5. worker' \in [Drivers -> Driver] /\ \A e \in Drivers : worker'[e] = IF e = d THEN w ELSE worker[e]
    BY <1>0, <2>1, <2>2 DEF TypeOK
  <2>6. n \in receipts'[q]
    BY <1>0, <2>2, <2>4 DEF TypeOK
  <2>7. Knows(worker[d], frame[worker[d].request])'
    BY <1>0, <2>1, <2>2, <2>5, <2>6 DEF Knows, SidecarPhases, NodePhases, CallPhases, OpenNode, Gone
  <2>8. \A e \in Drivers :
           \/ worker'[e] = worker[e]
           \/ /\ worker[e].request = q /\ worker[e].phase # "idle"
              /\ \/ worker'[e] = Idle
                 \/ /\ worker'[e].request = q
                    /\ worker'[e].phase \notin {"idle", "purge", "purging"}
                    /\ Knows(worker[e], frame[worker[e].request])'
    BY <1>0, <2>1, <2>5, <2>7
  <2>9. /\ link' = [link EXCEPT ![q] = link[q]] /\ outbox' = outbox
        /\ run' \in [Requests -> {"none", "running", "completed", "failed"}]
        /\ clock' \in [Requests -> 0 .. 2]
        /\ UNCHANGED <<frame, calls, drives, faults>>
    BY <1>0, <2>2 DEF TypeOK
  <2>10. receipts[q] \subseteq rs /\ link[q].status # "deleted"
    BY <1>0 DEF rs, Gone
  <2>a. HostChange(q, link[q], rs)
    BY <1>0, <2>2, <2>3, <2>5, <2>8, <2>9, <2>10 DEF HostChange
  <2> QED
    BY <1>0, <2>2, <2>3, <2>5, <2>8, <2>9, <2>10, <2>a, HostStep
<1>3. CASE ~WriteAllowed(d)
  <2> DEFINE w == [worker[d] EXCEPT !.phase = "denied"]
  <2>1. w \in Driver /\ w.request = q /\ w.phase = "denied" /\ w.todo = worker[d].todo /\ w.node = n
    BY <1>0 DEF Driver, SidecarPhases
  <2>2. /\ worker' = [worker EXCEPT ![d] = w]
        /\ UNCHANGED <<host, clock, frame, calls, drives, faults>>
    BY <1>0, <1>3 DEF Write, Goto, bounds, host, TypeOK
  <2> HIDE DEF w
  <2>3. Knows(w, frame[q])
    BY <1>0, <2>1 DEF Knows, SidecarPhases, NodePhases, CallPhases
  <2>4. faults' \in 0 .. MaxFaults
    BY <1>0, <2>2 DEF TypeOK
  <2> QED
    BY <1>0, <2>1, <2>2, <2>3, <2>4, PhaseStep
<1> QED
  BY <1>2, <1>3

\* Only status, nodes and journal of the files matter.
LEMMA SameFiles ==
  ASSUME NEW q, NEW w, NEW f, NEW g,
         g.status = f.status, g.node = f.node, g.journal = f.journal
  PROVE  /\ FilesOK(q, f) => FilesOK(q, g)
         /\ Knows(w, f) => Knows(w, g)
BY DEF FilesOK, Knows, OpenNode

\* What holds where the host answers a sidecar.
LEMMA Answering ==
  ASSUME IInv, NEW d \in Drivers, worker[d].phase \in SidecarPhases, ~Gone(worker[d].request)
  PROVE  /\ worker[d].phase # "idle"
         /\ worker[d].request \in Requests
         /\ worker[d] \in Driver
         /\ Heard(worker[d].request) \in FrameState
         /\ Heard(worker[d].request).status = frame[worker[d].request].status
         /\ FilesOK(worker[d].request, Heard(worker[d].request))
         /\ Knows(worker[d], Heard(worker[d].request))
         /\ frame[worker[d].request] \in FrameState
<1>1. worker[d].phase # "idle" /\ TypeOK
  BY DEF SidecarPhases, IInv
<1> QED
  BY <1>1, Lease, Mine, HeardOK, SameFiles

\* A step of the sidecar that writes sound files at once.
LEMMA FrameStep ==
  ASSUME IInv, NEW d \in Drivers, worker[d].phase # "idle", ~Gone(worker[d].request),
         NEW g \in FrameState, NEW w \in Driver,
         frame' = [frame EXCEPT ![worker[d].request] = g],
         worker' = [worker EXCEPT ![d] = w],
         UNCHANGED <<host, clock, calls, bounds>>,
         w.request = worker[d].request, w.phase \notin {"idle", "purge", "purging"},
         Knows(w, g),
         FilesOK(worker[d].request, g)
  PROVE  IInv'
<1>1. UNCHANGED <<host, clock, calls, drives>> /\ faults' \in 0 .. MaxFaults
  BY DEF bounds, IInv, TypeOK
<1> QED
  BY <1>1, DriverStep

\* A step of the sidecar that leaves the files alone.
LEMMA QuietStep ==
  ASSUME IInv, NEW d \in Drivers, worker[d].phase # "idle", NEW w \in Driver,
         worker' = [worker EXCEPT ![d] = w],
         UNCHANGED <<host, clock, frame, calls, bounds>>,
         w.request = worker[d].request, w.phase \notin {"idle", "purge", "purging"},
         Knows(w, frame[worker[d].request])
  PROVE  IInv'
<1>1. UNCHANGED <<host, clock, frame, calls, drives>> /\ faults' \in 0 .. MaxFaults
  BY DEF bounds, IInv, TypeOK
<1> QED
  BY <1>1, PhaseStep

LEMMA FindStep ==
  ASSUME IInv, NEW d \in Drivers, FindRun(d)
  PROVE  IInv'
<1> DEFINE q == worker[d].request
           g == Heard(q)
           resumed == [g EXCEPT !.published = g.revision]
<1>0. worker[d].phase = "find" /\ ~Gone(q) /\ worker[d].phase \in SidecarPhases
  BY DEF FindRun, At, SidecarPhases
<1>1. /\ q \in Requests /\ worker[d] \in Driver /\ g \in FrameState /\ g.status = frame[q].status
      /\ FilesOK(q, g) /\ Knows(worker[d], g) /\ worker[d].todo = {} /\ worker \in [Drivers -> Driver]
  BY <1>0, Answering DEF Knows, IInv, TypeOK
<1>2. UNCHANGED <<host, clock, calls, bounds>>
  BY DEF FindRun
<1>3. ASSUME NEW phase \in {"failed", "start"}, Goto(d, phase), UNCHANGED frame
      PROVE  IInv'
  <2> DEFINE w == [worker[d] EXCEPT !.phase = phase]
  <2>1. w \in Driver /\ w.request = q /\ w.phase = phase /\ w.todo = {}
    BY <1>1 DEF Driver, SidecarPhases
  <2>2. worker' = [worker EXCEPT ![d] = w]
    BY <1>1, <1>3 DEF Goto
  <2> HIDE DEF w
  <2>3. Knows(w, frame[q])
    BY <2>1 DEF Knows, SidecarPhases, NodePhases, CallPhases
  <2> QED
    BY <1>0, <1>2, <1>3, <2>1, <2>2, <2>3, QuietStep
<1>4. ASSUME NEW phase \in {"failed", "approve", "result"}, Goto(d, phase),
             frame' = [frame EXCEPT ![q] = g], frame[q].status # "none"
      PROVE  IInv'
  <2> DEFINE w == [worker[d] EXCEPT !.phase = phase]
  <2>1. w \in Driver /\ w.request = q /\ w.phase = phase /\ w.todo = {}
    BY <1>1 DEF Driver, SidecarPhases
  <2>2. worker' = [worker EXCEPT ![d] = w]
    BY <1>1, <1>4 DEF Goto
  <2> HIDE DEF w, g
  <2>3. Knows(w, g)
    BY <1>1, <1>4, <2>1 DEF Knows, SidecarPhases, NodePhases, CallPhases
  <2> QED
    BY <1>0, <1>1, <1>2, <1>4, <2>1, <2>2, <2>3, FrameStep
<1>5. ASSUME frame[q].status # "none", frame' = [frame EXCEPT ![q] = resumed],
             NEW phase \in {"result", "settle"},
             worker' = [worker EXCEPT ![d].phase = phase, ![d].todo = Unsettled(g)]
      PROVE  IInv'
  <2> DEFINE w == [worker[d] EXCEPT !.phase = phase, !.todo = Unsettled(g)]
  <2>1. w \in Driver /\ w.request = q /\ w.phase = phase /\ w.todo = Unsettled(g)
    BY <1>1 DEF Driver, SidecarPhases, Unsettled
  <2>2. worker' = [worker EXCEPT ![d] = w]
    BY <1>1, <1>5
  <2> HIDE DEF w, g
  <2>3. resumed \in FrameState /\ resumed.status = g.status /\ resumed.node = g.node /\ resumed.journal = g.journal
    BY <1>1 DEF FrameState
  <2> HIDE DEF resumed
  <2>4. Knows(w, g)
    BY <1>1, <1>5, <2>1 DEF Knows, SidecarPhases, NodePhases, CallPhases, Unsettled, OpenNode
  <2> QED
    BY <1>0, <1>1, <1>2, <1>5, <2>1, <2>2, <2>3, <2>4, SameFiles, FrameStep
<1> QED
  BY <1>3, <1>4, <1>5 DEF FindRun

LEMMA CreateStep ==
  ASSUME IInv, NEW d \in Drivers, CreateRun(d)
  PROVE  IInv'
<1> DEFINE q == worker[d].request
           g == [NoFrame EXCEPT !.status = "running"]
           w == [worker[d] EXCEPT !.phase = "settle", !.command = "start"]
<1>0. worker[d].phase = "create" /\ ~Gone(q) /\ worker[d].phase \in SidecarPhases /\ Save(d, g, w)
  BY DEF CreateRun, At, SidecarPhases
<1>1. worker[d] \in Driver /\ Knows(worker[d], Heard(q))
  BY <1>0, Answering
<1>2. /\ g \in FrameState /\ g.status = "running"
      /\ \A n \in Nodes : g.node[n] = "pending" /\ g.journal[n] = "none"
  BY DEF FrameState, NoFrame, NodeStates
<1>3. w \in Driver /\ w.request = q /\ w.phase = "settle" /\ w.todo = {}
  BY <1>0, <1>1 DEF Driver, SidecarPhases, Knows
<1>4. link[q].started /\ \A n \in Nodes : calls[q][n] = 0
  BY <1>0, <1>1 DEF Knows
<1> HIDE DEF g, w
<1>5. FilesOK(q, g)
  BY <1>2, <1>4 DEF FilesOK
<1>6. Knows(w, g)
  BY <1>2, <1>3 DEF Knows, SidecarPhases, NodePhases, CallPhases
<1> QED
  BY <1>0, <1>2, <1>3, <1>5, <1>6, Answering, SaveStep

\* A node gets another state.
LEMMA SetNode ==
  ASSUME NEW g \in FrameState, NEW n, NEW x \in NodeStates
  PROVE  LET h == [g EXCEPT !.node[n] = x]
         IN  /\ h \in FrameState
             /\ h.node = [g.node EXCEPT ![n] = x]
             /\ h.status = g.status /\ h.journal = g.journal
BY DEF FrameState

\* A run that is not yet over gets another status.
LEMMA SetStatus ==
  ASSUME NEW g \in FrameState, NEW s \in {"running", "awaiting_approval"} \cup Terminal
  PROVE  LET h == [g EXCEPT !.status = s]
         IN  /\ h \in FrameState
             /\ h.status = s /\ h.node = g.node /\ h.journal = g.journal
BY DEF FrameState

\* The journal gets an entry.
LEMMA SetJournal ==
  ASSUME NEW g \in FrameState, NEW n \in Nodes, NEW x \in {"started", "completed", "failed"}
  PROVE  LET h == [g EXCEPT !.journal[n] = x]
         IN  /\ h \in FrameState
             /\ h.journal = [g.journal EXCEPT ![n] = x]
             /\ h.status = g.status /\ h.node = g.node
BY DEF FrameState

LEMMA ApproveStep ==
  ASSUME IInv, NEW d \in Drivers, ApproveNode(d)
  PROVE  IInv'
<1> DEFINE q == worker[d].request
           f == Heard(q)
           g == [f EXCEPT !.published = frame[q].revision]
           n == First(Waiting(g))
           a == [g EXCEPT !.node[n] = "admitted"]
           admitted == [a EXCEPT !.status = "running"]
<1>0. worker[d].phase = "approve" /\ ~Gone(q) /\ worker[d].phase \in SidecarPhases
  BY DEF ApproveNode, At, SidecarPhases
<1>1. /\ worker[d].phase # "idle"
      /\ q \in Requests /\ worker[d] \in Driver /\ f \in FrameState /\ f.status = frame[q].status
      /\ FilesOK(q, f) /\ Knows(worker[d], f) /\ frame[q] \in FrameState
  BY <1>0, Answering
<1>2. f.status # "none"
  BY <1>0, <1>1 DEF Knows
<1>3. g \in FrameState /\ g.status = f.status /\ g.node = f.node /\ g.journal = f.journal
  BY <1>1 DEF FrameState
<1>4. FilesOK(q, g)
  <2> HIDE DEF f, g
  <2> QED
    BY <1>1, <1>3, SameFiles
<1>5. CASE StopReason(q) # "none"
  <2> DEFINE w == [worker[d] EXCEPT !.phase = "finish", !.stop = StopReason(q)]
  <2>1. w \in Driver /\ w.request = q /\ w.phase = "finish"
    BY <1>1 DEF Driver, SidecarPhases, StopReason
  <2>2. /\ frame' = [frame EXCEPT ![q] = g] /\ worker' = [worker EXCEPT ![d] = w]
        /\ UNCHANGED <<host, clock, calls, bounds>>
    BY <1>5 DEF ApproveNode, IInv, TypeOK
  <2> HIDE DEF w, f, g
  <2>3. Knows(w, g)
    BY <1>2, <1>3, <2>1 DEF Knows, SidecarPhases, NodePhases, CallPhases
  <2> QED
    BY <1>0, <1>1, <1>3, <1>4, <2>1, <2>2, <2>3, FrameStep
<1>6. CASE StopReason(q) = "none"
  <2> DEFINE w == [worker[d] EXCEPT !.phase = "settle", !.todo = Unsettled(admitted)]
  <2>1. Save(d, admitted, w)
    BY <1>6 DEF ApproveNode
  <2> HIDE DEF f, g, n
  <2>2. a \in FrameState /\ a.node = [g.node EXCEPT ![n] = "admitted"] /\ a.journal = g.journal
    BY <1>3, SetNode DEF NodeStates
  <2> HIDE DEF a
  <2>3. admitted \in FrameState /\ admitted.status = "running" /\ admitted.node = a.node
        /\ admitted.journal = a.journal
    BY <2>2, SetStatus
  <2> HIDE DEF admitted
  <2>4. w \in Driver /\ w.request = q /\ w.phase = "settle" /\ w.todo = Unsettled(admitted)
    BY <1>1 DEF Driver, SidecarPhases, Unsettled
  <2> HIDE DEF w
  <2>5. FilesOK(q, admitted)
    <3>1. g.node \in [Nodes -> NodeStates] /\ g.status # "none"
      BY <1>2, <1>3 DEF FrameState
    <3> QED
      BY <1>4, <2>2, <2>3, <3>1 DEF FilesOK
  <2>6. Knows(w, admitted)
    BY <2>3, <2>4 DEF Knows, SidecarPhases, NodePhases, CallPhases, Unsettled, OpenNode
  <2> QED
    BY <1>0, <1>1, <2>1, <2>3, <2>4, <2>5, <2>6, SaveStep
<1> QED
  BY <1>5, <1>6

LEMMA SettleStep ==
  ASSUME IInv, NEW d \in Drivers, SettleNode(d)
  PROVE  IInv'
<1> DEFINE q == worker[d].request
           g == Heard(q)
           n == First(worker[d].todo)
           rest == [worker[d] EXCEPT !.todo = @ \ {n}]
           x == IF g.journal[n] = "completed" THEN "completed" ELSE "unknown"
           h == [g EXCEPT !.node[n] = x]
<1>0. worker[d].phase = "settle" /\ ~Gone(q) /\ worker[d].phase \in SidecarPhases
  BY DEF SettleNode, At, SidecarPhases
<1>1. /\ worker[d].phase # "idle"
      /\ q \in Requests /\ worker[d] \in Driver /\ g \in FrameState /\ g.status = frame[q].status
      /\ FilesOK(q, g) /\ Knows(worker[d], g) /\ worker \in [Drivers -> Driver]
      /\ g.journal = frame[q].journal /\ g.node = frame[q].node
  BY <1>0, Answering, HeardOK DEF IInv, TypeOK
<1>2. g.status # "none" /\ (\A m \in worker[d].todo : OpenNode(g, m)) /\ worker[d].todo \in SUBSET Nodes
  BY <1>0, <1>1 DEF Knows, Driver
<1>3. CASE worker[d].todo = {} /\ Goto(d, "advance") /\ UNCHANGED <<host, clock, frame, calls, bounds>>
  <2> DEFINE w == [worker[d] EXCEPT !.phase = "advance"]
  <2>1. w \in Driver /\ w.request = q /\ w.phase = "advance" /\ w.todo = {}
    BY <1>1, <1>3 DEF Driver, SidecarPhases
  <2>2. worker' = [worker EXCEPT ![d] = w]
    BY <1>1, <1>3 DEF Goto
  <2> HIDE DEF w, g
  <2>3. Knows(w, frame[q])
    BY <1>1, <1>2, <2>1 DEF Knows, SidecarPhases, NodePhases, CallPhases
  <2> QED
    BY <1>1, <1>3, <2>1, <2>2, <2>3, QuietStep
<1>4. CASE worker[d].todo # {} /\ g.journal[n] = "none"
           /\ worker' = [worker EXCEPT ![d] = [rest EXCEPT !.phase = "admitted", !.node = n]]
           /\ UNCHANGED <<host, clock, frame, calls, bounds>>
  <2>0. n \in worker[d].todo
    BY <1>2, <1>4, FirstIn
  <2> DEFINE w == [rest EXCEPT !.phase = "admitted", !.node = n]
  <2> HIDE DEF n
  <2>1. w \in Driver /\ w.request = q /\ w.phase = "admitted" /\ w.todo = worker[d].todo \ {n} /\ w.node = n
    BY <1>1, <1>2, <2>0 DEF Driver, SidecarPhases
  <2>2. worker' = [worker EXCEPT ![d] = w]
    BY <1>4
  <2> HIDE DEF w, g
  <2>3. Knows(w, frame[q])
    BY <1>1, <1>2, <1>4, <2>0, <2>1 DEF Knows, SidecarPhases, NodePhases, CallPhases, OpenNode
  <2> QED
    BY <1>1, <1>4, <2>1, <2>2, <2>3, QuietStep
<1>5. CASE worker[d].todo # {} /\ g.journal[n] # "none" /\ Save(d, h, rest)
  <2>0. n \in worker[d].todo /\ n \in Nodes
    BY <1>2, <1>5, FirstIn
  <2> HIDE DEF n, g
  <2>1. x \in NodeStates /\ (x = "completed" <=> g.journal[n] = "completed") /\ x \notin {"pending", "awaiting"}
    BY DEF NodeStates
  <2> HIDE DEF x
  <2>2. h \in FrameState /\ h.node = [g.node EXCEPT ![n] = x] /\ h.journal = g.journal /\ h.status = g.status
    <3>1. g \in FrameState
      BY <1>1
    <3> QED
      BY <2>1, <3>1 DEF FrameState
  <2>3. rest \in Driver /\ rest.request = q /\ rest.phase = "settle" /\ rest.todo = worker[d].todo \ {n}
    <3>1. worker[d] \in Driver /\ worker[d].todo \ {n} \in SUBSET Nodes
      BY <1>1, <1>2
    <3> QED
      BY <1>0, <3>1 DEF Driver
  <2> HIDE DEF h, rest
  <2>4. g.node \in [Nodes -> NodeStates] /\ OpenNode(g, n)
    BY <1>1, <1>2, <2>0 DEF FrameState
  <2>a. \A m \in Nodes : h.node[m] = IF m = n THEN x ELSE g.node[m]
    BY <2>0, <2>2, <2>4
  <2>b. FilesOK(q, g) /\ g.node[n] # "completed"
    BY <1>1, <2>4 DEF OpenNode
  <2>5. FilesOK(q, h)
    <3>1. h.status # "succeeded"
      BY <2>0, <2>2, <2>b DEF FilesOK
    <3> QED
      BY <2>0, <2>1, <2>2, <2>a, <2>b, <3>1 DEF FilesOK
  <2>6. Knows(rest, h)
    BY <1>2, <2>0, <2>2, <2>3, <2>4 DEF Knows, SidecarPhases, NodePhases, CallPhases, OpenNode
  <2> QED
    BY <1>0, <1>1, <1>5, <2>2, <2>3, <2>5, <2>6, SaveStep
<1> QED
  BY <1>3, <1>4, <1>5 DEF SettleNode

LEMMA AdvanceStep ==
  ASSUME IInv, NEW d \in Drivers, Advance(d)
  PROVE  IInv'
<1> DEFINE q == worker[d].request
           g == Heard(q)
           n == First(Ready(g))
           a == [g EXCEPT !.node[n] = "admitted"]
           admitted == [a EXCEPT !.status = "running"]
           awaiting == [g EXCEPT !.node[n] = "awaiting"]
<1>0. worker[d].phase = "advance" /\ ~Gone(q) /\ worker[d].phase \in SidecarPhases
  BY DEF Advance, At, SidecarPhases
<1>1. /\ worker[d].phase # "idle"
      /\ q \in Requests /\ worker[d] \in Driver /\ g \in FrameState
      /\ FilesOK(q, g) /\ Knows(worker[d], g) /\ worker \in [Drivers -> Driver]
  BY <1>0, Answering DEF IInv, TypeOK
<1>2. g.status # "none" /\ g.node \in [Nodes -> NodeStates]
      /\ \A m \in worker[d].todo : m \in Nodes /\ OpenNode(g, m)
  <2>1. worker[d].todo \subseteq Nodes
    BY <1>1 DEF Driver
  <2>2. g.node \in [Nodes -> NodeStates]
    BY <1>1 DEF FrameState
  <2> HIDE DEF g
  <2> QED
    BY <1>0, <1>1, <2>1, <2>2 DEF Knows, SidecarPhases, NodePhases, CallPhases
<1>3. CASE /\ Ready(g) = {} \/ StopReason(q) # "none"
           /\ frame' = [frame EXCEPT ![q] = g]
           /\ Finishing(d, IF Ready(g) = {} THEN "none" ELSE StopReason(q))
           /\ UNCHANGED <<host, clock, calls, bounds>>
  <2> DEFINE why == IF Ready(g) = {} THEN "none" ELSE StopReason(q)
             w == [worker[d] EXCEPT !.phase = "finish", !.stop = why]
  <2>1. why \in {"none", "cancelled", "deadline"}
    BY DEF StopReason
  <2>2. worker' = [worker EXCEPT ![d] = w]
    BY <1>1, <1>3 DEF Finishing
  <2> HIDE DEF why, g
  <2>3. w \in Driver /\ w.request = q /\ w.phase = "finish"
    BY <1>1, <2>1 DEF Driver, SidecarPhases
  <2> HIDE DEF w
  <2>4. Knows(w, g)
    BY <1>2, <2>3 DEF Knows, SidecarPhases, NodePhases, CallPhases
  <2> QED
    BY <1>0, <1>1, <1>3, <2>2, <2>3, <2>4, FrameStep
<1>4. CASE /\ Ready(g) # {}
           /\ \/ Save(d, awaiting, worker[d])
              \/ Save(d, admitted, [worker[d] EXCEPT !.phase = "admitted", !.node = n])
  <2>0. n \in Nodes /\ g.node[n] = "pending"
    <3>1. Ready(g) \in SUBSET Nodes
      BY DEF Ready
    <3>2. n \in Ready(g)
      BY <1>4, <3>1, FirstIn
    <3> QED
      BY <3>2 DEF Ready
  <2> HIDE DEF n, g
  <2>1. g.journal[n] = "none" /\ g.status # "succeeded"
    BY <1>1, <2>0 DEF FilesOK
  <2>2. CASE Save(d, awaiting, worker[d])
    <3>1. awaiting \in FrameState /\ awaiting.node = [g.node EXCEPT ![n] = "awaiting"]
          /\ awaiting.journal = g.journal /\ awaiting.status = g.status
      <4>1. g \in FrameState
        BY <1>1
      <4> QED
        BY <4>1 DEF FrameState, NodeStates
    <3> HIDE DEF awaiting
    <3>2. FilesOK(q, awaiting)
      BY <1>1, <1>2, <2>0, <2>1, <3>1 DEF FilesOK
    <3>3. Knows(worker[d], awaiting)
      BY <1>0, <1>2, <2>0, <3>1 DEF Knows, SidecarPhases, NodePhases, CallPhases, OpenNode
    <3> QED
      BY <1>0, <1>1, <2>2, <3>1, <3>2, <3>3, SaveStep
  <2>3. CASE Save(d, admitted, [worker[d] EXCEPT !.phase = "admitted", !.node = n])
    <3> DEFINE w == [worker[d] EXCEPT !.phase = "admitted", !.node = n]
    <3>1. a \in FrameState /\ a.node = [g.node EXCEPT ![n] = "admitted"] /\ a.journal = g.journal
      <4>1. g \in FrameState
        BY <1>1
      <4> QED
        BY <4>1 DEF FrameState, NodeStates
    <3> HIDE DEF a
    <3>2. admitted \in FrameState /\ admitted.status = "running" /\ admitted.node = a.node
          /\ admitted.journal = a.journal
      BY <3>1, SetStatus
    <3>3. w \in Driver /\ w.request = q /\ w.phase = "admitted" /\ w.node = n /\ w.todo = worker[d].todo
      BY <1>1, <2>0 DEF Driver, SidecarPhases
    <3>4. Save(d, admitted, w)
      BY <2>3
    <3> HIDE DEF w, admitted
    <3>5. FilesOK(q, admitted)
      BY <1>1, <1>2, <2>0, <2>1, <3>1, <3>2 DEF FilesOK
    <3>6. Knows(w, admitted)
      BY <1>2, <2>0, <2>1, <3>1, <3>2, <3>3 DEF Knows, SidecarPhases, NodePhases, CallPhases, OpenNode
    <3> QED
      BY <1>0, <1>1, <3>2, <3>3, <3>4, <3>5, <3>6, SaveStep
  <2> QED
    BY <1>4, <2>2, <2>3
<1> QED
  BY <1>3, <1>4 DEF Advance

LEMMA DispatchStep ==
  ASSUME IInv, NEW d \in Drivers, Dispatch(d)
  PROVE  IInv'
<1> DEFINE q == worker[d].request
           g == Heard(q)
           n == worker[d].node
           h == [g EXCEPT !.journal[n] = "started"]
<1>0. worker[d].phase = "admitted" /\ ~Gone(q) /\ worker[d].phase \in SidecarPhases
  BY DEF Dispatch, At, SidecarPhases
<1>1. /\ worker[d].phase # "idle"
      /\ q \in Requests /\ worker[d] \in Driver /\ g \in FrameState
      /\ FilesOK(q, g) /\ Knows(worker[d], g) /\ worker \in [Drivers -> Driver]
      /\ UNCHANGED <<host, clock, calls, bounds>>
  BY <1>0, Answering DEF IInv, TypeOK, Dispatch
<1>2. /\ g.status # "none" /\ n \in Nodes /\ OpenNode(g, n) /\ g.journal[n] = "none"
      /\ \A m \in worker[d].todo : OpenNode(g, m)
      /\ g.journal \in [Nodes -> {"none", "started", "completed", "failed"}]
  <2>1. g.journal \in [Nodes -> {"none", "started", "completed", "failed"}]
    BY <1>1 DEF FrameState
  <2> HIDE DEF g
  <2> QED
    BY <1>0, <1>1, <2>1 DEF Knows, SidecarPhases, NodePhases, CallPhases
<1>3. CASE StopReason(q) # "none"
  <2> DEFINE w == [worker[d] EXCEPT !.phase = "finish", !.stop = StopReason(q)]
  <2>1. w \in Driver /\ w.request = q /\ w.phase = "finish"
    BY <1>1 DEF Driver, SidecarPhases, StopReason
  <2>2. frame' = [frame EXCEPT ![q] = g] /\ worker' = [worker EXCEPT ![d] = w]
    BY <1>1, <1>3 DEF Dispatch, Finishing
  <2> HIDE DEF w, g
  <2>3. Knows(w, g)
    BY <1>2, <2>1 DEF Knows, SidecarPhases, NodePhases, CallPhases
  <2> QED
    BY <1>0, <1>1, <2>1, <2>2, <2>3, FrameStep
<1>4. CASE StopReason(q) = "none"
  <2> DEFINE w == [worker[d] EXCEPT !.phase = "started"]
  <2>1. w \in Driver /\ w.request = q /\ w.phase = "started" /\ w.node = n /\ w.todo = worker[d].todo
    BY <1>1 DEF Driver, SidecarPhases
  <2>2. frame' = [frame EXCEPT ![q] = h] /\ worker' = [worker EXCEPT ![d] = w]
    BY <1>1, <1>4 DEF Dispatch, Goto
  <2> HIDE DEF w, g, n
  <2>3. h \in FrameState /\ h.journal = [g.journal EXCEPT ![n] = "started"]
        /\ h.node = g.node /\ h.status = g.status
    <3>1. g \in FrameState
      BY <1>1
    <3> QED
      BY <1>2, <3>1 DEF FrameState
  <2> HIDE DEF h
  <2>4. FilesOK(q, h)
    BY <1>1, <1>2, <2>3 DEF FilesOK, OpenNode
  <2>5. calls[q][n] = 0
    BY <1>1, <1>2 DEF FilesOK
  <2>6. Knows(w, h)
    BY <1>0, <1>2, <2>1, <2>3, <2>5 DEF Knows, SidecarPhases, NodePhases, CallPhases, OpenNode
  <2> QED
    BY <1>0, <1>1, <2>1, <2>2, <2>3, <2>4, <2>6, FrameStep
<1> QED
  BY <1>3, <1>4

LEMMA AnsweredStep ==
  ASSUME IInv, NEW d \in Drivers, Answered(d)
  PROVE  IInv'
<1> DEFINE q == worker[d].request
           g == Heard(q)
           n == worker[d].node
           x == IF worker[d].phase = "applied" THEN "completed" ELSE "failed"
           h == [g EXCEPT !.journal[n] = x]
           w == [worker[d] EXCEPT !.phase = "settle", !.todo = @ \cup {n}]
<1>0. worker[d].phase \in {"applied", "denied"} /\ ~Gone(q) /\ worker[d].phase \in SidecarPhases
  BY DEF Answered, At, SidecarPhases
<1>1. /\ worker[d].phase # "idle"
      /\ q \in Requests /\ worker[d] \in Driver /\ g \in FrameState
      /\ FilesOK(q, g) /\ Knows(worker[d], g) /\ worker \in [Drivers -> Driver]
      /\ frame' = [frame EXCEPT ![q] = h]
      /\ UNCHANGED <<host, clock, calls, bounds>>
  BY <1>0, Answering DEF IInv, TypeOK, Answered
<1>2. /\ g.status # "none" /\ n \in Nodes /\ OpenNode(g, n) /\ g.journal[n] = "started"
      /\ \A m \in worker[d].todo : OpenNode(g, m)
      /\ g.journal \in [Nodes -> {"none", "started", "completed", "failed"}]
      /\ x = "completed" => n \in receipts[q]
  <2>1. g.journal \in [Nodes -> {"none", "started", "completed", "failed"}]
    BY <1>1 DEF FrameState
  <2> HIDE DEF g
  <2> QED
    BY <1>0, <1>1, <2>1 DEF Knows, SidecarPhases, NodePhases, CallPhases
<1>3. w \in Driver /\ w.request = q /\ w.phase = "settle" /\ w.todo = worker[d].todo \cup {n}
  BY <1>1, <1>2 DEF Driver, SidecarPhases
<1>4. worker' = [worker EXCEPT ![d] = w]
  BY <1>1 DEF Answered
<1>5. x \in {"completed", "failed"}
  OBVIOUS
<1> HIDE DEF w, g, n, x
<1>6. h \in FrameState /\ h.journal = [g.journal EXCEPT ![n] = x]
      /\ h.node = g.node /\ h.status = g.status
  <2>1. g \in FrameState
    BY <1>1
  <2> QED
    BY <1>2, <1>5, <2>1 DEF FrameState
<1>7. frame' = [frame EXCEPT ![q] = h]
  BY <1>1
<1> HIDE DEF h
<1>8. FilesOK(q, h)
  BY <1>1, <1>2, <1>5, <1>6 DEF FilesOK, OpenNode
<1>9. Knows(w, h)
  BY <1>2, <1>3, <1>6 DEF Knows, SidecarPhases, NodePhases, CallPhases, OpenNode
<1> QED
  BY <1>0, <1>1, <1>3, <1>4, <1>6, <1>7, <1>8, <1>9, FrameStep

\* The write of a node is sent: its driver is the only one that sees the count.
LEMMA CallStep ==
  ASSUME IInv, NEW d \in Drivers, At(d, "started"), Goto(d, "call"),
         calls' = [calls EXCEPT ![worker[d].request][worker[d].node] = @ + 1],
         UNCHANGED <<host, clock, frame, bounds>>
  PROVE  IInv'
<1> DEFINE q == worker[d].request
           n == worker[d].node
           w == [worker[d] EXCEPT !.phase = "call"]
<1>0. worker[d].phase = "started" /\ ~Gone(q)
  BY DEF At
<1>1. /\ q \in Requests /\ worker[d] \in Driver /\ worker \in [Drivers -> Driver]
      /\ FilesOK(q, frame[q]) /\ Knows(worker[d], frame[q])
      /\ calls \in [Requests -> [Nodes -> Nat]]
      /\ \A e \in Drivers : worker[e].request = q => e = d
  BY <1>0, Lease, Mine DEF IInv, TypeOK
<1>2. /\ frame[q].status # "none" /\ n \in Nodes /\ frame[q].journal[n] = "started"
      /\ calls[q][n] = 0
  BY <1>0, <1>1 DEF Knows, SidecarPhases, NodePhases, CallPhases
<1>3. w \in Driver /\ w.request = q /\ w.phase = "call" /\ w.node = n /\ w.todo = worker[d].todo
  BY <1>1 DEF Driver, SidecarPhases
<1>4. /\ UNCHANGED <<link, run, receipts, outbox, clock, frame, drives, faults>>
      /\ worker' = [worker EXCEPT ![d] = w]
  BY <1>1 DEF Goto, host, bounds
<1>5. /\ calls' \in [Requests -> [Nodes -> Nat]] /\ calls'[q][n] = 1
      /\ \A p \in Requests, m \in Nodes : p # q \/ m # n => calls'[p][m] = calls[p][m]
  BY <1>1, <1>2
<1> HIDE DEF w, q, n
<1>6. worker' \in [Drivers -> Driver] /\ \A e \in Drivers : worker'[e] = IF e = d THEN w ELSE worker[e]
  BY <1>1, <1>3, <1>4
<1>7. link[q].started
  BY <1>0, <1>1, <1>2 DEF FilesOK, q
<1>8. TypeOK'
  BY <1>4, <1>5, <1>6 DEF IInv, TypeOK
<1>9. OneLease'
  BY <1>0, <1>3, <1>6 DEF IInv, OneLease, q
<1>10. Permitted'
  BY <1>4, <1>5, <1>7 DEF IInv, Permitted, Gone
<1>11. CalledOnce'
  BY <1>5 DEF IInv, CalledOnce
<1>12. FilesSound'
  <2> SUFFICES ASSUME NEW p \in Requests PROVE FilesOK(p, frame[p])'
    BY DEF FilesSound
  <2>1. FilesOK(p, frame[p])
    BY DEF IInv, FilesSound
  <2>2. link' = link /\ receipts' = receipts /\ frame' = frame
    BY <1>4
  <2>3. Gone(p)' <=> Gone(p)
    BY <2>2 DEF Gone
  <2>4. ASSUME NEW m \in Nodes, frame[p].status # "none", frame[p].journal[m] = "none"
        PROVE  calls'[p][m] = 0
    <3>1. calls[p][m] = 0
      BY <2>1, <2>4 DEF FilesOK
    <3>2. p # q \/ m # n
      BY <1>2, <2>4
    <3> QED
      BY <1>5, <3>1, <3>2
  <2> QED
    BY <2>1, <2>2, <2>3, <2>4 DEF FilesOK
<1>13. SidecarKnows'
  <2> SUFFICES ASSUME NEW e \in Drivers PROVE Knows(worker[e], frame[worker[e].request])'
    BY DEF SidecarKnows
  <2>1. CASE e = d
    <3>1. /\ \A m \in w.todo : OpenNode(frame[q], m)
          /\ OpenNode(frame[q], w.node)
      BY <1>0, <1>1, <1>3 DEF Knows, NodePhases, n
    <3>2. worker'[e] = w /\ frame'[worker'[e].request] = frame[q]
      BY <1>3, <1>4, <1>6, <2>1
    <3>3. /\ w.phase = "call" /\ w.node \in Nodes
          /\ frame[q].status # "none" /\ frame[q].journal[w.node] = "started"
      BY <1>2, <1>3
    <3> QED
      BY <3>1, <3>2, <3>3 DEF Knows, SidecarPhases, NodePhases, CallPhases, OpenNode
  <2>2. CASE e # d /\ worker[e].phase = "idle"
    BY <1>6, <2>2 DEF Knows, SidecarPhases, NodePhases, CallPhases
  <2>3. CASE e # d /\ worker[e].phase # "idle"
    <3>1. Knows(worker[e], frame[worker[e].request]) /\ worker[e].request \in Requests /\ worker[e].request # q
      BY <1>1, <2>3, Mine, Lease
    <3>2. worker'[e] = worker[e] /\ \A m \in Nodes : calls'[worker[e].request][m] = calls[worker[e].request][m]
      BY <1>5, <1>6, <2>3, <3>1
    <3>3. PICK v, g : v = worker[e] /\ g = frame[v.request]
      OBVIOUS
    <3>4. worker'[e] = v /\ frame'[v.request] = g /\ Knows(v, g)
          /\ \A m \in Nodes : calls'[v.request][m] = calls[v.request][m]
      BY <1>4, <3>1, <3>2, <3>3
    <3>5. UNCHANGED <<link, receipts>>
      BY <1>4
    <3> QED
      BY <3>4, <3>5, KnowsStays
  <2> QED
    BY <2>1, <2>2, <2>3
<1>14. PurgeKnows'
  BY <1>3, <1>4, <1>6 DEF IInv, PurgeKnows, Gone
<1>15. SuccessIsComplete' /\ StateIsPurged'
  BY <1>4 DEF IInv, SuccessIsComplete, StateIsPurged, Gone
<1> QED
  BY <1>8, <1>9, <1>10, <1>11, <1>12, <1>13, <1>14, <1>15 DEF IInv

LEMMA AttemptStep ==
  ASSUME IInv, NEW d \in Drivers, Attempt(d)
  PROVE  IInv'
<1> DEFINE q == worker[d].request
           g == Heard(q)
           n == worker[d].node
           h == [g EXCEPT !.node[n] = "unknown"]
           w == [worker[d] EXCEPT !.phase = "finish", !.stop = StopReason(q)]
<1>1. CASE StopReason(q) # "none"
  <2>0. worker[d].phase = "started" /\ ~Gone(q) /\ worker[d].phase \in SidecarPhases /\ Save(d, h, w)
    BY <1>1 DEF Attempt, At, SidecarPhases
  <2>1. /\ worker[d].phase # "idle" /\ worker[d] \in Driver /\ g \in FrameState
        /\ FilesOK(q, g) /\ Knows(worker[d], g)
    BY <2>0, Answering
  <2>2. /\ g.status # "none" /\ n \in Nodes /\ OpenNode(g, n) /\ g.journal[n] = "started"
    <3> HIDE DEF g
    <3> QED
      BY <2>0, <2>1 DEF Knows, SidecarPhases, NodePhases, CallPhases
  <2>3. w \in Driver /\ w.request = q /\ w.phase = "finish"
    BY <2>1 DEF Driver, SidecarPhases, StopReason
  <2>4. Save(d, h, w)
    BY <2>0
  <2> HIDE DEF w, g
  <2>5. h \in FrameState /\ h.node = [g.node EXCEPT ![n] = "unknown"]
        /\ h.journal = g.journal /\ h.status = g.status /\ g.node \in [Nodes -> NodeStates]
    <3>1. g \in FrameState
      BY <2>1
    <3> QED
      BY <3>1 DEF FrameState, NodeStates
  <2> HIDE DEF h
  <2>6. FilesOK(q, h)
    BY <2>1, <2>2, <2>5 DEF FilesOK, OpenNode
  <2>7. Knows(w, h)
    BY <2>2, <2>3, <2>5 DEF Knows, SidecarPhases, NodePhases, CallPhases
  <2> QED
    BY <2>0, <2>1, <2>3, <2>4, <2>5, <2>6, <2>7, SaveStep
<1>2. CASE StopReason(q) = "none"
  BY <1>2, CallStep DEF Attempt
<1> QED
  BY <1>1, <1>2

LEMMA FinishStep ==
  ASSUME IInv, NEW d \in Drivers, FinishRun(d)
  PROVE  IInv'
<1> DEFINE q == worker[d].request
           g == Heard(q)
           unknown == {n \in Nodes : g.node[n] = "unknown"}
           stopped == worker[d].stop # "none" \/ clock[q] = 2 \/ g.cancel
           status == IF unknown # {} THEN "running"
                     ELSE IF stopped THEN (IF g.cancel THEN "cancelled" ELSE "exhausted")
                     ELSE IF Waiting(g) # {} THEN "awaiting_approval"
                     ELSE IF \A n \in Nodes : g.node[n] = "completed" THEN "succeeded" ELSE "failed"
           nodes == [n \in Nodes |-> IF status \in {"cancelled", "exhausted"} /\ g.node[n] # "completed"
                                     THEN "cancelled" ELSE g.node[n]]
           h == [g EXCEPT !.status = status, !.node = nodes]
           w == [worker[d] EXCEPT !.phase = IF worker[d].command = "recover" THEN "reconcile" ELSE "result",
                                  !.stop = "none", !.listed = TRUE,
                                  !.ask = IF worker[d].listed THEN @ ELSE unknown]
<1>0. worker[d].phase = "finish" /\ ~Gone(q) /\ worker[d].phase \in SidecarPhases /\ Save(d, h, w)
  BY DEF FinishRun, At, SidecarPhases
<1>1. /\ worker[d].phase # "idle" /\ worker[d] \in Driver /\ g \in FrameState
      /\ FilesOK(q, g) /\ Knows(worker[d], g)
  BY <1>0, Answering
<1>2. g.status # "none"
  <2> HIDE DEF g
  <2> QED
    BY <1>0, <1>1 DEF Knows, SidecarPhases
<1>3. /\ status \in {"running", "cancelled", "exhausted", "awaiting_approval", "succeeded", "failed"}
      /\ status = "succeeded" => \A n \in Nodes : g.node[n] = "completed"
  <2>1. CASE unknown # {}
    BY <2>1
  <2>2. CASE unknown = {} /\ stopped
    BY <2>2
  <2>3. CASE unknown = {} /\ ~stopped /\ Waiting(g) # {}
    BY <2>3
  <2>4. CASE unknown = {} /\ ~stopped /\ Waiting(g) = {}
    <3> HIDE DEF g, unknown, stopped
    <3> QED
      BY <2>4
  <2> QED
    BY <2>1, <2>2, <2>3, <2>4
<1>4. w \in Driver /\ w.request = q /\ w.phase \in {"reconcile", "result"}
  <2> DEFINE phase == IF worker[d].command = "recover" THEN "reconcile" ELSE "result"
             ask == IF worker[d].listed THEN worker[d].ask ELSE unknown
             v == [worker[d] EXCEPT !.phase = phase, !.stop = "none", !.listed = TRUE, !.ask = ask]
  <2>1. worker[d] \in Driver
    BY <1>1
  <2>2. unknown \in SUBSET Nodes
    OBVIOUS
  <2>3. ask \in SUBSET Nodes
    <3> HIDE DEF unknown
    <3> QED
      BY <2>1, <2>2 DEF Driver
  <2>4. phase \in {"reconcile", "result"}
    OBVIOUS
  <2>5. w = v
    <3> HIDE DEF unknown
    <3> QED
      BY <2>1 DEF Driver
  <2> HIDE DEF phase, ask
  <2>6. v \in Driver /\ v.request = q /\ v.phase = phase
    BY <2>1, <2>3, <2>4, ZenonT(40) DEF Driver, SidecarPhases
  <2> HIDE DEF v, w
  <2> QED
    BY <2>4, <2>5, <2>6
<1>5. Save(d, h, w)
  BY <1>0
<1> HIDE DEF w, status, g
<1>6. g.node \in [Nodes -> NodeStates]
  BY <1>1 DEF FrameState
<1>7. /\ nodes \in [Nodes -> NodeStates]
      /\ \A n \in Nodes : /\ nodes[n] \in {g.node[n], "cancelled"}
                          /\ status = "succeeded" => nodes[n] = g.node[n]
  BY <1>6 DEF NodeStates
<1> HIDE DEF nodes
<1>8. h \in FrameState /\ h.node = nodes /\ h.journal = g.journal /\ h.status = status
  <2>1. g \in FrameState
    BY <1>1
  <2> QED
    BY <1>3, <1>7, <2>1 DEF FrameState, Terminal
<1> HIDE DEF h
<1>9. FilesOK(q, h)
  BY <1>1, <1>2, <1>3, <1>7, <1>8 DEF FilesOK
<1>10. Knows(w, h)
  BY <1>3, <1>4, <1>8 DEF Knows, SidecarPhases, NodePhases, CallPhases
<1> QED
  BY <1>0, <1>1, <1>4, <1>5, <1>8, <1>9, <1>10, SaveStep

LEMMA ReconcileStep ==
  ASSUME IInv, NEW d \in Drivers, Reconcile(d)
  PROVE  IInv'
<1> DEFINE q == worker[d].request
           g == Heard(q)
           n == First(worker[d].ask)
           h == [g EXCEPT !.node[n] = "completed"]
           known == [h EXCEPT !.journal[n] = "completed"]
           rest == [worker[d] EXCEPT !.ask = Asked(d, n)]
<1>0. worker[d].phase = "reconcile" /\ ~Gone(q) /\ worker[d].phase \in SidecarPhases
  BY DEF Reconcile, At, SidecarPhases
<1>1. /\ worker[d].phase # "idle" /\ worker[d] \in Driver /\ g \in FrameState
      /\ FilesOK(q, g) /\ Knows(worker[d], g) /\ g.status = frame[q].status
      /\ worker \in [Drivers -> Driver]
  BY <1>0, Answering DEF IInv, TypeOK
<1>2. g.status # "none" /\ worker[d].ask \in SUBSET Nodes
  <2> HIDE DEF g
  <2> QED
    BY <1>0, <1>1 DEF Knows, SidecarPhases, Driver
<1>3. ASSUME NEW phase \in {"result", "failed"}, Goto(d, phase),
             UNCHANGED <<host, clock, frame, calls, bounds>>
      PROVE  IInv'
  <2> DEFINE w == [worker[d] EXCEPT !.phase = phase]
  <2>1. w \in Driver /\ w.request = q /\ w.phase = phase
    BY <1>1 DEF Driver, SidecarPhases
  <2>2. worker' = [worker EXCEPT ![d] = w]
    BY <1>1, <1>3 DEF Goto
  <2> HIDE DEF w, g
  <2>3. Knows(w, frame[q])
    BY <1>1, <1>2, <2>1 DEF Knows, SidecarPhases, NodePhases, CallPhases
  <2> QED
    BY <1>1, <1>3, <2>1, <2>2, <2>3, QuietStep
<1>4. rest \in Driver /\ rest.request = q /\ rest.phase = "reconcile"
  BY <1>0, <1>1 DEF Driver, Asked
<1>5. ASSUME frame' = [frame EXCEPT ![q] = g], worker' = [worker EXCEPT ![d] = rest],
             UNCHANGED <<host, clock, calls, bounds>>
      PROVE  IInv'
  <2> HIDE DEF rest, g
  <2>1. Knows(rest, g)
    BY <1>2, <1>4 DEF Knows, SidecarPhases, NodePhases, CallPhases
  <2> QED
    BY <1>0, <1>1, <1>4, <1>5, <2>1, FrameStep
<1>6. ASSUME worker[d].ask # {}, HasReceipt(q, n),
             Save(d, known, [rest EXCEPT !.phase = "settle", !.todo = Unsettled(known)])
      PROVE  IInv'
  <2> DEFINE w == [rest EXCEPT !.phase = "settle", !.todo = Unsettled(known)]
  <2>1. n \in Nodes
    BY <1>2, <1>6, FirstIn
  <2>2. Save(d, known, w)
    BY <1>6
  <2>3. n \in receipts[q]
    BY <1>6 DEF HasReceipt
  <2> HIDE DEF n, g, rest
  <2>4. h \in FrameState /\ h.node = [g.node EXCEPT ![n] = "completed"]
        /\ h.journal = g.journal /\ h.status = g.status
    <3>1. g \in FrameState
      BY <1>1
    <3> QED
      BY <3>1 DEF FrameState, NodeStates
  <2> HIDE DEF h
  <2>5. known \in FrameState /\ known.journal = [h.journal EXCEPT ![n] = "completed"]
        /\ known.node = h.node /\ known.status = h.status
    BY <2>1, <2>4 DEF FrameState
  <2> HIDE DEF known
  <2>6. w \in Driver /\ w.request = q /\ w.phase = "settle" /\ w.todo = Unsettled(known)
    BY <1>4 DEF Driver, SidecarPhases, Unsettled
  <2> HIDE DEF w
  <2>7. g.node \in [Nodes -> NodeStates] /\ g.journal \in [Nodes -> {"none", "started", "completed", "failed"}]
    BY <1>1 DEF FrameState
  <2>8. FilesOK(q, known)
    BY <1>1, <2>1, <2>3, <2>4, <2>5, <2>7 DEF FilesOK
  <2>9. Knows(w, known)
    BY <1>2, <2>4, <2>5, <2>6 DEF Knows, SidecarPhases, NodePhases, CallPhases, Unsettled, OpenNode
  <2> QED
    BY <1>0, <1>1, <2>2, <2>5, <2>6, <2>8, <2>9, SaveStep
<1> QED
  BY <1>3, <1>5, <1>6 DEF Reconcile

LEMMA ReceiveStep ==
  ASSUME IInv, NEW d \in Drivers, Receive(d)
  PROVE  IInv'
<1>1. PICK phase \in {"failed", "project"} : Goto(d, phase)
  BY DEF Receive
<1> DEFINE w == [worker[d] EXCEPT !.phase = phase]
<1>2. worker[d] \in Driver /\ worker \in [Drivers -> Driver] /\ worker[d].phase # "idle"
  BY Mine DEF Receive, IInv, TypeOK
<1>3. w \in Driver /\ w.request = worker[d].request /\ w.phase = phase
  BY <1>2 DEF Driver
<1>4. worker' = [worker EXCEPT ![d] = w]
  BY <1>1, <1>2 DEF Goto
<1> HIDE DEF w
<1>5. Knows(w, frame[worker[d].request])
  BY <1>3 DEF Knows, SidecarPhases, NodePhases, CallPhases
<1> QED
  BY <1>2, <1>3, <1>4, <1>5, QuietStep DEF Receive

LEMMA RefuseStep ==
  ASSUME IInv, NEW d \in Drivers, HostRefuses(d)
  PROVE  IInv'
<1>1. faults' \in 0 .. MaxFaults
  BY BoundsAssumption DEF HostRefuses, Fault, IInv, TypeOK
<1>2. Idle \in Driver
  BY DEF Idle, Driver, LinkRow, NoLink
<1>3. /\ worker[d].phase # "idle" /\ worker' = [worker EXCEPT ![d] = Idle]
      /\ UNCHANGED <<host, clock, frame, calls, drives>>
  BY DEF HostRefuses, Release, SidecarPhases
<1> QED
  BY <1>1, <1>2, <1>3, PhaseStep

LEMMA SidecarFailsStep ==
  ASSUME IInv, NEW d \in Drivers, SidecarFails(d)
  PROVE  IInv'
<1> DEFINE w == [worker[d] EXCEPT !.phase = "failed"]
<1>1. faults' \in 0 .. MaxFaults /\ worker \in [Drivers -> Driver] /\ worker[d].phase # "idle"
  BY BoundsAssumption DEF SidecarFails, Fault, IInv, TypeOK, SidecarPhases
<1>2. w \in Driver /\ w.request = worker[d].request /\ w.phase = "failed"
  BY <1>1 DEF Driver
<1>3. worker' = [worker EXCEPT ![d] = w] /\ UNCHANGED <<host, clock, frame, calls, drives>>
  BY <1>1 DEF SidecarFails, Goto
<1> HIDE DEF w
<1>4. Knows(w, frame[worker[d].request])
  BY <1>2 DEF Knows, SidecarPhases, NodePhases, CallPhases
<1> QED
  BY <1>1, <1>2, <1>3, <1>4, PhaseStep

LEMMA HostDiesStep ==
  ASSUME IInv, NEW d \in Drivers, HostDies(d)
  PROVE  IInv'
<1> DEFINE q == worker[d].request
           f == frame[q]
           n == worker[d].node
           settled == [f EXCEPT !.journal[n] = "failed", !.node[n] = "unknown",
                                !.revision = @ + 1, !.published = f.revision + 1]
<1>1. faults' \in 0 .. MaxFaults
  BY BoundsAssumption DEF HostDies, Fault, IInv, TypeOK
<1>2. Idle \in Driver
  BY DEF Idle, Driver, LinkRow, NoLink
<1>3. /\ worker[d].phase # "idle" /\ worker' = [worker EXCEPT ![d] = Idle]
      /\ UNCHANGED <<host, clock, calls, drives>>
  BY DEF HostDies, Release
<1>4. CASE UNCHANGED frame
  BY <1>1, <1>2, <1>3, <1>4, PhaseStep
<1>5. CASE /\ worker[d].phase \in {"call", "applied", "denied"}
           /\ frame' = [frame EXCEPT ![q] = settled]
  <2>1. /\ f \in FrameState /\ FilesOK(q, f) /\ Knows(worker[d], f)
        /\ (Gone(q) /\ f # NoFrame => q \in outbox)
    BY <1>3, Mine
  <2>2. f.status # "none" /\ n \in Nodes /\ OpenNode(f, n) /\ f.journal[n] = "started"
    BY <1>5, <2>1 DEF Knows, SidecarPhases, NodePhases, CallPhases
  <2>3. f # NoFrame
    BY <2>2 DEF NoFrame
  <2>4. frame' = [frame EXCEPT ![q] = settled]
    BY <1>5
  <2>5. /\ settled \in FrameState /\ settled.status = f.status
        /\ settled.node = [f.node EXCEPT ![n] = "unknown"]
        /\ settled.journal = [f.journal EXCEPT ![n] = "failed"]
        /\ f.node \in [Nodes -> NodeStates]
        /\ f.journal \in [Nodes -> {"none", "started", "completed", "failed"}]
    <3> HIDE DEF n
    <3>1. f \in FrameState
      BY <2>1
    <3> HIDE DEF f
    <3> DEFINE nodes == [f.node EXCEPT ![n] = "unknown"]
               journal == [f.journal EXCEPT ![n] = "failed"]
               rev == f.revision + 1
    <3>2. /\ f.node \in [Nodes -> NodeStates]
          /\ f.journal \in [Nodes -> {"none", "started", "completed", "failed"}]
          /\ nodes \in [Nodes -> NodeStates]
          /\ journal \in [Nodes -> {"none", "started", "completed", "failed"}]
          /\ rev \in Nat
      <4>1. /\ f.node \in [Nodes -> NodeStates]
            /\ f.journal \in [Nodes -> {"none", "started", "completed", "failed"}]
            /\ f.revision \in Nat
        BY <3>1 DEF FrameState
      <4>2. "unknown" \in NodeStates
        BY DEF NodeStates
      <4>3. nodes \in [Nodes -> NodeStates]
        BY <4>1, <4>2
      <4>4. journal \in [Nodes -> {"none", "started", "completed", "failed"}]
        BY <4>1
      <4>5. rev \in Nat
        BY <4>1
      <4> QED
        BY <4>1, <4>3, <4>4, <4>5
    <3>3. settled = [f EXCEPT !.journal = journal, !.node = nodes,
                              !.revision = rev, !.published = rev]
      BY <3>1 DEF FrameState
    <3> HIDE DEF nodes, journal, rev, settled
    <3>4. settled \in FrameState /\ settled.status = f.status
          /\ settled.node = nodes /\ settled.journal = journal
      BY <3>1, <3>2, <3>3 DEF FrameState
    <3> QED
      BY <3>2, <3>4 DEF nodes, journal
  <2> HIDE DEF settled, n
  <2>6. FilesOK(q, settled)
    <3>1. FilesOK(q, f) /\ n \in Nodes /\ f.node[n] # "completed"
      BY <2>1, <2>2 DEF OpenNode
    <3>2. \A m \in Nodes : /\ settled.node[m] = IF m = n THEN "unknown" ELSE f.node[m]
                           /\ settled.journal[m] = IF m = n THEN "failed" ELSE f.journal[m]
      BY <2>5
    <3> HIDE DEF f
    <3>3. f.status # "succeeded"
      BY <3>1 DEF FilesOK
    <3> QED
      BY <2>5, <3>1, <3>2, <3>3 DEF FilesOK
  <2> QED
    BY <1>1, <1>2, <1>3, <2>1, <2>3, <2>4, <2>5, <2>6, DriverStep
<1> QED
  BY <1>4, <1>5 DEF HostDies

LEMMA StepInv ==
  ASSUME IInv, [Next]_vars
  PROVE  IInv'
<1>1. ASSUME NEW q \in Requests,
             Accept(q) \/ Cancel(q) \/ Tick(q) \/ DeleteCase(q) \/ LoseState(q)
      PROVE  IInv'
  BY <1>1, RequestSteps, LoseStateStep
<1>2. ASSUME NEW d \in Drivers, NEW q \in Requests, Drive(d, q) \/ Purge(d, q)
      PROVE  IInv'
  BY <1>2, LeaseSteps
<1>3. ASSUME NEW d \in Drivers, DriveStep(d)
      PROVE  IInv'
  <2>1. CASE Begin(d) \/ FindRun(d) \/ AuthorizeStart(d) \/ CreateRun(d) \/ ApproveNode(d)
             \/ SettleNode(d) \/ Advance(d) \/ Dispatch(d) \/ Attempt(d)
    BY <2>1, BeginStep, FindStep, AuthorizeStep, CreateStep, ApproveStep, SettleStep,
       AdvanceStep, DispatchStep, AttemptStep
  <2>2. CASE Write(d) \/ Answered(d) \/ FinishRun(d) \/ Reconcile(d) \/ Receive(d)
             \/ Project(d) \/ MarkUnknown(d) \/ HostRefuses(d) \/ PurgeStep(d)
    BY <2>2, WriteStep, AnsweredStep, FinishStep, ReconcileStep, ReceiveStep,
       ProjectStep, MarkUnknownStep, RefuseStep, PurgeSteps
  <2> QED
    BY <1>3, <2>1, <2>2 DEF DriveStep
<1>4. ASSUME NEW d \in Drivers, SidecarFails(d) \/ HostDies(d)
      PROVE  IInv'
  BY <1>4, SidecarFailsStep, HostDiesStep
<1>5. CASE UNCHANGED vars
  <2>1. UNCHANGED <<link, run, receipts, outbox, clock, frame, worker, calls, drives, faults>>
    BY <1>5 DEF vars, host, bounds
  <2>2. (TypeOK /\ OneLease)'
    BY <2>1 DEF IInv, TypeOK, OneLease
  <2>3. (Permitted /\ CalledOnce /\ SuccessIsComplete /\ StateIsPurged /\ PurgeKnows)'
    BY <2>1 DEF IInv, Permitted, CalledOnce, SuccessIsComplete, StateIsPurged, PurgeKnows, Gone
  <2>4. FilesSound'
    BY <2>1 DEF IInv, FilesSound, FilesOK, Gone
  <2>5. SidecarKnows'
    BY <2>1, KnowsOfOthers DEF SidecarKnows
  <2> QED
    BY <2>2, <2>3, <2>4, <2>5 DEF IInv
<1> QED
  BY <1>1, <1>2, <1>3, <1>4, <1>5 DEF Next

\* The inductive invariant holds in every state: lease, permission, journal and
\* receipts always fit together.
THEOREM Invariance == Spec => []IInv
BY InitInv, StepInv, PTL DEF Spec

\* Every variable has its type.
THEOREM TypeCorrect == Spec => []TypeOK
<1>1. IInv => TypeOK
  BY DEF IInv
<1> QED
  BY <1>1, Invariance, PTL

\* No node of a run is sent to the host as a write twice, however often the run is
\* driven and whatever dies, is refused or is lost in between.
THEOREM OneCall == Spec => []CalledOnce
<1>1. IInv => CalledOnce
  BY DEF IInv
<1> QED
  BY <1>1, Invariance, PTL

\* A request that the host reports as succeeded has the receipt of every node.
THEOREM SuccessComplete == Spec => []SuccessIsComplete
<1>1. IInv => SuccessIsComplete
  BY DEF IInv
<1> QED
  BY <1>1, Invariance, PTL

\* Files of a deleted case exist only while the outbox still names them.
THEOREM StatePurged == Spec => []StateIsPurged
<1>1. IInv => StateIsPurged
  BY DEF IInv
<1> QED
  BY <1>1, Invariance, PTL

\* No step commits an effect after a cancellation or the deadline.
THEOREM EffectsEnd == Spec => EffectsStop
<1>1. ASSUME IInv, [Next]_vars, NEW q \in Requests, link[q].cancel \/ clock[q] > 0
      PROVE  receipts'[q] \subseteq receipts[q]
  <2>0. receipts \in [Requests -> SUBSET Nodes] /\ clock \in [Requests -> 0 .. 2]
    <3>1. TypeOK
      BY <1>1 DEF IInv
    <3> QED
      BY <3>1 DEF TypeOK
  <2>1. ASSUME NEW p \in Requests, DeleteCase(p) PROVE receipts'[q] \subseteq receipts[q]
    BY <2>0, <2>1 DEF DeleteCase
  <2>2. ASSUME NEW d \in Drivers, Write(d) PROVE receipts'[q] \subseteq receipts[q]
    BY <1>1, <2>0, <2>2 DEF Write, WriteAllowed
  <2>3. CASE UNCHANGED receipts
    BY <2>3
  <2>4. ASSUME NEW p \in Requests, Accept(p) \/ Cancel(p) \/ Tick(p) \/ LoseState(p)
        PROVE  UNCHANGED receipts
    BY <2>4 DEF Accept, Cancel, Tick, LoseState, host
  <2>5. ASSUME NEW d \in Drivers, NEW p \in Requests, Drive(d, p) \/ Purge(d, p)
        PROVE  UNCHANGED receipts
    BY <2>5 DEF Drive, Purge, TakeLease, host
  <2>6. ASSUME NEW d \in Drivers, DriveStep(d), ~Write(d)
        PROVE  UNCHANGED receipts
    <3>1. ASSUME NEW g, NEW w, Save(d, g, w) PROVE UNCHANGED receipts
      BY <3>1 DEF Save, host
    <3>2. CASE Begin(d) \/ FindRun(d) \/ AuthorizeStart(d) \/ CreateRun(d)
      BY <3>1, <3>2 DEF Begin, FindRun, AuthorizeStart, CreateRun, host
    <3>3. CASE ApproveNode(d) \/ SettleNode(d) \/ Advance(d)
      BY <3>1, <3>3 DEF ApproveNode, SettleNode, Advance, host
    <3>4. CASE Dispatch(d) \/ Attempt(d) \/ Answered(d)
      BY <3>1, <3>4 DEF Dispatch, Attempt, Answered, host
    <3>5. CASE FinishRun(d) \/ Reconcile(d) \/ Receive(d)
      BY <3>1, <3>5 DEF FinishRun, Reconcile, Receive, host
    <3>6. CASE Project(d) \/ MarkUnknown(d) \/ HostRefuses(d) \/ PurgeStep(d)
      BY <3>6 DEF Project, MarkUnknown, HostRefuses, PurgeStep, host
    <3> QED
      BY <2>6, <3>2, <3>3, <3>4, <3>5, <3>6 DEF DriveStep
  <2>7. ASSUME NEW d \in Drivers, SidecarFails(d) \/ HostDies(d)
        PROVE  UNCHANGED receipts
    BY <2>7 DEF SidecarFails, HostDies, host
  <2>8. CASE UNCHANGED vars
    BY <2>8 DEF vars, host
  <2> QED
    BY <1>1, <2>1, <2>2, <2>3, <2>4, <2>5, <2>6, <2>7, <2>8 DEF Next
<1>2. IInv /\ [Next]_vars =>
        [\A q \in Requests :
            link[q].cancel \/ clock[q] > 0 => receipts'[q] \subseteq receipts[q]]_vars
  BY <1>1
<1> QED
  BY <1>2, Invariance, PTL DEF Spec, EffectsStop

-----------------------------------------------------------------------------
(* The end that the host projects                                          *)

LEMMA InitEnd == Init => EndInv
<1> SUFFICES ASSUME Init PROVE EndInv
  OBVIOUS
<1> USE DEF Init, NoLink, NoFrame, Idle, Terminal
<1>1. \A q \in Requests : EndedFiles(frame[q])
  BY DEF EndedFiles
<1>2. \A d \in Drivers : WorksOn(worker[d], frame[worker[d].request])
  BY DEF WorksOn, OpenPhases, NodePhases, CallPhases
<1>3. CursorKnows /\ ProjectionIsCurrent
  BY DEF CursorKnows, ProjectionIsCurrent
<1> QED
  BY <1>1, <1>2, <1>3 DEF EndInv

\* A driver without a lease, or whose sidecar failed, works on nothing.
LEMMA AtRest ==
  ASSUME NEW w, NEW f,
         w.phase \in {"idle", "failed", "result", "purge", "purging"}
  PROVE  WorksOn(w, f)
BY DEF WorksOn, OpenPhases, NodePhases, CallPhases

\* A step that changes only the files of a leased request and its driver keeps the
\* ends: the files stay as the host has read them, or it has read none, or they
\* are not those of a run that has ended.
LEMMA EndStep ==
  ASSUME IInv, EndInv, NEW d \in Drivers, worker[d].phase # "idle", NEW f, NEW w,
         frame' = [frame EXCEPT ![worker[d].request] = f],
         worker' = [worker EXCEPT ![d] = w],
         UNCHANGED link,
         EndedFiles(f),
         w = Idle \/ (w.request = worker[d].request /\ WorksOn(w, f)),
         \/ f = NoFrame
         \/ link[worker[d].request].cursor = 0
         \/ frame[worker[d].request].status \notin Terminal \cup {"none"}
         \/ /\ frame[worker[d].request].status # "none"
            /\ f.status = frame[worker[d].request].status
            /\ f.revision = frame[worker[d].request].revision
  PROVE  EndInv'
<1> DEFINE q == worker[d].request
<1>0. q \in Requests /\ \A e \in Drivers : worker[e].request = q => e = d
  BY Lease
<1>1. \A p \in Requests : frame'[p] = IF p = q THEN f ELSE frame[p]
  BY <1>0 DEF IInv, TypeOK
<1>2. \A e \in Drivers : worker'[e] = IF e = d THEN w ELSE worker[e]
  BY DEF IInv, TypeOK
<1>3. (\A p \in Requests : EndedFiles(frame[p]))'
  BY <1>1 DEF EndInv, EndedFiles
<1>4. ASSUME NEW e \in Drivers PROVE WorksOn(worker[e], frame[worker[e].request])'
  <2>1. CASE e = d /\ w = Idle
    <3>1. worker'[e].phase = "idle"
      BY <1>2, <2>1 DEF Idle
    <3> QED
      BY <3>1 DEF WorksOn, OpenPhases, NodePhases, CallPhases
  <2>2. CASE e = d /\ w # Idle
    <3>1. worker'[e] = w /\ frame'[worker'[e].request] = f /\ WorksOn(w, f)
      BY <1>0, <1>1, <1>2, <2>2
    <3> QED
      BY <3>1 DEF WorksOn
  <2>3. CASE e # d /\ worker[e].phase = "idle"
    <3>1. worker'[e].phase = "idle"
      BY <1>2, <2>3
    <3> QED
      BY <3>1 DEF WorksOn, OpenPhases, NodePhases, CallPhases
  <2>4. CASE e # d /\ worker[e].phase # "idle"
    <3>1. worker'[e] = worker[e] /\ frame'[worker[e].request] = frame[worker[e].request]
      BY <1>0, <1>1, <1>2, <2>4, Lease
    <3>2. WorksOn(worker[e], frame[worker[e].request])
      BY DEF EndInv
    <3> QED
      BY <3>1, <3>2 DEF WorksOn
  <2> QED
    BY <2>1, <2>2, <2>3, <2>4
<1>5. CursorKnows'
  BY DEF EndInv, CursorKnows
<1>6. ProjectionIsCurrent'
  <2>1. frame[q].status # "none" => frame[q] # NoFrame
    BY DEF NoFrame
  <2> QED
    BY <1>0, <1>1, <2>1 DEF EndInv, ProjectionIsCurrent
<1> QED
  BY <1>3, <1>4, <1>5, <1>6 DEF EndInv

\* A step of the sidecar that leaves the files alone.
LEMMA EndQuiet ==
  ASSUME IInv, EndInv, NEW d \in Drivers, worker[d].phase # "idle", NEW w,
         worker' = [worker EXCEPT ![d] = w],
         UNCHANGED <<link, frame>>,
         w = Idle \/ (w.request = worker[d].request /\ WorksOn(w, frame[worker[d].request]))
  PROVE  EndInv'
<1> DEFINE q == worker[d].request
<1>0. q \in Requests
  BY Lease
<1>1. frame' = [frame EXCEPT ![q] = frame[q]] /\ EndedFiles(frame[q])
  BY <1>0 DEF IInv, TypeOK, EndInv
<1>2. frame[q].status = "none" => frame[q] = NoFrame
  BY <1>1 DEF EndedFiles
<1> QED
  BY <1>1, <1>2, EndStep

\* A save of files that do not belong to a run that has ended, or of which the host
\* has read nothing.
LEMMA EndSave ==
  ASSUME IInv, EndInv, NEW d \in Drivers, worker[d].phase # "idle",
         NEW g \in FrameState, NEW w,
         Save(d, g, w),
         w.request = worker[d].request, WorksOn(w, g),
         EndedFiles(g), g.status # "none",
         \/ link[worker[d].request].cursor = 0
         \/ frame[worker[d].request].status \notin Terminal \cup {"none"}
  PROVE  EndInv'
<1> DEFINE q == worker[d].request
           saved == [g EXCEPT !.revision = @ + 1]
           shown == [saved EXCEPT !.published = saved.revision]
<1>1. \A h \in {saved, shown} : h.status = g.status /\ h.node = g.node /\ h.journal = g.journal
  BY DEF FrameState
<1> HIDE DEF saved, shown
<1>2. \A h \in {saved, shown} : EndedFiles(h) /\ WorksOn(w, h)
  BY <1>1 DEF EndedFiles, WorksOn
<1>3. CASE /\ frame' = [frame EXCEPT ![q] = shown]
           /\ worker' = [worker EXCEPT ![d] = w]
           /\ UNCHANGED <<host, clock, calls, bounds>>
  <2>1. UNCHANGED link
    BY <1>3 DEF host
  <2> QED
    BY <1>2, <1>3, <2>1, EndStep
<1>4. CASE /\ frame' = [frame EXCEPT ![q] = saved]
           /\ \E after \in {Idle, [worker[d] EXCEPT !.phase = "failed"]} :
                 worker' = [worker EXCEPT ![d] = after]
           /\ UNCHANGED <<host, clock, calls, drives>>
  <2>1. PICK after \in {Idle, [worker[d] EXCEPT !.phase = "failed"]} :
           worker' = [worker EXCEPT ![d] = after]
    BY <1>4
  <2>2. after = Idle \/ (after.request = q /\ after.phase = "failed")
    BY Mine DEF Driver
  <2>3. UNCHANGED link
    BY <1>4 DEF host
  <2>4. after = Idle \/ (after.request = q /\ WorksOn(after, saved))
    BY <2>2, AtRest
  <2>5. frame' = [frame EXCEPT ![q] = saved] /\ EndedFiles(saved)
    BY <1>2, <1>4
  <2> QED
    BY <2>1, <2>3, <2>4, <2>5, EndStep
<1> QED
  BY <1>3, <1>4 DEF Save, saved, shown

\* A row of request q that tells of the end of the run only what its files say.
TrueRow(q, row) ==
    /\ row.cursor > 0 => row.started
    /\ row.status \in {"none", "queued", "deleted"} => row.cursor = 0
    /\ row.status \in Terminal /\ row.cursor > 0 /\ frame[q] # NoFrame
       => row.status = frame[q].status /\ row.cursor = frame[q].revision

\* What is left to show when the row of one request changes: the drivers.
LEMMA EndHost ==
  ASSUME IInv, EndInv, NEW q \in Requests, NEW row, TrueRow(q, row),
         link' = [link EXCEPT ![q] = row], UNCHANGED frame,
         \A e \in Drivers : WorksOn(worker[e], frame[worker[e].request])'
  PROVE  EndInv'
<1>1. \A p \in Requests : link'[p] = IF p = q THEN row ELSE link[p]
  BY DEF IInv, TypeOK
<1>2. (\A p \in Requests : EndedFiles(frame[p]))'
  BY DEF EndInv, EndedFiles
<1>3. CursorKnows'
  BY <1>1 DEF EndInv, CursorKnows, TrueRow
<1>4. ProjectionIsCurrent'
  BY <1>1 DEF EndInv, ProjectionIsCurrent, TrueRow
<1> QED
  BY <1>2, <1>3, <1>4 DEF EndInv

\* The row of a request changes under its driver, if it has one.
LEMMA EndRow ==
  ASSUME IInv, EndInv, NEW q \in Requests, NEW row, TrueRow(q, row),
         row.cursor = 0 \/ row.cursor = link[q].cursor,
         link' = [link EXCEPT ![q] = row], UNCHANGED <<frame, worker>>
  PROVE  EndInv'
<1>1. ASSUME NEW e \in Drivers PROVE WorksOn(worker[e], frame[worker[e].request])'
  <2>1. WorksOn(worker[e], frame[worker[e].request])
    BY DEF EndInv
  <2>2. worker[e].phase = "create" => worker[e].request \in Requests
    BY Lease
  <2>3. worker[e].phase = "create" => link'[worker[e].request].cursor = 0
    BY <2>1, <2>2 DEF WorksOn, IInv, TypeOK
  <2> QED
    BY <2>1, <2>3 DEF WorksOn
<1> QED
  BY <1>1, EndHost

\* The driver of a request changes its row and goes on or gives the lease back.
LEMMA EndDrive ==
  ASSUME IInv, EndInv, NEW d \in Drivers, worker[d].phase # "idle", NEW row, NEW w,
         TrueRow(worker[d].request, row),
         link' = [link EXCEPT ![worker[d].request] = row], UNCHANGED frame,
         worker' = [worker EXCEPT ![d] = w],
         \/ w = Idle
         \/ /\ w.request = worker[d].request /\ w.ask = {}
            /\ w.phase = "find" \/ (w.phase = "create" /\ row.cursor = 0)
  PROVE  EndInv'
<1> DEFINE q == worker[d].request
<1>0. q \in Requests /\ \A e \in Drivers : worker[e].request = q => e = d
  BY Lease
<1>1. ASSUME NEW e \in Drivers PROVE WorksOn(worker[e], frame[worker[e].request])'
  <2>0. worker'[e] = IF e = d THEN w ELSE worker[e]
    BY DEF IInv, TypeOK
  <2>1. CASE e # d /\ worker[e].phase # "idle"
    <3>1. WorksOn(worker[e], frame[worker[e].request])
      BY DEF EndInv
    <3>2. link'[worker[e].request] = link[worker[e].request]
      BY <1>0, <2>1, Lease DEF IInv, TypeOK
    <3> QED
      BY <2>0, <2>1, <3>1, <3>2 DEF WorksOn
  <2>2. CASE worker'[e].phase = "idle"
    BY <2>2 DEF WorksOn, OpenPhases, NodePhases, CallPhases
  <2>3. CASE worker'[e].request = q /\ worker'[e].phase = "find" /\ worker'[e].ask = {}
    BY <2>3 DEF WorksOn, OpenPhases, NodePhases, CallPhases
  <2>4. CASE worker'[e].request = q /\ worker'[e].phase = "create" /\ worker'[e].ask = {} /\ row.cursor = 0
    <3>1. link'[q].cursor = 0
      BY <1>0, <2>4 DEF IInv, TypeOK
    <3> QED
      BY <2>4, <3>1 DEF WorksOn, OpenPhases, NodePhases, CallPhases
  <2> QED
    BY <2>0, <2>1, <2>2, <2>3, <2>4 DEF Idle
<1> QED
  BY <1>0, <1>1, EndHost

\* What holds where a sidecar works on a run.
LEMMA EndMine ==
  ASSUME IInv, EndInv, NEW d \in Drivers, worker[d].phase # "idle"
  PROVE  /\ worker[d].request \in Requests
         /\ worker[d] \in Driver
         /\ worker \in [Drivers -> Driver]
         /\ frame[worker[d].request] \in FrameState
         /\ link[worker[d].request] \in LinkRow
         /\ EndedFiles(frame[worker[d].request])
         /\ WorksOn(worker[d], frame[worker[d].request])
         /\ Knows(worker[d], frame[worker[d].request])
         /\ Heard(worker[d].request) \in FrameState
         /\ Heard(worker[d].request).status = frame[worker[d].request].status
         /\ Heard(worker[d].request).node = frame[worker[d].request].node
         /\ Heard(worker[d].request).journal = frame[worker[d].request].journal
         /\ Heard(worker[d].request).revision = frame[worker[d].request].revision
<1>1. worker[d].request \in Requests /\ TypeOK /\ Knows(worker[d], frame[worker[d].request])
  BY Lease, Mine DEF IInv
<1>2. /\ worker \in [Drivers -> Driver] /\ frame \in [Requests -> FrameState]
      /\ link \in [Requests -> LinkRow]
  BY <1>1 DEF TypeOK
<1>3. EndedFiles(frame[worker[d].request]) /\ WorksOn(worker[d], frame[worker[d].request])
  BY <1>1 DEF EndInv
<1>4. Heard(worker[d].request).revision = frame[worker[d].request].revision
  BY <1>1, <1>2 DEF Heard, FrameState
<1> QED
  BY <1>1, <1>2, <1>3, <1>4, HeardOK

\* Only status, nodes and journal of existing files matter.
LEMMA SameEnds ==
  ASSUME NEW f, NEW g, NEW w, f.status # "none",
         g.status = f.status, g.node = f.node, g.journal = f.journal
  PROVE  (EndedFiles(f) => EndedFiles(g)) /\ (WorksOn(w, f) => WorksOn(w, g))
BY DEF EndedFiles, WorksOn

LEMMA RequestEnds ==
  ASSUME IInv, EndInv, NEW q \in Requests, Accept(q) \/ Cancel(q) \/ DeleteCase(q)
  PROVE  EndInv'
<1>0. link \in [Requests -> LinkRow] /\ link[q] \in LinkRow
  BY DEF IInv, TypeOK
<1>1. link[q].cursor > 0 => link[q].started /\ link[q].status \notin {"none", "queued", "deleted"}
  BY <1>0 DEF EndInv, CursorKnows, LinkRow
<1>3. UNCHANGED <<frame, worker>>
  BY DEF Accept, Cancel, DeleteCase
<1>4. CASE Accept(q)
  <2> DEFINE row == [link[q] EXCEPT !.status = "queued"]
  <2>1. link' = [link EXCEPT ![q] = row] /\ row.status = "queued" /\ row.cursor = link[q].cursor
        /\ link[q].cursor = 0
    BY <1>0, <1>4 DEF Accept, LinkRow, EndInv, CursorKnows
  <2> HIDE DEF row
  <2>2. TrueRow(q, row)
    BY <2>1 DEF TrueRow, Terminal
  <2> QED
    BY <1>3, <2>1, <2>2, EndRow
<1>5. CASE Cancel(q)
  <2> DEFINE status == IF link[q].status = "queued" THEN "cancelled" ELSE link[q].status
             row == [link[q] EXCEPT !.cancel = TRUE, !.status = status]
  <2>1. /\ link' = [link EXCEPT ![q] = row] /\ row.status = status /\ row.cursor = link[q].cursor
        /\ row.started = link[q].started
    BY <1>0, <1>5 DEF Cancel, LinkRow
  <2>2. status \in Terminal => link[q].cursor = 0
    BY <1>5 DEF Cancel, EndInv, CursorKnows
  <2>3. status \notin {"none", "queued", "deleted"}
    BY <1>5 DEF Cancel
  <2> HIDE DEF row, status
  <2>4. TrueRow(q, row)
    BY <1>0, <1>1, <2>1, <2>2, <2>3 DEF TrueRow, LinkRow
  <2> QED
    BY <1>3, <2>1, <2>4, EndRow
<1>6. CASE DeleteCase(q)
  <2> DEFINE row == [NoLink EXCEPT !.status = "deleted"]
  <2>1. link' = [link EXCEPT ![q] = row] /\ row.cursor = 0
    BY <1>6 DEF DeleteCase, NoLink
  <2> HIDE DEF row
  <2>2. TrueRow(q, row)
    BY <2>1 DEF TrueRow
  <2> QED
    BY <1>3, <2>1, <2>2, EndRow
<1> QED
  BY <1>4, <1>5, <1>6

\* A new lease begins without anything to ask, and lost files are nobody's.
LEMMA FreeEnds ==
  ASSUME IInv, EndInv, NEW q \in Requests,
         LoseState(q) \/ Tick(q) \/ \E d \in Drivers : Drive(d, q) \/ Purge(d, q)
  PROVE  EndInv'
<1>1. CASE LoseState(q)
  <2>1. UNCHANGED <<link, worker>> /\ frame' = [frame EXCEPT ![q] = NoFrame] /\ ~Leased(q)
    BY <1>1 DEF LoseState, host
  <2>2. \A p \in Requests : frame'[p] = IF p = q THEN NoFrame ELSE frame[p]
    BY <2>1 DEF IInv, TypeOK
  <2>a. EndedFiles(NoFrame)
    BY DEF EndedFiles, NoFrame, Terminal
  <2>3. \A p \in Requests : EndedFiles(frame'[p])
    BY <2>2, <2>a DEF EndInv
  <2>4. ASSUME NEW d \in Drivers PROVE WorksOn(worker[d], frame[worker[d].request])'
    <3>1. CASE worker[d].phase = "idle"
      BY <2>1, <3>1, AtRest DEF WorksOn, OpenPhases, NodePhases, CallPhases
    <3>2. CASE worker[d].phase # "idle"
      <4>1. frame'[worker[d].request] = frame[worker[d].request]
        BY <2>1, <2>2, <3>2, Lease DEF Leased
      <4>2. WorksOn(worker[d], frame[worker[d].request])
        BY DEF EndInv
      <4> QED
        BY <2>1, <4>1, <4>2 DEF WorksOn
    <3> QED
      BY <3>1, <3>2
  <2>5. CursorKnows' /\ ProjectionIsCurrent'
    BY <2>1, <2>2 DEF EndInv, CursorKnows, ProjectionIsCurrent
  <2> QED
    BY <2>3, <2>4, <2>5 DEF EndInv, EndedFiles
<1>2. CASE Tick(q)
  <2>1. UNCHANGED <<link, frame, worker>>
    BY <1>2 DEF Tick, host
  <2> QED
    BY <2>1 DEF EndInv, EndedFiles, WorksOn, CursorKnows, ProjectionIsCurrent
<1>3. ASSUME NEW d \in Drivers, Drive(d, q) \/ Purge(d, q) PROVE EndInv'
  <2>1. PICK command : TakeLease(d, q, command)
    BY <1>3 DEF Drive, Purge
  <2> DEFINE w == [Idle EXCEPT !.request = q, !.command = command,
                              !.phase = IF command = "purge" THEN "purge" ELSE "begin"]
  <2>2. UNCHANGED <<link, frame>> /\ worker' = [worker EXCEPT ![d] = w]
    BY <2>1 DEF TakeLease, host
  <2>3. w.phase \in {"purge", "begin"} /\ w.ask = {}
    BY DEF Idle
  <2> HIDE DEF w
  <2>4. \A e \in Drivers : worker'[e] = IF e = d THEN w ELSE worker[e]
    BY <2>2 DEF IInv, TypeOK
  <2>5. ASSUME NEW e \in Drivers PROVE WorksOn(worker[e], frame[worker[e].request])'
    <3>1. CASE e = d
      BY <2>3, <2>4, <3>1 DEF WorksOn, OpenPhases, NodePhases, CallPhases
    <3>2. CASE e # d
      <4>1. worker'[e] = worker[e] /\ WorksOn(worker[e], frame[worker[e].request])
        BY <2>4, <3>2 DEF EndInv
      <4> QED
        BY <2>2, <4>1 DEF WorksOn
    <3> QED
      BY <3>1, <3>2
  <2>6. (\A p \in Requests : EndedFiles(frame[p]))' /\ CursorKnows' /\ ProjectionIsCurrent'
    BY <2>2 DEF EndInv, EndedFiles, CursorKnows, ProjectionIsCurrent
  <2> QED
    BY <2>5, <2>6 DEF EndInv
<1> QED
  BY <1>1, <1>2, <1>3

LEMMA BeginEnds ==
  ASSUME IInv, EndInv, NEW d \in Drivers, Begin(d)
  PROVE  EndInv'
<1> DEFINE q == worker[d].request
           status == IF Expired(q) THEN "exhausted"
                     ELSE IF link[q].status = "queued" /\ worker[d].command # "inspect" THEN "running"
                     ELSE link[q].status
           row == [link[q] EXCEPT !.status = status]
           w == [worker[d] EXCEPT !.phase = "find", !.row = link[q]]
<1>0. worker[d].phase = "begin"
  BY DEF Begin
<1>1. /\ q \in Requests /\ worker[d] \in Driver /\ link[q] \in LinkRow
      /\ worker \in [Drivers -> Driver] /\ WorksOn(worker[d], frame[q])
  BY <1>0, EndMine
<1>2. /\ link' = [link EXCEPT ![q] = row]
      /\ UNCHANGED frame
      /\ worker' = [worker EXCEPT ![d] = Idle] \/ worker' = [worker EXCEPT ![d] = w]
  BY <1>1 DEF Begin, Release, Driver
<1>3. row.cursor = link[q].cursor /\ row.started = link[q].started /\ row.status = status
  BY <1>1 DEF LinkRow
<1>4. w.request = q /\ w.phase = "find" /\ w.ask = {}
  BY <1>0, <1>1 DEF Driver, WorksOn
<1>5. /\ link[q].cursor > 0 => status = link[q].status \/ status = "running"
      /\ status \in {"none", "queued", "deleted"} => status = link[q].status
      /\ status = link[q].status \/ status \notin Terminal \/ link[q].cursor = 0
  BY <1>1 DEF Expired, Terminal, LinkRow
<1> HIDE DEF row, w, status
<1>6. /\ row.cursor > 0 => row.started
      /\ row.status \in {"none", "queued", "deleted"} => row.cursor = 0
  BY <1>1, <1>3, <1>5 DEF EndInv, CursorKnows
<1>7. row.status \in Terminal /\ row.cursor > 0 /\ frame[q] # NoFrame
      => row.status = frame[q].status /\ row.cursor = frame[q].revision
  <2>1. link[q].cursor > 0 /\ status \in Terminal => status = link[q].status
    BY <1>1, <1>5 DEF LinkRow, Terminal
  <2> QED
    BY <1>1, <1>3, <2>1 DEF EndInv, ProjectionIsCurrent
<1>8. TrueRow(q, row)
  BY <1>6, <1>7 DEF TrueRow
<1> QED
  BY <1>0, <1>2, <1>4, <1>8, EndDrive

LEMMA AuthorizeEnds ==
  ASSUME IInv, EndInv, NEW d \in Drivers, AuthorizeStart(d)
  PROVE  EndInv'
<1> DEFINE q == worker[d].request
           row == [link[q] EXCEPT !.started = TRUE]
           w == [worker[d] EXCEPT !.phase = "create"]
<1>0. worker[d].phase = "start" /\ ~Gone(q)
  BY DEF AuthorizeStart, At
<1>1. /\ q \in Requests /\ worker[d] \in Driver /\ link[q] \in LinkRow
      /\ worker \in [Drivers -> Driver] /\ WorksOn(worker[d], frame[q])
  BY <1>0, EndMine
<1>2. CASE StartAllowed(q)
  <2>1. link' = [link EXCEPT ![q] = row] /\ UNCHANGED frame /\ worker' = [worker EXCEPT ![d] = w]
    BY <1>1, <1>2 DEF AuthorizeStart, Goto, Driver, LinkRow
  <2>2. row.started /\ row.status = link[q].status /\ row.cursor = link[q].cursor
    BY <1>1 DEF LinkRow
  <2>3. link[q].cursor = 0
    BY <1>1, <1>2 DEF StartAllowed, EndInv, CursorKnows, LinkRow
  <2>4. w.request = q /\ w.phase = "create" /\ w.ask = {}
    BY <1>0, <1>1 DEF Driver, WorksOn
  <2> HIDE DEF row, w
  <2>5. TrueRow(q, row)
    BY <2>2, <2>3 DEF TrueRow
  <2> QED
    BY <1>0, <2>1, <2>2, <2>3, <2>4, <2>5, EndDrive
<1>3. CASE ~StartAllowed(q)
  <2> DEFINE v == [worker[d] EXCEPT !.phase = "failed"]
  <2>1. UNCHANGED <<link, frame>> /\ worker' = [worker EXCEPT ![d] = v]
    BY <1>1, <1>3 DEF AuthorizeStart, Goto, Driver
  <2>2. v.request = q /\ v.phase = "failed"
    BY <1>1 DEF Driver
  <2> HIDE DEF v
  <2>3. WorksOn(v, frame[q])
    BY <2>2, AtRest
  <2> QED
    BY <1>0, <2>1, <2>2, <2>3, EndQuiet
<1> QED
  BY <1>2, <1>3

\* A driver goes on to a phase in which it works on nothing.
LEMMA EndRest ==
  ASSUME IInv, EndInv, NEW d \in Drivers, worker[d].phase # "idle",
         UNCHANGED <<link, frame>>,
         Release(d) \/ \E phase \in {"failed", "result", "purge", "purging"} : Goto(d, phase)
  PROVE  EndInv'
<1>1. CASE Release(d)
  BY <1>1, EndQuiet DEF Release
<1>2. ASSUME NEW phase \in {"failed", "result", "purge", "purging"}, Goto(d, phase)
      PROVE  EndInv'
  <2> DEFINE w == [worker[d] EXCEPT !.phase = phase]
  <2>1. worker[d] \in Driver /\ worker \in [Drivers -> Driver]
    BY EndMine
  <2>2. worker' = [worker EXCEPT ![d] = w] /\ w.request = worker[d].request /\ w.phase = phase
    BY <1>2, <2>1 DEF Goto, Driver
  <2> HIDE DEF w
  <2>3. WorksOn(w, frame[worker[d].request])
    BY <2>2, AtRest
  <2> QED
    BY <2>2, <2>3, EndQuiet
<1> QED
  BY <1>1, <1>2

\* What a sidecar hears of a cancellation goes into its files and changes no end.
LEMMA EndHeard ==
  ASSUME IInv, EndInv, NEW d \in Drivers, worker[d].phase # "idle",
         frame[worker[d].request].status # "none",
         NEW f, f.status = frame[worker[d].request].status, f.node = frame[worker[d].request].node,
         f.journal = frame[worker[d].request].journal,
         f.revision = frame[worker[d].request].revision, NEW w,
         frame' = [frame EXCEPT ![worker[d].request] = f],
         worker' = [worker EXCEPT ![d] = w], UNCHANGED link,
         w.request = worker[d].request, WorksOn(w, frame[worker[d].request])
  PROVE  EndInv'
<1>1. EndedFiles(frame[worker[d].request])
  BY EndMine
<1>2. EndedFiles(f) /\ WorksOn(w, f)
  BY <1>1, SameEnds
<1> QED
  BY <1>2, EndStep

LEMMA FindEnds ==
  ASSUME IInv, EndInv, NEW d \in Drivers, FindRun(d)
  PROVE  EndInv'
<1> DEFINE q == worker[d].request
           f == frame[q]
           g == Heard(q)
           resumed == [g EXCEPT !.published = g.revision]
<1>0. worker[d].phase = "find" /\ worker[d].phase # "idle" /\ UNCHANGED link
  BY DEF FindRun, At, host
<1>1. /\ worker[d] \in Driver /\ worker \in [Drivers -> Driver] /\ EndedFiles(f) /\ f \in FrameState
      /\ WorksOn(worker[d], f) /\ g.status = f.status /\ g.node = f.node
      /\ g.journal = f.journal /\ g.revision = f.revision /\ g \in FrameState
  BY <1>0, EndMine
<1>2. worker[d].ask = {}
  BY <1>0, <1>1 DEF WorksOn
<1>3. ASSUME UNCHANGED frame, NEW phase \in {"failed", "start"}, Goto(d, phase)
      PROVE  EndInv'
  <2> DEFINE w == [worker[d] EXCEPT !.phase = phase]
  <2>1. worker' = [worker EXCEPT ![d] = w] /\ w.request = q /\ w.phase = phase /\ w.ask = {}
    BY <1>1, <1>2, <1>3 DEF Goto, Driver
  <2> HIDE DEF w
  <2>2. WorksOn(w, f)
    BY <2>1 DEF WorksOn, OpenPhases, NodePhases, CallPhases
  <2> QED
    BY <1>0, <1>3, <2>1, <2>2, EndQuiet
<1>4. ASSUME f.status # "none", frame' = [frame EXCEPT ![q] = g],
             NEW phase \in {"failed", "approve", "result"}, Goto(d, phase),
             phase = "approve" => Waiting(g) # {}
      PROVE  EndInv'
  <2> DEFINE w == [worker[d] EXCEPT !.phase = phase]
  <2>1. worker' = [worker EXCEPT ![d] = w] /\ w.request = q /\ w.phase = phase /\ w.ask = {}
    BY <1>1, <1>2, <1>4 DEF Goto, Driver
  <2>2. phase = "approve" => f.status \notin Terminal
    BY <1>1, <1>4 DEF Waiting, EndedFiles
  <2> HIDE DEF w, g, f
  <2>3. WorksOn(w, f)
    BY <2>1, <2>2 DEF WorksOn, OpenPhases, NodePhases, CallPhases
  <2> QED
    BY <1>0, <1>1, <1>4, <2>1, <2>3, EndHeard DEF f
<1>5. ASSUME f.status # "none", frame' = [frame EXCEPT ![q] = resumed],
             NEW phase \in {"result", "settle"}, phase = "settle" => g.status \notin Terminal,
             worker' = [worker EXCEPT ![d].phase = phase, ![d].todo = Unsettled(g)]
      PROVE  EndInv'
  <2> DEFINE w == [worker[d] EXCEPT !.phase = phase, !.todo = Unsettled(g)]
  <2>1. worker' = [worker EXCEPT ![d] = w] /\ w.request = q /\ w.phase = phase /\ w.ask = {}
    BY <1>1, <1>2, <1>5 DEF Driver
  <2>2. /\ resumed.status = f.status /\ resumed.node = f.node /\ resumed.journal = f.journal
        /\ resumed.revision = f.revision
    <3> HIDE DEF g, f
    <3> QED
      BY <1>1 DEF FrameState
  <2> HIDE DEF w, g, f, resumed
  <2>3. WorksOn(w, f)
    BY <1>1, <1>5, <2>1 DEF WorksOn, OpenPhases, NodePhases, CallPhases
  <2> QED
    BY <1>0, <1>1, <1>5, <2>1, <2>2, <2>3, EndHeard DEF f
<1> HIDE DEF resumed
<1> QED
  BY <1>3, <1>4, <1>5 DEF FindRun, resumed

LEMMA CreateEnds ==
  ASSUME IInv, EndInv, NEW d \in Drivers, CreateRun(d)
  PROVE  EndInv'
<1> DEFINE q == worker[d].request
           g == [NoFrame EXCEPT !.status = "running"]
           w == [worker[d] EXCEPT !.phase = "settle", !.command = "start"]
<1>0. worker[d].phase = "create" /\ worker[d].phase # "idle" /\ Save(d, g, w)
  BY DEF CreateRun, At
<1>1. worker[d] \in Driver /\ WorksOn(worker[d], frame[q])
  BY <1>0, EndMine
<1>2. /\ g \in FrameState /\ g.status = "running"
      /\ \A n \in Nodes : g.node[n] = "pending"
  BY DEF FrameState, NoFrame, NodeStates
<1>3. w.request = q /\ w.phase = "settle" /\ w.ask = {} /\ link[q].cursor = 0
  BY <1>0, <1>1 DEF Driver, WorksOn
<1> HIDE DEF g, w
<1>4. EndedFiles(g) /\ WorksOn(w, g)
  BY <1>2, <1>3 DEF EndedFiles, WorksOn, Terminal, OpenPhases, NodePhases, CallPhases
<1> QED
  BY <1>0, <1>2, <1>3, <1>4, EndSave

\* What is known of a run that a sidecar is in the middle of.
LEMMA EndOpen ==
  ASSUME IInv, EndInv, NEW d \in Drivers, worker[d].phase \in OpenPhases
  PROVE  /\ worker[d].phase # "idle" /\ worker[d].phase \in SidecarPhases
         /\ frame[worker[d].request].status \notin Terminal \cup {"none"}
         /\ \A n \in worker[d].ask : n \in Nodes /\ frame[worker[d].request].node[n] = "unknown"
         /\ worker[d].phase \in NodePhases =>
              worker[d].node \in Nodes /\ frame[worker[d].request].node[worker[d].node] = "admitted"
<1>1. worker[d].phase # "idle" /\ worker[d].phase \in SidecarPhases
  BY DEF OpenPhases, NodePhases, CallPhases, SidecarPhases
<1>2. /\ WorksOn(worker[d], frame[worker[d].request]) /\ Knows(worker[d], frame[worker[d].request])
      /\ worker[d] \in Driver
  BY <1>1, EndMine
<1>3. frame[worker[d].request].status # "none"
  BY <1>2 DEF Knows, OpenPhases, NodePhases, CallPhases, SidecarPhases
<1>4. worker[d].phase = "approve" => worker[d].ask = {}
  BY <1>2 DEF WorksOn
<1>5. worker[d].ask \in SUBSET Nodes
  BY <1>2 DEF Driver
<1> QED
  BY <1>1, <1>2, <1>3, <1>4, <1>5 DEF WorksOn, Knows

\* A sidecar that stops at a cancellation or the deadline finishes its run.
LEMMA StopEnds ==
  ASSUME IInv, EndInv, NEW d \in Drivers, worker[d].phase \in OpenPhases,
         NEW f, f.status = frame[worker[d].request].status, f.node = frame[worker[d].request].node,
         f.journal = frame[worker[d].request].journal,
         f.revision = frame[worker[d].request].revision, NEW w,
         frame' = [frame EXCEPT ![worker[d].request] = f],
         worker' = [worker EXCEPT ![d] = w], UNCHANGED link,
         w.request = worker[d].request, w.phase = "finish", w.ask = worker[d].ask
  PROVE  EndInv'
<1>1. WorksOn(w, frame[worker[d].request])
  BY EndOpen DEF WorksOn, OpenPhases, NodePhases, CallPhases
<1> QED
  BY <1>1, EndOpen, EndHeard

LEMMA ApproveEnds ==
  ASSUME IInv, EndInv, NEW d \in Drivers, ApproveNode(d)
  PROVE  EndInv'
<1> DEFINE q == worker[d].request
           f == frame[q]
           h == Heard(q)
           g == [h EXCEPT !.published = f.revision]
           n == First(Waiting(g))
           a == [g EXCEPT !.node[n] = "admitted"]
           admitted == [a EXCEPT !.status = "running"]
<1>0. worker[d].phase = "approve" /\ worker[d].phase # "idle"
  BY DEF ApproveNode, At
<1>1. /\ worker[d] \in Driver /\ worker \in [Drivers -> Driver] /\ EndedFiles(f) /\ f \in FrameState
      /\ WorksOn(worker[d], f) /\ h.status = f.status /\ h.node = f.node
      /\ h.journal = f.journal /\ h.revision = f.revision /\ h \in FrameState
  BY <1>0, EndMine
<1>2. worker[d].phase \in OpenPhases /\ worker[d].ask = {} /\ f.status \notin Terminal \cup {"none"}
  <2>1. worker[d].phase \in OpenPhases
    BY <1>0 DEF OpenPhases
  <2> QED
    BY <1>0, <1>1, <2>1, EndOpen DEF WorksOn
<1>3. /\ g \in FrameState /\ g.status = f.status /\ g.node = f.node /\ g.journal = f.journal
      /\ g.revision = f.revision
  <2> HIDE DEF h, f
  <2> QED
    BY <1>1 DEF FrameState
<1>4. CASE StopReason(q) # "none"
  <2> DEFINE w == [worker[d] EXCEPT !.phase = "finish", !.stop = StopReason(q)]
  <2>1. w.request = q /\ w.phase = "finish" /\ w.ask = worker[d].ask
    BY <1>1 DEF Driver
  <2>2. /\ frame' = [frame EXCEPT ![q] = g] /\ worker' = [worker EXCEPT ![d] = w]
        /\ UNCHANGED link
    BY <1>1, <1>4 DEF ApproveNode, host
  <2> HIDE DEF w, g
  <2> QED
    BY <1>2, <1>3, <2>1, <2>2, StopEnds
<1>5. CASE StopReason(q) = "none"
  <2> DEFINE w == [worker[d] EXCEPT !.phase = "settle", !.todo = Unsettled(admitted)]
  <2>1. Save(d, admitted, w)
    BY <1>5 DEF ApproveNode
  <2>2. w.request = q /\ w.phase = "settle" /\ w.ask = {}
    BY <1>1, <1>2 DEF Driver
  <2> HIDE DEF h, n, w, g, f
  <2>3. a \in FrameState /\ a.node = [g.node EXCEPT ![n] = "admitted"] /\ a.journal = g.journal
    BY <1>3, SetNode DEF NodeStates
  <2> HIDE DEF a
  <2>4. admitted \in FrameState /\ admitted.status = "running" /\ admitted.node = a.node
        /\ admitted.journal = a.journal
    BY <2>3, SetStatus
  <2> HIDE DEF admitted
  <2>5. \A m \in Nodes : admitted.node[m] = "unknown" => f.node[m] = "unknown"
    <3>1. g.node \in [Nodes -> NodeStates]
      BY <1>3 DEF FrameState
    <3> QED
      BY <1>3, <2>3, <2>4, <3>1
  <2>6. EndedFiles(admitted)
    BY <1>1, <1>3, <2>3, <2>4, <2>5 DEF EndedFiles, Terminal
  <2>7. WorksOn(w, admitted)
    BY <2>2, <2>4 DEF WorksOn, Terminal, OpenPhases, NodePhases, CallPhases
  <2> QED
    BY <1>0, <1>2, <2>1, <2>2, <2>4, <2>6, <2>7, EndSave DEF f
<1> QED
  BY <1>4, <1>5

LEMMA SettleEnds ==
  ASSUME IInv, EndInv, NEW d \in Drivers, SettleNode(d)
  PROVE  EndInv'
<1> DEFINE q == worker[d].request
           f == frame[q]
           g == Heard(q)
           n == First(worker[d].todo)
           rest == [worker[d] EXCEPT !.todo = @ \ {n}]
           x == IF g.journal[n] = "completed" THEN "completed" ELSE "unknown"
           h == [g EXCEPT !.node[n] = x]
<1>0. worker[d].phase = "settle" /\ worker[d].phase # "idle" /\ worker[d].phase \in OpenPhases
  BY DEF SettleNode, At, OpenPhases
<1>1. /\ worker[d] \in Driver /\ worker \in [Drivers -> Driver] /\ EndedFiles(f) /\ f \in FrameState
      /\ Knows(worker[d], f) /\ g.status = f.status /\ g.node = f.node
      /\ g.journal = f.journal /\ g \in FrameState
  BY <1>0, EndMine
<1>2. /\ f.status \notin Terminal \cup {"none"}
      /\ \A m \in worker[d].ask : m \in Nodes /\ f.node[m] = "unknown"
  BY <1>0, EndOpen
<1>3. worker[d].todo \in SUBSET Nodes /\ \A m \in worker[d].todo : OpenNode(f, m)
  <2> HIDE DEF f
  <2> QED
    BY <1>0, <1>1 DEF Driver, Knows
<1>4. CASE worker[d].todo = {} /\ Goto(d, "advance") /\ UNCHANGED <<host, clock, frame, calls, bounds>>
  <2> DEFINE w == [worker[d] EXCEPT !.phase = "advance"]
  <2>1. worker' = [worker EXCEPT ![d] = w] /\ w.request = q /\ w.phase = "advance" /\ w.ask = worker[d].ask
    BY <1>1, <1>4 DEF Goto, Driver
  <2>2. UNCHANGED <<link, frame>>
    BY <1>4 DEF host
  <2> HIDE DEF w
  <2>3. WorksOn(w, frame[q])
    BY <1>2, <2>1 DEF WorksOn, OpenPhases, NodePhases, CallPhases
  <2> QED
    BY <1>0, <2>1, <2>2, <2>3, EndQuiet
<1>5. CASE worker[d].todo # {} /\ g.journal[n] = "none"
           /\ worker' = [worker EXCEPT ![d] = [rest EXCEPT !.phase = "admitted", !.node = n]]
           /\ UNCHANGED <<host, clock, frame, calls, bounds>>
  <2>0. n \in worker[d].todo
    BY <1>3, <1>5, FirstIn
  <2> DEFINE w == [rest EXCEPT !.phase = "admitted", !.node = n]
  <2> HIDE DEF n
  <2>1. w.request = q /\ w.phase = "admitted" /\ w.node = n /\ w.ask = worker[d].ask
    BY <1>1 DEF Driver
  <2>2. worker' = [worker EXCEPT ![d] = w] /\ UNCHANGED <<link, frame>>
    BY <1>5 DEF host
  <2>3. f.node[n] = "admitted"
    <3>1. n \in Nodes /\ OpenNode(f, n) /\ f.journal[n] = "none"
      BY <1>1, <1>3, <1>5, <2>0
    <3> QED
      BY <1>1, <3>1 DEF OpenNode, EndedFiles
  <2> HIDE DEF w
  <2>4. WorksOn(w, frame[q])
    BY <1>2, <2>1, <2>3 DEF WorksOn, OpenPhases, NodePhases, CallPhases
  <2> QED
    BY <1>0, <2>1, <2>2, <2>4, EndQuiet
<1>6. CASE worker[d].todo # {} /\ g.journal[n] # "none" /\ Save(d, h, rest)
  <2>0. n \in worker[d].todo /\ n \in Nodes
    BY <1>3, <1>6, FirstIn
  <2> HIDE DEF n, g, f
  <2>1. x \in NodeStates /\ (x = "completed" <=> g.journal[n] = "completed") /\ x \in {"completed", "unknown"}
    BY DEF NodeStates
  <2> HIDE DEF x
  <2>2. h \in FrameState /\ h.node = [g.node EXCEPT ![n] = x] /\ h.journal = g.journal /\ h.status = g.status
    <3>1. g \in FrameState
      BY <1>1
    <3> QED
      BY <2>1, <3>1 DEF FrameState
  <2>3. rest.request = q /\ rest.phase = "settle" /\ rest.ask = worker[d].ask
    BY <1>0, <1>1 DEF Driver
  <2> HIDE DEF h, rest
  <2>4. /\ g.node \in [Nodes -> NodeStates]
        /\ g.journal \in [Nodes -> {"none", "started", "completed", "failed"}]
    BY <1>1 DEF FrameState
  <2>5. \A m \in Nodes : h.node[m] = IF m = n THEN x ELSE f.node[m]
    BY <1>1, <2>0, <2>2, <2>4
  <2>6. EndedFiles(h)
    BY <1>1, <1>2, <1>6, <2>0, <2>1, <2>2, <2>4, <2>5 DEF EndedFiles
  <2>7. \A m \in rest.ask : h.node[m] = "unknown"
    <3>1. \A m \in worker[d].ask : m \in Nodes /\ f.node[m] = "unknown" /\ f.journal[m] # "completed"
      BY <1>1, <1>2 DEF EndedFiles, f
    <3> QED
      BY <1>1, <2>1, <2>3, <2>5, <3>1
  <2>8. WorksOn(rest, h)
    BY <1>1, <1>2, <2>2, <2>3, <2>7 DEF WorksOn, OpenPhases, NodePhases, CallPhases
  <2> QED
    BY <1>0, <1>1, <1>2, <1>6, <2>2, <2>3, <2>6, <2>8, EndSave DEF f
<1> QED
  BY <1>4, <1>5, <1>6 DEF SettleNode

LEMMA AdvanceEnds ==
  ASSUME IInv, EndInv, NEW d \in Drivers, Advance(d)
  PROVE  EndInv'
<1> DEFINE q == worker[d].request
           f == frame[q]
           g == Heard(q)
           n == First(Ready(g))
           waits == [g EXCEPT !.node[n] = "awaiting"]
           admitted == [g EXCEPT !.node[n] = "admitted", !.status = "running"]
           w == [worker[d] EXCEPT !.phase = "admitted", !.node = n]
<1>0. worker[d].phase = "advance" /\ worker[d].phase # "idle" /\ worker[d].phase \in OpenPhases
  BY DEF Advance, At, OpenPhases
<1>1. /\ worker[d] \in Driver /\ worker \in [Drivers -> Driver] /\ EndedFiles(f) /\ f \in FrameState
      /\ g.status = f.status /\ g.node = f.node /\ g.revision = f.revision
      /\ g.journal = f.journal /\ g \in FrameState
  BY <1>0, EndMine
<1>2. /\ f.status \notin Terminal \cup {"none"}
      /\ \A m \in worker[d].ask : m \in Nodes /\ f.node[m] = "unknown"
  BY <1>0, EndOpen
<1>3. ASSUME NEW why, frame' = [frame EXCEPT ![q] = g], Finishing(d, why), UNCHANGED link
      PROVE  EndInv'
  <2> DEFINE v == [worker[d] EXCEPT !.phase = "finish", !.stop = why]
  <2>1. worker' = [worker EXCEPT ![d] = v] /\ v.request = q /\ v.phase = "finish" /\ v.ask = worker[d].ask
    BY <1>1, <1>3 DEF Finishing, Driver
  <2> HIDE DEF v, g
  <2> QED
    BY <1>0, <1>1, <1>3, <2>1, StopEnds
<1>4. ASSUME Ready(g) # {}, Save(d, waits, worker[d]) \/ Save(d, admitted, w)
      PROVE  EndInv'
  <2>1. n \in Nodes /\ g.node[n] = "pending"
    BY <1>4, FirstIn DEF Ready
  <2>2. w.request = q /\ w.phase = "admitted" /\ w.node = n /\ w.ask = worker[d].ask
    BY <1>1 DEF Driver
  <2> HIDE DEF n, g, w, f
  <2>3. g.node \in [Nodes -> NodeStates]
    BY <1>1 DEF FrameState
  <2>4. \A h \in {waits, admitted} :
           /\ h \in FrameState /\ h.journal = g.journal
           /\ h.status \notin Terminal \cup {"none"}
           /\ \A m \in Nodes : h.node[m] = IF m = n THEN h.node[n] ELSE f.node[m]
           /\ h.node[n] \in {"awaiting", "admitted"}
    <3>1. /\ waits \in FrameState /\ waits.journal = g.journal /\ waits.status = g.status
          /\ waits.node = [g.node EXCEPT ![n] = "awaiting"]
      BY <1>1, SetNode DEF NodeStates
    <3>2. /\ admitted \in FrameState /\ admitted.journal = g.journal /\ admitted.status = "running"
          /\ admitted.node = [g.node EXCEPT ![n] = "admitted"]
      <4>1. g \in FrameState
        BY <1>1
      <4> QED
        BY <4>1 DEF FrameState, NodeStates
    <3> HIDE DEF waits, admitted
    <3> QED
      BY <1>1, <1>2, <2>1, <2>3, <3>1, <3>2 DEF Terminal
  <2>a. admitted.node[n] = "admitted"
    BY <1>1, <2>1, <2>3 DEF FrameState
  <2> HIDE DEF waits, admitted
  <2>5. EndedFiles(waits) /\ EndedFiles(admitted)
    BY <1>1, <2>1, <2>4 DEF EndedFiles
  <2>6. \A m \in worker[d].ask : waits.node[m] = "unknown" /\ admitted.node[m] = "unknown"
    BY <1>1, <1>2, <2>1, <2>4
  <2>7. WorksOn(worker[d], waits)
    BY <1>0, <2>4, <2>6 DEF WorksOn, OpenPhases, NodePhases, CallPhases
  <2>8. WorksOn(w, admitted)
    BY <2>2, <2>4, <2>6, <2>a DEF WorksOn, OpenPhases, NodePhases, CallPhases
  <2>9. CASE Save(d, waits, worker[d])
    BY <1>0, <1>2, <2>4, <2>5, <2>7, <2>9, EndSave DEF f
  <2>10. CASE Save(d, admitted, w)
    BY <1>0, <1>2, <2>2, <2>4, <2>5, <2>8, <2>10, EndSave DEF f
  <2> QED
    BY <1>4, <2>9, <2>10
<1> QED
  BY <1>3, <1>4 DEF Advance, host

LEMMA DispatchEnds ==
  ASSUME IInv, EndInv, NEW d \in Drivers, Dispatch(d)
  PROVE  EndInv'
<1> DEFINE q == worker[d].request
           f == frame[q]
           g == Heard(q)
           n == worker[d].node
           h == [g EXCEPT !.journal[n] = "started"]
<1>0. worker[d].phase = "admitted" /\ worker[d].phase # "idle" /\ worker[d].phase \in OpenPhases /\ UNCHANGED link
  BY DEF Dispatch, At, OpenPhases, NodePhases, host
<1>1. /\ worker[d] \in Driver /\ worker \in [Drivers -> Driver] /\ EndedFiles(f) /\ f \in FrameState
      /\ g.status = f.status /\ g.node = f.node /\ g.revision = f.revision
      /\ g.journal = f.journal /\ g \in FrameState
  BY <1>0, EndMine
<1>2. /\ f.status \notin Terminal \cup {"none"}
      /\ \A m \in worker[d].ask : m \in Nodes /\ f.node[m] = "unknown"
      /\ n \in Nodes /\ f.node[n] = "admitted"
  BY <1>0, EndOpen DEF NodePhases
<1>3. CASE StopReason(q) # "none"
  <2> DEFINE v == [worker[d] EXCEPT !.phase = "finish", !.stop = StopReason(q)]
  <2>1. /\ worker' = [worker EXCEPT ![d] = v] /\ v.request = q /\ v.phase = "finish" /\ v.ask = worker[d].ask
        /\ frame' = [frame EXCEPT ![q] = g]
    BY <1>1, <1>3 DEF Dispatch, Finishing, Driver
  <2> HIDE DEF v, g
  <2> QED
    BY <1>0, <1>1, <2>1, StopEnds
<1>4. CASE StopReason(q) = "none"
  <2> DEFINE w == [worker[d] EXCEPT !.phase = "started"]
  <2>1. /\ worker' = [worker EXCEPT ![d] = w] /\ w.request = q /\ w.phase = "started" /\ w.ask = worker[d].ask
        /\ w.node = n /\ frame' = [frame EXCEPT ![q] = h]
    BY <1>1, <1>4 DEF Dispatch, Goto, Driver
  <2> HIDE DEF w, n, g, f
  <2>2. h.journal = [g.journal EXCEPT ![n] = "started"] /\ h.status = g.status /\ h.node = g.node
    <3>1. g \in FrameState
      BY <1>1
    <3> QED
      BY <3>1 DEF FrameState
  <2> HIDE DEF h
  <2>3. EndedFiles(h)
    <3>1. g.journal \in [Nodes -> {"none", "started", "completed", "failed"}]
      BY <1>1 DEF FrameState
    <3> QED
      BY <1>1, <1>2, <2>2, <3>1 DEF EndedFiles
  <2>4. WorksOn(w, h)
    BY <1>1, <1>2, <2>1, <2>2 DEF WorksOn, OpenPhases, NodePhases, CallPhases
  <2> QED
    BY <1>0, <1>2, <2>1, <2>3, <2>4, EndStep DEF f
<1> QED
  BY <1>3, <1>4

LEMMA AttemptEnds ==
  ASSUME IInv, EndInv, NEW d \in Drivers, Attempt(d)
  PROVE  EndInv'
<1> DEFINE q == worker[d].request
           f == frame[q]
           g == Heard(q)
           n == worker[d].node
           h == [g EXCEPT !.node[n] = "unknown"]
<1>0. worker[d].phase = "started" /\ worker[d].phase # "idle" /\ worker[d].phase \in OpenPhases
  BY DEF Attempt, At, OpenPhases, NodePhases
<1>1. /\ worker[d] \in Driver /\ worker \in [Drivers -> Driver] /\ EndedFiles(f) /\ f \in FrameState
      /\ Knows(worker[d], f) /\ g.status = f.status /\ g.node = f.node
      /\ g.journal = f.journal /\ g \in FrameState
  BY <1>0, EndMine
<1>2. /\ f.status \notin Terminal \cup {"none"}
      /\ \A m \in worker[d].ask : m \in Nodes /\ f.node[m] = "unknown"
      /\ n \in Nodes /\ f.node[n] = "admitted"
  BY <1>0, EndOpen DEF NodePhases
<1>3. f.journal[n] = "started"
  <2> HIDE DEF f
  <2> QED
    BY <1>0, <1>1 DEF Knows
<1>4. CASE StopReason(q) # "none"
  <2> DEFINE w == [worker[d] EXCEPT !.phase = "finish", !.stop = StopReason(q)]
  <2>1. Save(d, h, w) /\ w.request = q /\ w.phase = "finish" /\ w.ask = worker[d].ask
    BY <1>1, <1>4 DEF Attempt, Driver
  <2> HIDE DEF w, n, g, f
  <2>2. h \in FrameState /\ h.node = [g.node EXCEPT ![n] = "unknown"] /\ h.journal = g.journal /\ h.status = g.status
    <3>1. g \in FrameState
      BY <1>1
    <3> QED
      BY <3>1 DEF FrameState, NodeStates
  <2>3. g.node \in [Nodes -> NodeStates]
    BY <1>1 DEF FrameState
  <2> HIDE DEF h
  <2>4. EndedFiles(h)
    BY <1>1, <1>2, <1>3, <2>2, <2>3 DEF EndedFiles
  <2>5. \A m \in w.ask : h.node[m] = "unknown"
    BY <1>1, <1>2, <2>1, <2>2, <2>3
  <2>6. WorksOn(w, h)
    BY <1>1, <1>2, <2>1, <2>2, <2>5 DEF WorksOn, OpenPhases, NodePhases, CallPhases
  <2> QED
    BY <1>0, <1>1, <1>2, <2>1, <2>2, <2>4, <2>6, EndSave DEF f
<1>5. CASE StopReason(q) = "none"
  <2> DEFINE w == [worker[d] EXCEPT !.phase = "call"]
  <2>1. /\ worker' = [worker EXCEPT ![d] = w] /\ w.request = q /\ w.phase = "call" /\ w.ask = worker[d].ask
        /\ w.node = n /\ UNCHANGED <<link, frame>>
    BY <1>1, <1>5 DEF Attempt, Goto, Driver, host
  <2> HIDE DEF w
  <2>2. WorksOn(w, frame[q])
    BY <1>2, <2>1 DEF WorksOn, OpenPhases, NodePhases, CallPhases
  <2> QED
    BY <1>0, <2>1, <2>2, EndQuiet
<1> QED
  BY <1>4, <1>5

LEMMA WriteEnds ==
  ASSUME IInv, EndInv, NEW d \in Drivers, Write(d)
  PROVE  EndInv'
<1>0. worker[d].phase = "call" /\ worker[d].phase \in OpenPhases /\ UNCHANGED <<link, frame>>
  BY DEF Write, At, OpenPhases, NodePhases, CallPhases
<1>1. /\ worker[d] \in Driver /\ worker \in [Drivers -> Driver] /\ worker[d].phase # "idle"
  BY <1>0, EndMine
<1>2. PICK phase \in {"applied", "denied"} : Goto(d, phase)
  BY DEF Write
<1> DEFINE w == [worker[d] EXCEPT !.phase = phase]
<1>3. /\ worker' = [worker EXCEPT ![d] = w] /\ w.request = worker[d].request /\ w.phase = phase
      /\ w.ask = worker[d].ask /\ w.node = worker[d].node
  BY <1>1, <1>2 DEF Goto, Driver
<1> HIDE DEF w
<1>4. WorksOn(w, frame[worker[d].request])
  BY <1>0, <1>3, EndOpen DEF WorksOn, OpenPhases, NodePhases, CallPhases
<1> QED
  BY <1>0, <1>1, <1>3, <1>4, EndQuiet

LEMMA AnsweredEnds ==
  ASSUME IInv, EndInv, NEW d \in Drivers, Answered(d)
  PROVE  EndInv'
<1> DEFINE q == worker[d].request
           f == frame[q]
           g == Heard(q)
           n == worker[d].node
           outcome == IF worker[d].phase = "applied" THEN "completed" ELSE "failed"
           h == [g EXCEPT !.journal[n] = outcome]
           w == [worker[d] EXCEPT !.phase = "settle", !.todo = @ \cup {n}]
<1>0. /\ worker[d].phase \in NodePhases /\ worker[d].phase # "idle" /\ worker[d].phase \in OpenPhases
      /\ UNCHANGED link
  BY DEF Answered, At, OpenPhases, NodePhases, CallPhases, host
<1>1. /\ worker[d] \in Driver /\ worker \in [Drivers -> Driver] /\ EndedFiles(f) /\ f \in FrameState
      /\ g.status = f.status /\ g.node = f.node /\ g.journal = f.journal /\ g \in FrameState
  BY <1>0, EndMine
<1>2. /\ f.status \notin Terminal \cup {"none"}
      /\ \A m \in worker[d].ask : m \in Nodes /\ f.node[m] = "unknown"
      /\ n \in Nodes /\ f.node[n] = "admitted"
  BY <1>0, EndOpen
<1>3. /\ worker' = [worker EXCEPT ![d] = w] /\ w.request = q /\ w.phase = "settle" /\ w.ask = worker[d].ask
      /\ frame' = [frame EXCEPT ![q] = h]
  BY <1>1 DEF Answered, Driver
<1> HIDE DEF w, n, g, f, outcome
<1>4. h.journal = [g.journal EXCEPT ![n] = outcome] /\ h.status = g.status /\ h.node = g.node
  <2>1. g \in FrameState
    BY <1>1
  <2> QED
    BY <2>1 DEF FrameState
<1> HIDE DEF h
<1>5. EndedFiles(h)
  <2>1. g.journal \in [Nodes -> {"none", "started", "completed", "failed"}]
    BY <1>1 DEF FrameState
  <2> QED
    BY <1>1, <1>2, <1>4, <2>1 DEF EndedFiles
<1>6. WorksOn(w, h)
  BY <1>1, <1>2, <1>3, <1>4 DEF WorksOn, OpenPhases, NodePhases, CallPhases
<1> QED
  BY <1>0, <1>2, <1>3, <1>5, <1>6, EndStep DEF f

LEMMA FinishEnds ==
  ASSUME IInv, EndInv, NEW d \in Drivers, FinishRun(d)
  PROVE  EndInv'
<1> DEFINE q == worker[d].request
           f == frame[q]
           g == Heard(q)
           unknown == {n \in Nodes : g.node[n] = "unknown"}
           stopped == worker[d].stop # "none" \/ clock[q] = 2 \/ g.cancel
           status == IF unknown # {} THEN "running"
                     ELSE IF stopped THEN (IF g.cancel THEN "cancelled" ELSE "exhausted")
                     ELSE IF Waiting(g) # {} THEN "awaiting_approval"
                     ELSE IF \A n \in Nodes : g.node[n] = "completed" THEN "succeeded" ELSE "failed"
           nodes == [n \in Nodes |-> IF status \in {"cancelled", "exhausted"} /\ g.node[n] # "completed"
                                     THEN "cancelled" ELSE g.node[n]]
           h == [g EXCEPT !.status = status, !.node = nodes]
           w == [worker[d] EXCEPT !.phase = IF worker[d].command = "recover" THEN "reconcile" ELSE "result",
                                  !.stop = "none", !.listed = TRUE,
                                  !.ask = IF worker[d].listed THEN @ ELSE unknown]
<1>0. worker[d].phase = "finish" /\ worker[d].phase # "idle" /\ worker[d].phase \in OpenPhases /\ Save(d, h, w)
  BY DEF FinishRun, At, OpenPhases
<1>1. /\ worker[d] \in Driver /\ EndedFiles(f) /\ f \in FrameState /\ g \in FrameState
      /\ g.status = f.status /\ g.node = f.node /\ g.journal = f.journal
  BY <1>0, EndMine
<1>2. /\ f.status \notin Terminal \cup {"none"}
      /\ \A n \in worker[d].ask : n \in Nodes /\ f.node[n] = "unknown"
  BY <1>0, EndOpen
<1>3. /\ status \in {"running", "cancelled", "exhausted", "awaiting_approval", "succeeded", "failed"}
      /\ status = "succeeded" => \A n \in Nodes : g.node[n] = "completed"
      /\ status = "failed" => Waiting(g) = {}
      /\ status # "running" => unknown = {}
      /\ unknown # {} => status = "running"
  <2>1. CASE unknown # {}
    <3> HIDE DEF unknown, stopped, g
    <3>1. status = "running"
      BY <2>1
    <3> HIDE DEF status
    <3> QED
      BY <2>1, <3>1
  <2>2. CASE unknown = {} /\ stopped
    BY <2>2
  <2>3. CASE unknown = {} /\ ~stopped /\ Waiting(g) # {}
    BY <2>3
  <2>4. CASE unknown = {} /\ ~stopped /\ Waiting(g) = {}
    <3> HIDE DEF g, unknown, stopped
    <3> QED
      BY <2>4
  <2> QED
    BY <2>1, <2>2, <2>3, <2>4
<1>4. w.request = q /\ w.phase \in {"reconcile", "result"}
      /\ w.ask \in {worker[d].ask, unknown}
  <2> DEFINE phase == IF worker[d].command = "recover" THEN "reconcile" ELSE "result"
             ask == IF worker[d].listed THEN worker[d].ask ELSE unknown
  <2>1. w = [worker[d] EXCEPT !.phase = phase, !.stop = "none", !.listed = TRUE, !.ask = ask]
    <3> HIDE DEF unknown
    <3> QED
      BY <1>1 DEF Driver
  <2>2. phase \in {"reconcile", "result"} /\ ask \in {worker[d].ask, unknown}
    OBVIOUS
  <2> HIDE DEF phase, ask, w, unknown
  <2> QED
    BY <1>1, <2>1, <2>2 DEF Driver
<1>5. unknown = {n \in Nodes : f.node[n] = "unknown"}
  <2> HIDE DEF g, f
  <2> QED
    BY <1>1
<1>6. Waiting(g) = {n \in Nodes : f.node[n] = "awaiting"}
  <2> HIDE DEF g, f
  <2> QED
    BY <1>1 DEF Waiting
<1> HIDE DEF w, status, g, unknown, f
<1>7. /\ nodes \in [Nodes -> NodeStates]
      /\ \A n \in Nodes : nodes[n] = IF status \in {"cancelled", "exhausted"} /\ f.node[n] # "completed"
                                     THEN "cancelled" ELSE f.node[n]
  <2>1. g.node \in [Nodes -> NodeStates]
    BY <1>1 DEF FrameState
  <2> QED
    BY <1>1, <2>1 DEF NodeStates
<1> HIDE DEF nodes
<1>8. h \in FrameState /\ h.node = nodes /\ h.journal = g.journal /\ h.status = status
  <2>1. g \in FrameState
    BY <1>1
  <2> QED
    BY <1>3, <1>7, <2>1 DEF FrameState, Terminal
<1> HIDE DEF h
<1>9. EndedFiles(h)
  <2>1. ASSUME NEW n \in Nodes, status \in Terminal PROVE h.node[n] \notin {"awaiting", "unknown"}
    <3>1. f.node[n] # "unknown"
      BY <1>3, <1>5, <2>1 DEF Terminal
    <3>2. CASE status \in {"cancelled", "exhausted"}
      BY <1>7, <1>8, <3>1, <3>2
    <3>3. CASE status = "succeeded"
      BY <1>1, <1>3, <1>7, <1>8, <3>3
    <3>4. CASE status = "failed"
      BY <1>3, <1>6, <1>7, <1>8, <3>1, <3>4
    <3> QED
      BY <2>1, <3>2, <3>3, <3>4 DEF Terminal
  <2>2. ASSUME NEW n \in Nodes, h.node[n] = "unknown" PROVE h.journal[n] \in {"started", "failed"}
    <3>1. f.node[n] = "unknown"
      BY <1>7, <1>8, <2>2
    <3> QED
      BY <1>1, <1>8, <3>1 DEF EndedFiles
  <2>3. h.status # "none"
    BY <1>3, <1>8
  <2> QED
    BY <1>8, <2>1, <2>2, <2>3 DEF EndedFiles
<1>10. WorksOn(w, h)
  <2>1. \A n \in w.ask : n \in Nodes /\ f.node[n] = "unknown"
    BY <1>2, <1>4, <1>5 DEF f
  <2>2. \A n \in w.ask : h.node[n] = "unknown"
    BY <1>3, <1>5, <1>7, <1>8, <2>1
  <2> QED
    BY <1>4, <2>2 DEF WorksOn, OpenPhases, NodePhases, CallPhases
<1> QED
  BY <1>0, <1>2, <1>3, <1>4, <1>8, <1>9, <1>10, EndSave DEF f

LEMMA ReconcileEnds ==
  ASSUME IInv, EndInv, NEW d \in Drivers, Reconcile(d)
  PROVE  EndInv'
<1> DEFINE q == worker[d].request
           f == frame[q]
           g == Heard(q)
           n == First(worker[d].ask)
           h == [g EXCEPT !.node[n] = "completed"]
           known == [h EXCEPT !.journal[n] = "completed"]
           rest == [worker[d] EXCEPT !.ask = Asked(d, n)]
<1>0. worker[d].phase = "reconcile" /\ worker[d].phase # "idle"
  BY DEF Reconcile, At
<1>1. /\ worker[d] \in Driver /\ worker \in [Drivers -> Driver] /\ EndedFiles(f) /\ f \in FrameState
      /\ Knows(worker[d], f) /\ WorksOn(worker[d], f) /\ g.status = f.status /\ g.node = f.node
      /\ g.journal = f.journal /\ g.revision = f.revision /\ g \in FrameState
  BY <1>0, EndMine
<1>2. /\ f.status # "none" /\ worker[d].ask \in SUBSET Nodes
      /\ \A m \in worker[d].ask : f.node[m] = "unknown"
  <2> HIDE DEF f
  <2> QED
    BY <1>0, <1>1 DEF Knows, WorksOn, SidecarPhases, Driver
<1>3. ASSUME Goto(d, "result") \/ Goto(d, "failed"), UNCHANGED <<host, frame>>
      PROVE  EndInv'
  BY <1>0, <1>3, EndRest DEF host
<1>4. /\ rest \in Driver /\ rest.request = q /\ rest.phase = "reconcile"
      /\ rest.ask = worker[d].ask \ {n}
  BY <1>0, <1>1 DEF Driver, Asked
<1>5. ASSUME frame' = [frame EXCEPT ![q] = g], worker' = [worker EXCEPT ![d] = rest], UNCHANGED host
      PROVE  EndInv'
  <2> HIDE DEF rest, g
  <2>1. WorksOn(rest, frame[q])
    BY <1>2, <1>4 DEF WorksOn, OpenPhases, NodePhases, CallPhases
  <2> QED
    BY <1>0, <1>1, <1>2, <1>4, <1>5, <2>1, EndHeard DEF host
<1>6. ASSUME worker[d].ask # {},
             Save(d, known, [rest EXCEPT !.phase = "settle", !.todo = Unsettled(known)])
      PROVE  EndInv'
  <2> DEFINE w == [rest EXCEPT !.phase = "settle", !.todo = Unsettled(known)]
  <2>1. n \in worker[d].ask /\ n \in Nodes
    BY <1>2, <1>6, FirstIn
  <2>2. Save(d, known, w)
    BY <1>6
  <2>3. f.status \notin Terminal
    BY <1>1, <1>2, <2>1 DEF EndedFiles
  <2>4. w.request = q /\ w.phase = "settle" /\ w.ask = worker[d].ask \ {n}
    <3> HIDE DEF rest
    <3> QED
      BY <1>4 DEF Driver
  <2> HIDE DEF n, g, rest, w, f
  <2>5. h \in FrameState /\ h.node = [g.node EXCEPT ![n] = "completed"]
        /\ h.journal = g.journal /\ h.status = g.status
    <3>1. g \in FrameState
      BY <1>1
    <3> QED
      BY <3>1 DEF FrameState, NodeStates
  <2> HIDE DEF h
  <2>6. known \in FrameState /\ known.journal = [h.journal EXCEPT ![n] = "completed"]
        /\ known.node = h.node /\ known.status = h.status
    BY <2>1, <2>5 DEF FrameState
  <2> HIDE DEF known
  <2>7. g.node \in [Nodes -> NodeStates] /\ g.journal \in [Nodes -> {"none", "started", "completed", "failed"}]
    BY <1>1 DEF FrameState
  <2>8. \A m \in Nodes : /\ known.node[m] = IF m = n THEN "completed" ELSE f.node[m]
                         /\ m # n => known.journal[m] = f.journal[m]
    BY <1>1, <2>5, <2>6, <2>7
  <2>9. EndedFiles(known)
    BY <1>1, <1>2, <2>3, <2>5, <2>6, <2>8 DEF EndedFiles
  <2>10. WorksOn(w, known)
    BY <1>1, <1>2, <2>3, <2>4, <2>5, <2>6, <2>8 DEF WorksOn, OpenPhases, NodePhases, CallPhases
  <2> QED
    BY <1>0, <1>1, <1>2, <2>2, <2>3, <2>4, <2>5, <2>6, <2>9, <2>10, EndSave DEF f
<1> HIDE DEF known, rest
<1> QED
  BY <1>3, <1>5, <1>6 DEF Reconcile, known, rest

LEMMA ReceiveEnds ==
  ASSUME IInv, EndInv, NEW d \in Drivers, Receive(d)
  PROVE  EndInv'
<1>0. worker[d].phase = "result" /\ worker[d].phase # "idle" /\ UNCHANGED <<link, frame>>
  BY DEF Receive, host
<1>1. CASE Goto(d, "failed")
  BY <1>0, <1>1, EndRest
<1>2. CASE Goto(d, "project")
  <2> DEFINE w == [worker[d] EXCEPT !.phase = "project"]
  <2>1. worker[d] \in Driver /\ worker \in [Drivers -> Driver] /\ Knows(worker[d], frame[worker[d].request])
    BY <1>0, EndMine
  <2>2. frame[worker[d].request].status # "none"
    BY <1>0, <2>1 DEF Knows, SidecarPhases
  <2>3. worker' = [worker EXCEPT ![d] = w] /\ w.request = worker[d].request /\ w.phase = "project"
    BY <1>2, <2>1 DEF Goto, Driver
  <2> HIDE DEF w
  <2>4. WorksOn(w, frame[worker[d].request])
    BY <2>2, <2>3 DEF WorksOn, OpenPhases, NodePhases, CallPhases
  <2> QED
    BY <1>0, <2>3, <2>4, EndQuiet
<1> QED
  BY <1>1, <1>2 DEF Receive

LEMMA ProjectEnds ==
  ASSUME IInv, EndInv, NEW d \in Drivers, Project(d)
  PROVE  EndInv'
<1> DEFINE q == worker[d].request
           f == frame[q]
           read == [link[q] EXCEPT !.cursor = f.published, !.status = f.status]
<1>0. worker[d].phase = "project" /\ worker[d].phase # "idle" /\ UNCHANGED frame /\ Release(d)
  BY DEF Project
<1>1. /\ f \in FrameState /\ link[q] \in LinkRow /\ WorksOn(worker[d], f) /\ q \in Requests
      /\ FilesOK(q, f)
  BY <1>0, EndMine, Mine
<1>2. CASE ~Gone(q) /\ Complete(q)
  <2>1. link' = [link EXCEPT ![q] = read] /\ worker' = [worker EXCEPT ![d] = Idle]
    BY <1>0, <1>2 DEF Project, Release
  <2>2. f.published = f.revision
    BY <1>2 DEF Complete
  <2> HIDE DEF f
  <2>3. read.cursor = f.published /\ read.status = f.status /\ read.started = link[q].started
    BY <1>1 DEF LinkRow
  <2>4. f.status # "none" /\ link[q].started
    BY <1>0, <1>1, <1>2 DEF WorksOn, FilesOK
  <2>5. f.status \notin {"none", "queued", "deleted"}
    BY <1>1, <2>4 DEF FrameState, Terminal
  <2> HIDE DEF read
  <2>6. TrueRow(q, read)
    BY <2>2, <2>3, <2>4, <2>5 DEF TrueRow, f
  <2> QED
    BY <1>0, <2>1, <2>6, EndDrive
<1>3. CASE ~(~Gone(q) /\ Complete(q))
  <2>1. UNCHANGED link
    BY <1>3 DEF Project
  <2> QED
    BY <1>0, <2>1, EndRest
<1> QED
  BY <1>2, <1>3

LEMMA MarkUnknownEnds ==
  ASSUME IInv, EndInv, NEW d \in Drivers, MarkUnknown(d)
  PROVE  EndInv'
<1> DEFINE q == worker[d].request
           row == IF Gone(q) THEN link[q] ELSE Unknown(q)
<1>0. /\ worker[d].phase # "idle" /\ UNCHANGED frame /\ worker' = [worker EXCEPT ![d] = Idle]
      /\ link' = [link EXCEPT ![q] = row]
  BY Lease DEF MarkUnknown, Release, IInv, TypeOK
<1>1. q \in Requests /\ link[q] \in LinkRow
  BY <1>0, EndMine
<1>2. TrueRow(q, link[q])
  BY <1>1 DEF TrueRow, EndInv, CursorKnows, ProjectionIsCurrent
<1>3. TrueRow(q, row)
  <2>1. row = link[q] \/ (row.status = "unknown" /\ row.cursor = link[q].cursor /\ row.started = link[q].started)
    BY <1>1 DEF Unknown, LinkRow
  <2> HIDE DEF row
  <2> QED
    BY <1>2, <2>1 DEF TrueRow, Terminal
<1> HIDE DEF row
<1> QED
  BY <1>0, <1>3, EndDrive

LEMMA PurgeEnds ==
  ASSUME IInv, EndInv, NEW d \in Drivers, PurgeStep(d)
  PROVE  EndInv'
<1>0. worker[d].phase # "idle" /\ UNCHANGED link
  BY DEF PurgeStep
<1>1. /\ worker[d] \in Driver /\ worker \in [Drivers -> Driver] /\ worker[d].request \in Requests
      /\ frame \in [Requests -> FrameState]
  BY <1>0, EndMine DEF IInv, TypeOK
<1>2. CASE worker[d].phase = "purge"
  <2> DEFINE w == [worker[d] EXCEPT !.phase = "purging"]
  <2>1. /\ frame' = [frame EXCEPT ![worker[d].request] = NoFrame] /\ worker' = [worker EXCEPT ![d] = w]
        /\ w.request = worker[d].request /\ w.phase = "purging"
    BY <1>1, <1>2 DEF PurgeStep, PurgeOrder, Goto, Driver
  <2> HIDE DEF w
  <2>2. EndedFiles(NoFrame)
    BY DEF EndedFiles, NoFrame, Terminal
  <2>3. WorksOn(w, NoFrame)
    BY <2>1, AtRest
  <2> QED
    BY <1>0, <2>1, <2>2, <2>3, EndStep
<1>3. CASE worker[d].phase = "purging"
  <2>1. UNCHANGED frame /\ Release(d)
    BY <1>1, <1>3 DEF PurgeStep, PurgeOrder
  <2> QED
    BY <1>0, <2>1, EndRest
<1> QED
  BY <1>2, <1>3 DEF PurgeStep

LEMMA FaultEnds ==
  ASSUME IInv, EndInv, NEW d \in Drivers, HostRefuses(d) \/ SidecarFails(d) \/ HostDies(d)
  PROVE  EndInv'
<1> DEFINE q == worker[d].request
           f == frame[q]
           n == worker[d].node
           settled == [f EXCEPT !.journal[n] = "failed", !.node[n] = "unknown",
                                !.revision = @ + 1, !.published = f.revision + 1]
<1>0. worker[d].phase # "idle" /\ UNCHANGED link
  BY DEF HostRefuses, SidecarFails, HostDies, SidecarPhases, host
<1>1. CASE UNCHANGED frame
  BY <1>0, <1>1, EndRest DEF HostRefuses, SidecarFails, HostDies
<1>2. CASE worker[d].phase \in CallPhases /\ frame' = [frame EXCEPT ![q] = settled]
           /\ worker' = [worker EXCEPT ![d] = Idle]
  <2>1. f \in FrameState /\ EndedFiles(f)
    BY <1>0, EndMine
  <2>2. n \in Nodes /\ f.status \notin Terminal \cup {"none"}
    BY <1>2, EndOpen DEF OpenPhases, NodePhases
  <2> HIDE DEF n, f
  <2>3. settled.status = f.status /\ settled.node = [f.node EXCEPT ![n] = "unknown"]
        /\ settled.journal = [f.journal EXCEPT ![n] = "failed"]
    BY <2>1 DEF FrameState
  <2> HIDE DEF settled
  <2>4. /\ f.node \in [Nodes -> NodeStates]
        /\ f.journal \in [Nodes -> {"none", "started", "completed", "failed"}]
    BY <2>1 DEF FrameState
  <2>5. EndedFiles(settled)
    BY <2>1, <2>2, <2>3, <2>4 DEF EndedFiles
  <2> QED
    BY <1>0, <1>2, <2>2, <2>5, EndStep DEF f
<1> QED
  BY <1>1, <1>2 DEF HostRefuses, SidecarFails, HostDies, Release, CallPhases

LEMMA StepEnd ==
  ASSUME IInv, EndInv, [Next]_vars
  PROVE  EndInv'
<1>1. ASSUME NEW q \in Requests,
             Accept(q) \/ Cancel(q) \/ Tick(q) \/ DeleteCase(q) \/ LoseState(q)
      PROVE  EndInv'
  BY <1>1, RequestEnds, FreeEnds
<1>2. ASSUME NEW d \in Drivers, NEW q \in Requests, Drive(d, q) \/ Purge(d, q)
      PROVE  EndInv'
  BY <1>2, FreeEnds
<1>3. ASSUME NEW d \in Drivers, DriveStep(d)
      PROVE  EndInv'
  <2>1. CASE Begin(d) \/ FindRun(d) \/ AuthorizeStart(d) \/ CreateRun(d) \/ ApproveNode(d)
             \/ SettleNode(d) \/ Advance(d) \/ Dispatch(d) \/ Attempt(d)
    BY <2>1, BeginEnds, FindEnds, AuthorizeEnds, CreateEnds, ApproveEnds, SettleEnds,
       AdvanceEnds, DispatchEnds, AttemptEnds
  <2>2. CASE Write(d) \/ Answered(d) \/ FinishRun(d) \/ Reconcile(d) \/ Receive(d)
             \/ Project(d) \/ MarkUnknown(d) \/ HostRefuses(d) \/ PurgeStep(d)
    BY <2>2, WriteEnds, AnsweredEnds, FinishEnds, ReconcileEnds, ReceiveEnds,
       ProjectEnds, MarkUnknownEnds, FaultEnds, PurgeEnds
  <2> QED
    BY <1>3, <2>1, <2>2 DEF DriveStep
<1>4. ASSUME NEW d \in Drivers, SidecarFails(d) \/ HostDies(d)
      PROVE  EndInv'
  BY <1>4, FaultEnds
<1>5. CASE UNCHANGED vars
  <2>1. UNCHANGED <<link, frame, worker>>
    BY <1>5 DEF vars, host
  <2> QED
    BY <2>1 DEF EndInv, EndedFiles, WorksOn, CursorKnows, ProjectionIsCurrent
<1> QED
  BY <1>1, <1>2, <1>3, <1>4, <1>5 DEF Next

\* An end that the host reports from the framework is the end that the files of the
\* run state, read to their last event: no drive reopens a run that has ended, and
\* none ends it differently.
THEOREM ProjectionCurrent == Spec => []ProjectionIsCurrent
<1>1. Init => EndInv
  BY InitEnd
<1>2. IInv /\ EndInv /\ [Next]_vars => EndInv'
  BY StepEnd
<1>3. EndInv => ProjectionIsCurrent
  BY DEF EndInv
<1> QED
  BY <1>1, <1>2, <1>3, Invariance, PTL DEF Spec

-----------------------------------------------------------------------------
(* The refinement: durable runs implement EffectsOnce                      *)

LEMMA InitPromise == Init => PromiseInv
<1> SUFFICES ASSUME Init PROVE PromiseInv
  OBVIOUS
<1> USE DEF Init, NoLink, NoFrame, Idle, Terminal
<1>1. EarlyEnds
  BY DEF EarlyEnds
<1>2. \A d \in Drivers : Accounts(worker[d])
  BY DEF Accounts
<1>3. \A q \in Requests : CausedFiles(q, frame[q])
  BY DEF CausedFiles
<1>4. ReceiptsFollow
  BY DEF ReceiptsFollow
<1> QED
  BY <1>1, <1>2, <1>3, <1>4 DEF PromiseInv

\* What the client sees is not changed by these steps.
Hidden(d) ==
    \/ FindRun(d) \/ CreateRun(d) \/ ApproveNode(d) \/ SettleNode(d) \/ Advance(d)
    \/ Dispatch(d) \/ Answered(d) \/ FinishRun(d) \/ Reconcile(d) \/ Receive(d)
    \/ HostRefuses(d) \/ PurgeStep(d) \/ SidecarFails(d) \/ HostDies(d)

LEMMA SaveIsHidden ==
  ASSUME NEW d, NEW g, NEW w, Save(d, g, w)
  PROVE  UNCHANGED <<link, clock, receipts, calls>>
BY DEF Save, host

LEMMA DriverIsHidden ==
  ASSUME NEW d \in Drivers, Hidden(d)
  PROVE  UNCHANGED <<link, clock, receipts, calls>>
<1>1. CASE FindRun(d) \/ CreateRun(d)
  BY <1>1, SaveIsHidden DEF FindRun, CreateRun, host
<1>2. CASE ApproveNode(d) \/ SettleNode(d) \/ Advance(d)
  BY <1>2, SaveIsHidden DEF ApproveNode, SettleNode, Advance, host
<1>3. CASE Dispatch(d) \/ Answered(d)
  BY <1>3 DEF Dispatch, Answered, host
<1>4. CASE FinishRun(d) \/ Reconcile(d) \/ Receive(d)
  BY <1>4, SaveIsHidden DEF FinishRun, Reconcile, Receive, host
<1>5. CASE HostRefuses(d) \/ PurgeStep(d) \/ SidecarFails(d) \/ HostDies(d)
  BY <1>5 DEF HostRefuses, PurgeStep, SidecarFails, HostDies, host
<1> QED
  BY <1>1, <1>2, <1>3, <1>4, <1>5 DEF Hidden

LEMMA FreeIsHidden ==
  ASSUME NEW q \in Requests,
         LoseState(q) \/ \E d \in Drivers : Drive(d, q) \/ Purge(d, q)
  PROVE  UNCHANGED <<link, clock, receipts, calls>>
BY DEF LoseState, Drive, Purge, TakeLease, host

\* The steps of Next by what the client sees of them.
LEMMA StepKinds ==
  ASSUME [Next]_vars
  PROVE  \/ UNCHANGED <<link, clock, receipts, calls>>
         \/ \E q \in Requests : Accept(q) \/ Cancel(q) \/ Tick(q) \/ DeleteCase(q)
         \/ \E d \in Drivers : \/ Begin(d) \/ AuthorizeStart(d) \/ Attempt(d)
                               \/ Write(d) \/ Project(d) \/ MarkUnknown(d)
<1>1. CASE UNCHANGED vars
  BY <1>1 DEF vars, host
<1>2. ASSUME NEW q \in Requests, LoseState(q) \/ \E d \in Drivers : Drive(d, q) \/ Purge(d, q)
      PROVE  UNCHANGED <<link, clock, receipts, calls>>
  BY <1>2, FreeIsHidden
<1>3. ASSUME NEW d \in Drivers, Hidden(d) PROVE UNCHANGED <<link, clock, receipts, calls>>
  BY <1>3, DriverIsHidden
<1>4. ASSUME NEW d \in Drivers, DriveStep(d) \/ SidecarFails(d) \/ HostDies(d)
      PROVE  \/ Hidden(d)
             \/ Begin(d) \/ AuthorizeStart(d) \/ Attempt(d) \/ Write(d) \/ Project(d) \/ MarkUnknown(d)
  BY <1>4 DEF DriveStep, Hidden
<1> QED
  BY <1>1, <1>2, <1>3, <1>4 DEF Next

\* What no step undoes in the row of a request.
RowMove(q) ==
    /\ Closed(q) => Closed(q)'
    /\ link[q].status # "none" => link'[q].status # "none"
    /\ link[q].status \notin {"none", "queued"} => link'[q].status \notin {"none", "queued"}

\* What holds of the request that a driver has leased.
LEMMA PromiseMine ==
  ASSUME IInv, EndInv, PromiseInv, NEW d \in Drivers, worker[d].phase # "idle"
  PROVE  /\ worker[d].request \in Requests
         /\ Accounts(worker[d])
         /\ CausedFiles(worker[d].request, frame[worker[d].request])
         /\ CausedFiles(worker[d].request, Heard(worker[d].request))
         /\ StopReason(worker[d].request) # "none" => Closed(worker[d].request)
<1> DEFINE q == worker[d].request
<1>1. /\ q \in Requests /\ frame[q] \in FrameState /\ link[q] \in LinkRow
      /\ Heard(q).status = frame[q].status /\ Heard(q).revision = frame[q].revision
  BY EndMine
<1>2. Accounts(worker[d]) /\ CausedFiles(q, frame[q])
  BY <1>1 DEF PromiseInv
<1>3. Heard(q).cancel => Closed(q)
  <2>1. Heard(q).cancel = (frame[q].cancel \/ (link[q].cancel /\ frame[q].status \notin Terminal))
    BY <1>1 DEF Heard, FrameState
  <2> QED
    BY <1>2, <2>1 DEF CausedFiles, Closed
<1>4. CausedFiles(q, Heard(q))
  BY <1>1, <1>2, <1>3 DEF CausedFiles
<1>5. StopReason(q) # "none" => Closed(q)
  BY <1>3 DEF StopReason, Closed
<1> QED
  BY <1>1, <1>2, <1>4, <1>5

LEMMA SameRow ==
  ASSUME NEW q \in Requests, link'[q] = link[q], clock'[q] = clock[q]
  PROVE  Told(q)' = Told(q) /\ (Closed(q)' <=> Closed(q)) /\ RowMove(q)
BY DEF Told, Closed, Gone, RowMove

\* No step but these changes rows or clocks, and these change one request's.
LEMMA RowMoves ==
  ASSUME IInv, EndInv, [Next]_vars, NEW q \in Requests
  PROVE  RowMove(q)
<1>0. link \in [Requests -> LinkRow] /\ clock \in [Requests -> 0 .. 2]
  BY DEF IInv, TypeOK
<1>1. CASE UNCHANGED <<link, clock>>
  BY <1>1, SameRow
<1>2. ASSUME NEW p \in Requests, p # q,
             Accept(p) \/ Cancel(p) \/ Tick(p) \/ DeleteCase(p)
      PROVE  RowMove(q)
  <2>1. link'[q] = link[q] /\ clock'[q] = clock[q]
    BY <1>0, <1>2 DEF Accept, Cancel, Tick, DeleteCase, host
  <2> QED
    BY <2>1, SameRow
<1>3. CASE Accept(q) \/ Cancel(q)
  <2>1. /\ link'[q].status \notin {"none", "deleted"}
        /\ link[q].status # "none" => link'[q].status # "queued"
        /\ link[q].cancel => link'[q].cancel
        /\ ~Gone(q)
        /\ clock' = clock
    BY <1>0, <1>3 DEF Accept, Cancel, Gone, LinkRow
  <2> QED
    BY <2>1 DEF RowMove, Closed
<1>4. CASE Tick(q)
  <2>1. link' = link /\ clock'[q] = clock[q] + 1 /\ clock[q] \in Nat
    BY <1>0, <1>4 DEF Tick, host
  <2> QED
    BY <2>1 DEF RowMove, Closed, Gone
<1>5. CASE DeleteCase(q)
  <2>1. link'[q].status = "deleted"
    BY <1>0, <1>5 DEF DeleteCase, NoLink
  <2> QED
    BY <2>1 DEF RowMove, Closed, Gone
<1>6. ASSUME NEW d \in Drivers,
             \/ Begin(d) \/ AuthorizeStart(d) \/ Attempt(d) \/ Write(d)
             \/ Project(d) \/ MarkUnknown(d)
      PROVE  RowMove(q)
  <2>0. clock' = clock
    BY <1>6, SaveIsHidden DEF Begin, AuthorizeStart, Attempt, Write, Project, MarkUnknown
  <2>1. CASE worker[d].request # q
    <3>1. link'[q] = link[q]
      BY <1>0, <1>6, <2>1, SaveIsHidden
         DEF Begin, AuthorizeStart, Attempt, Write, Project, MarkUnknown, host
    <3> QED
      BY <2>0, <3>1, SameRow
  <2>2. CASE worker[d].request = q
    <3>1. CASE Begin(d)
      <4>1. link'[q].cancel = link[q].cancel /\ (Gone(q) => link'[q].status = "deleted")
            /\ link'[q].status \in {link[q].status, "exhausted", "running"}
        BY <1>0, <2>2, <3>1 DEF Begin, Expired, Gone, LinkRow
      <4> QED
        BY <2>0, <4>1 DEF RowMove, Closed, Gone
    <3>2. CASE AuthorizeStart(d)
      <4>1. link'[q].cancel = link[q].cancel /\ link'[q].status = link[q].status
        BY <1>0, <2>2, <3>2 DEF AuthorizeStart, LinkRow
      <4> QED
        BY <2>0, <4>1 DEF RowMove, Closed, Gone
    <3>3. CASE Attempt(d) \/ Write(d)
      <4>1. link' = link
        BY <3>3, SaveIsHidden DEF Attempt, Write, host
      <4> QED
        BY <2>0, <4>1 DEF RowMove, Closed, Gone
    <3>4. CASE Project(d)
      <4>0. worker[d].phase = "project"
        BY <3>4 DEF Project
      <4>1. WorksOn(worker[d], frame[q]) /\ frame[q] \in FrameState
        BY <2>2, <4>0, EndMine
      <4>2. frame[q].status \notin {"none", "queued"}
        BY <4>0, <4>1 DEF WorksOn, FrameState, Terminal
      <4>3. link'[q].cancel = link[q].cancel /\ (Gone(q) => link'[q] = link[q])
            /\ link'[q].status \in {link[q].status, frame[q].status}
        <5>1. CASE ~Gone(q) /\ Complete(q)
          <6>1. link' = [link EXCEPT ![q] = [link[q] EXCEPT !.cursor = frame[q].published,
                                                           !.status = frame[q].status]]
            BY <2>2, <3>4, <5>1 DEF Project
          <6> QED
            BY <1>0, <5>1, <6>1 DEF LinkRow
        <5>2. CASE ~(~Gone(q) /\ Complete(q))
          BY <2>2, <3>4, <5>2 DEF Project
        <5> QED
          BY <5>1, <5>2
      <4> QED
        BY <2>0, <4>2, <4>3 DEF RowMove, Closed, Gone
    <3>5. CASE MarkUnknown(d)
      <4>1. link'[q].cancel = link[q].cancel /\ (Gone(q) => link'[q] = link[q])
            /\ link'[q].status \in {link[q].status, "unknown"}
        BY <1>0, <2>2, <3>5 DEF MarkUnknown, Unknown, LinkRow
      <4> QED
        BY <2>0, <4>1 DEF RowMove, Closed, Gone
    <3> QED
      BY <1>6, <3>1, <3>2, <3>3, <3>4, <3>5
  <2> QED
    BY <2>1, <2>2
<1> QED
  BY <1>1, <1>2, <1>3, <1>4, <1>5, <1>6, StepKinds

-----------------------------------------------------------------------------
\* What a step of the driver d leaves: files that stopped for a reason, and the
\* lease given back or a phase that asks for no permission and no effect.
Sound(d) ==
    LET q == worker[d].request
    IN  /\ CausedFiles(q, frame'[q])
        /\ \/ worker'[d].phase = "idle"
           \/ /\ worker'[d].request = q
              /\ worker'[d].phase \notin {"find", "start", "call"}
              /\ worker'[d].stop # "none" => Closed(q)

LEMMA SoundStep ==
  ASSUME IInv, EndInv, PromiseInv, NEW d \in Drivers, worker[d].phase # "idle",
         NEW f, NEW w,
         frame' = [frame EXCEPT ![worker[d].request] = f],
         worker' = [worker EXCEPT ![d] = w],
         CausedFiles(worker[d].request, f),
         \/ w = Idle
         \/ /\ w.request = worker[d].request
            /\ w.phase \notin {"find", "start", "call"}
            /\ w.stop \in {"none", worker[d].stop} \/ Closed(worker[d].request)
  PROVE  Sound(d)
<1>1. Accounts(worker[d]) /\ worker[d].request \in Requests
  BY PromiseMine
<1>2. frame'[worker[d].request] = f /\ worker'[d] = w
  BY <1>1 DEF IInv, TypeOK
<1> QED
  BY <1>1, <1>2 DEF Sound, Accounts, Idle

\* A step that leaves the files alone.
LEMMA SoundQuiet ==
  ASSUME IInv, EndInv, PromiseInv, NEW d \in Drivers, worker[d].phase # "idle",
         UNCHANGED frame,
         \/ Release(d)
         \/ \E phase \in {"approve", "settle", "advance", "create", "failed", "result", "project",
                          "purging", "applied", "denied"} : Goto(d, phase)
  PROVE  Sound(d)
<1>1. worker[d].request \in Requests /\ worker[d] \in Driver /\ worker \in [Drivers -> Driver]
  BY EndMine
<1>2. frame' = [frame EXCEPT ![worker[d].request] = frame[worker[d].request]]
  BY <1>1 DEF IInv, TypeOK
<1>3. CausedFiles(worker[d].request, frame[worker[d].request])
  BY PromiseMine
<1>4. CASE Release(d)
  BY <1>2, <1>3, <1>4, SoundStep DEF Release
<1>5. ASSUME NEW phase \in {"approve", "settle", "advance", "create", "failed", "result", "project",
                            "purging", "applied", "denied"}, Goto(d, phase)
      PROVE  Sound(d)
  <2> DEFINE w == [worker[d] EXCEPT !.phase = phase]
  <2>1. worker' = [worker EXCEPT ![d] = w] /\ w.request = worker[d].request /\ w.phase = phase
        /\ w.stop = worker[d].stop
    BY <1>1, <1>5 DEF Goto, Driver
  <2> HIDE DEF w
  <2> QED
    BY <1>2, <1>3, <2>1, SoundStep
<1> QED
  BY <1>4, <1>5

\* A save of files that were cancelled or stopped for a reason.
LEMMA SoundSave ==
  ASSUME IInv, EndInv, PromiseInv, NEW d \in Drivers, worker[d].phase # "idle",
         NEW g \in FrameState, NEW w,
         Save(d, g, w),
         g.cancel \/ g.status \in {"cancelled", "exhausted"} => Closed(worker[d].request),
         w.request = worker[d].request, w.phase \notin {"find", "start", "call"},
         w.stop \in {"none", worker[d].stop} \/ Closed(worker[d].request)
  PROVE  Sound(d)
<1> DEFINE q == worker[d].request
           saved == [g EXCEPT !.revision = @ + 1]
           shown == [saved EXCEPT !.published = saved.revision]
<1>1. /\ saved.status = g.status /\ saved.cancel = g.cancel /\ saved.revision > 0
      /\ shown.status = g.status /\ shown.cancel = g.cancel /\ shown.revision > 0
  BY DEF FrameState
<1> HIDE DEF shown, saved
<1>2. CausedFiles(q, saved) /\ CausedFiles(q, shown)
  BY <1>1 DEF CausedFiles
<1>3. CASE frame' = [frame EXCEPT ![q] = shown] /\ worker' = [worker EXCEPT ![d] = w]
  BY <1>2, <1>3, SoundStep
<1>4. ASSUME frame' = [frame EXCEPT ![q] = saved],
             NEW after \in {Idle, [worker[d] EXCEPT !.phase = "failed"]},
             worker' = [worker EXCEPT ![d] = after]
      PROVE  Sound(d)
  <2>1. after = Idle \/ (after.request = q /\ after.phase = "failed" /\ after.stop = worker[d].stop)
    BY Mine DEF Driver
  <2> QED
    BY <1>2, <1>4, <2>1, SoundStep
<1> QED
  BY <1>3, <1>4 DEF Save, shown, saved

\* What the sidecar finds in its files, with what it just heard.
LEMMA HeardSound ==
  ASSUME IInv, EndInv, PromiseInv, NEW d \in Drivers, worker[d].phase # "idle"
  PROVE  LET q == worker[d].request
             g == Heard(q)
         IN  /\ worker[d] \in Driver /\ worker \in [Drivers -> Driver]
             /\ g \in FrameState /\ frame[q] \in FrameState
             /\ CausedFiles(q, g)
             /\ g.cancel \/ g.status \in {"cancelled", "exhausted"} => Closed(q)
             /\ StopReason(q) # "none" => Closed(q)
             /\ worker[d].stop # "none" => Closed(q)
<1>1. Accounts(worker[d]) /\ CausedFiles(worker[d].request, Heard(worker[d].request))
  BY PromiseMine
<1> QED
  BY <1>1, EndMine, PromiseMine DEF Accounts, CausedFiles

LEMMA CreateSound ==
  ASSUME IInv, EndInv, PromiseInv, NEW d \in Drivers, CreateRun(d)
  PROVE  Sound(d)
<1> DEFINE g == [NoFrame EXCEPT !.status = "running"]
           w == [worker[d] EXCEPT !.phase = "settle", !.command = "start"]
<1>0. worker[d].phase = "create" /\ Save(d, g, w)
  BY DEF CreateRun, At
<1>1. worker[d] \in Driver
  BY <1>0, EndMine
<1>2. g \in FrameState /\ g.status = "running" /\ g.cancel = FALSE
  BY DEF FrameState, NoFrame, NodeStates
<1>3. w.request = worker[d].request /\ w.phase = "settle" /\ w.stop = worker[d].stop
  BY <1>1 DEF Driver
<1> HIDE DEF g, w
<1> QED
  BY <1>0, <1>2, <1>3, SoundSave

\* A driver that stops, with the files as it heard them.
LEMMA FinishingSound ==
  ASSUME IInv, EndInv, PromiseInv, NEW d \in Drivers, worker[d].phase # "idle",
         NEW why \in {"none", StopReason(worker[d].request)}, NEW f,
         CausedFiles(worker[d].request, f),
         frame' = [frame EXCEPT ![worker[d].request] = f],
         worker' = [worker EXCEPT ![d].phase = "finish", ![d].stop = why]
  PROVE  Sound(d)
<1> DEFINE w == [worker[d] EXCEPT !.phase = "finish", !.stop = why]
<1>1. worker[d] \in Driver /\ worker \in [Drivers -> Driver]
  BY EndMine
<1>2. worker' = [worker EXCEPT ![d] = w] /\ w.request = worker[d].request /\ w.phase = "finish" /\ w.stop = why
  BY <1>1 DEF Driver
<1>3. why = "none" \/ Closed(worker[d].request)
  BY PromiseMine
<1> HIDE DEF w
<1> QED
  BY <1>2, <1>3, SoundStep

LEMMA ApproveSound ==
  ASSUME IInv, EndInv, PromiseInv, NEW d \in Drivers, ApproveNode(d)
  PROVE  Sound(d)
<1> DEFINE q == worker[d].request
           h == Heard(q)
           g == [h EXCEPT !.published = frame[q].revision]
           n == First(Waiting(g))
           a == [g EXCEPT !.node[n] = "admitted"]
           admitted == [a EXCEPT !.status = "running"]
<1>0. worker[d].phase = "approve" /\ worker[d].phase # "idle"
  BY DEF ApproveNode, At
<1>1. /\ worker[d] \in Driver /\ h \in FrameState /\ frame[q] \in FrameState /\ CausedFiles(q, h)
      /\ h.cancel => Closed(q)
  BY <1>0, HeardSound
<1>2. g \in FrameState /\ g.status = h.status /\ g.revision = h.revision /\ g.cancel = h.cancel
  <2>1. frame[q].revision \in Nat
    BY <1>1 DEF FrameState
  <2> HIDE DEF h
  <2> QED
    BY <1>1, <2>1 DEF FrameState
<1>3. CASE StopReason(q) # "none"
  <2>1. CausedFiles(q, g)
    <3> HIDE DEF h, g
    <3> QED
      BY <1>1, <1>2 DEF CausedFiles
  <2>2. frame' = [frame EXCEPT ![q] = g]
        /\ worker' = [worker EXCEPT ![d].phase = "finish", ![d].stop = StopReason(q)]
    <3>1. worker \in [Drivers -> Driver]
      BY <1>0, HeardSound
    <3> QED
      BY <1>3, <3>1 DEF ApproveNode, Driver
  <2> HIDE DEF g
  <2> QED
    BY <1>0, <2>1, <2>2, FinishingSound
<1>4. CASE StopReason(q) = "none"
  <2> DEFINE w == [worker[d] EXCEPT !.phase = "settle", !.todo = Unsettled(admitted)]
  <2>1. Save(d, admitted, w)
    BY <1>4 DEF ApproveNode
  <2>2. w.request = q /\ w.phase = "settle" /\ w.stop = worker[d].stop
    BY <1>1 DEF Driver
  <2> HIDE DEF h, n, w, g
  <2>3. a \in FrameState /\ a.cancel = g.cancel
    <3>1. a \in FrameState
      BY <1>2, SetNode DEF NodeStates
    <3> QED
      BY <1>2, <3>1 DEF FrameState
  <2> HIDE DEF a
  <2>4. admitted \in FrameState /\ admitted.status = "running" /\ admitted.cancel = a.cancel
    BY <2>3 DEF FrameState
  <2> HIDE DEF admitted
  <2> QED
    BY <1>0, <1>1, <1>2, <2>1, <2>2, <2>3, <2>4, SoundSave
<1> QED
  BY <1>3, <1>4

LEMMA SettleSound ==
  ASSUME IInv, EndInv, PromiseInv, NEW d \in Drivers, SettleNode(d)
  PROVE  Sound(d)
<1> DEFINE q == worker[d].request
           g == Heard(q)
           n == First(worker[d].todo)
           rest == [worker[d] EXCEPT !.todo = @ \ {n}]
           x == IF g.journal[n] = "completed" THEN "completed" ELSE "unknown"
           h == [g EXCEPT !.node[n] = x]
<1>0. worker[d].phase = "settle" /\ worker[d].phase # "idle"
  BY DEF SettleNode, At
<1>1. /\ worker[d] \in Driver /\ worker \in [Drivers -> Driver] /\ g \in FrameState
      /\ g.cancel \/ g.status \in {"cancelled", "exhausted"} => Closed(q)
  BY <1>0, HeardSound
<1>2. rest.request = q /\ rest.phase = "settle" /\ rest.stop = worker[d].stop
  BY <1>0, <1>1 DEF Driver
<1>3. CASE Goto(d, "advance") /\ UNCHANGED frame
  BY <1>0, <1>3, SoundQuiet
<1>4. CASE worker' = [worker EXCEPT ![d] = [rest EXCEPT !.phase = "admitted", !.node = n]] /\ UNCHANGED frame
  <2> DEFINE w == [rest EXCEPT !.phase = "admitted", !.node = n]
  <2>1. w.request = q /\ w.phase = "admitted" /\ w.stop = worker[d].stop
    BY <1>1 DEF Driver
  <2>2. frame' = [frame EXCEPT ![q] = frame[q]] /\ CausedFiles(q, frame[q])
    BY <1>0, <1>4, PromiseMine DEF IInv, TypeOK
  <2> HIDE DEF rest, n
  <2>3. worker' = [worker EXCEPT ![d] = w]
    BY <1>4
  <2> HIDE DEF w
  <2> QED
    BY <1>0, <2>1, <2>2, <2>3, SoundStep
<1>5. CASE Save(d, h, rest)
  <2> HIDE DEF n, rest
  <2>1. x \in NodeStates
    BY DEF NodeStates
  <2> HIDE DEF x, g
  <2>2. h \in FrameState /\ h.cancel = g.cancel /\ h.status = g.status
    BY <1>1, <2>1 DEF FrameState
  <2> HIDE DEF h
  <2> QED
    BY <1>0, <1>1, <1>2, <1>5, <2>2, SoundSave
<1> QED
  BY <1>3, <1>4, <1>5 DEF SettleNode

LEMMA AdvanceSound ==
  ASSUME IInv, EndInv, PromiseInv, NEW d \in Drivers, Advance(d)
  PROVE  Sound(d)
<1> DEFINE q == worker[d].request
           g == Heard(q)
           n == First(Ready(g))
           waits == [g EXCEPT !.node[n] = "awaiting"]
           admitted == [g EXCEPT !.node[n] = "admitted", !.status = "running"]
           w == [worker[d] EXCEPT !.phase = "admitted", !.node = n]
<1>0. worker[d].phase = "advance" /\ worker[d].phase # "idle"
  BY DEF Advance, At
<1>1. /\ worker[d] \in Driver /\ worker \in [Drivers -> Driver] /\ g \in FrameState
      /\ CausedFiles(q, g)
      /\ g.cancel \/ g.status \in {"cancelled", "exhausted"} => Closed(q)
  BY <1>0, HeardSound
<1>2. ASSUME NEW why \in {"none", StopReason(q)}, frame' = [frame EXCEPT ![q] = g], Finishing(d, why)
      PROVE  Sound(d)
  <2> HIDE DEF g
  <2> QED
    BY <1>0, <1>1, <1>2, FinishingSound DEF Finishing
<1>3. w.request = q /\ w.phase = "admitted" /\ w.stop = worker[d].stop
  BY <1>1 DEF Driver
<1> HIDE DEF n, w
<1>4. CASE Save(d, waits, worker[d])
  <2> HIDE DEF g
  <2>1. waits \in FrameState /\ waits.cancel = g.cancel /\ waits.status = g.status
    BY <1>1 DEF FrameState, NodeStates
  <2> HIDE DEF waits
  <2> QED
    BY <1>0, <1>1, <1>4, <2>1, SoundSave
<1>5. CASE Save(d, admitted, w)
  <2> HIDE DEF g
  <2>1. admitted \in FrameState /\ admitted.cancel = g.cancel /\ admitted.status = "running"
    BY <1>1 DEF FrameState, NodeStates
  <2> HIDE DEF admitted
  <2> QED
    BY <1>0, <1>1, <1>3, <1>5, <2>1, SoundSave
<1> QED
  BY <1>2, <1>4, <1>5 DEF Advance, n, w

LEMMA DispatchSound ==
  ASSUME IInv, EndInv, PromiseInv, NEW d \in Drivers, Dispatch(d)
  PROVE  Sound(d)
<1> DEFINE q == worker[d].request
           g == Heard(q)
           n == worker[d].node
           h == [g EXCEPT !.journal[n] = "started"]
           w == [worker[d] EXCEPT !.phase = "started"]
<1>0. worker[d].phase = "admitted" /\ worker[d].phase # "idle"
  BY DEF Dispatch, At
<1>1. /\ worker[d] \in Driver /\ worker \in [Drivers -> Driver] /\ g \in FrameState
      /\ CausedFiles(q, g)
  BY <1>0, HeardSound
<1>2. CASE StopReason(q) # "none"
  <2>1. frame' = [frame EXCEPT ![q] = g] /\ Finishing(d, StopReason(q))
    BY <1>2 DEF Dispatch
  <2> HIDE DEF g
  <2> QED
    BY <1>0, <1>1, <2>1, FinishingSound DEF Finishing
<1>3. CASE StopReason(q) = "none"
  <2>1. frame' = [frame EXCEPT ![q] = h] /\ worker' = [worker EXCEPT ![d] = w]
    BY <1>1, <1>3 DEF Dispatch, Goto, Driver
  <2>2. w.request = q /\ w.phase = "started" /\ w.stop = worker[d].stop
    BY <1>1 DEF Driver
  <2> HIDE DEF g, w, n
  <2>3. h.status = g.status /\ h.cancel = g.cancel /\ h.revision = g.revision
    BY <1>1 DEF FrameState
  <2> HIDE DEF h
  <2>4. CausedFiles(q, h)
    BY <1>1, <2>3 DEF CausedFiles
  <2> QED
    BY <1>0, <2>1, <2>2, <2>4, SoundStep
<1> QED
  BY <1>2, <1>3

\* The call itself is not among the sound steps: it is the promise's own.
LEMMA AttemptSound ==
  ASSUME IInv, EndInv, PromiseInv, NEW d \in Drivers, Attempt(d), StopReason(worker[d].request) # "none"
  PROVE  Sound(d)
<1> DEFINE q == worker[d].request
           g == Heard(q)
           n == worker[d].node
           h == [g EXCEPT !.node[n] = "unknown"]
           w == [worker[d] EXCEPT !.phase = "finish", !.stop = StopReason(q)]
<1>0. worker[d].phase = "started" /\ worker[d].phase # "idle" /\ Save(d, h, w)
  BY DEF Attempt, At
<1>1. /\ worker[d] \in Driver /\ g \in FrameState /\ Closed(q)
  BY <1>0, HeardSound
<1>2. w.request = q /\ w.phase = "finish"
  BY <1>1 DEF Driver
<1> HIDE DEF g, w, n
<1>3. h \in FrameState
  BY <1>1 DEF FrameState, NodeStates
<1> HIDE DEF h
<1> QED
  BY <1>0, <1>1, <1>2, <1>3, SoundSave

LEMMA AnsweredSound ==
  ASSUME IInv, EndInv, PromiseInv, NEW d \in Drivers, Answered(d)
  PROVE  Sound(d)
<1> DEFINE q == worker[d].request
           g == Heard(q)
           n == worker[d].node
           outcome == IF worker[d].phase = "applied" THEN "completed" ELSE "failed"
           h == [g EXCEPT !.journal[n] = outcome]
           w == [worker[d] EXCEPT !.phase = "settle", !.todo = @ \cup {n}]
<1>0. worker[d].phase # "idle"
  BY DEF Answered, At
<1>1. /\ worker[d] \in Driver /\ worker \in [Drivers -> Driver] /\ g \in FrameState /\ CausedFiles(q, g)
  BY <1>0, HeardSound
<1>2. frame' = [frame EXCEPT ![q] = h] /\ worker' = [worker EXCEPT ![d] = w]
  BY <1>1 DEF Answered, Driver
<1>3. w.request = q /\ w.phase = "settle" /\ w.stop = worker[d].stop
  BY <1>1 DEF Driver
<1> HIDE DEF g, w, n, outcome
<1>4. h.status = g.status /\ h.cancel = g.cancel /\ h.revision = g.revision
  BY <1>1 DEF FrameState
<1> HIDE DEF h
<1>5. CausedFiles(q, h)
  BY <1>1, <1>4 DEF CausedFiles
<1> QED
  BY <1>0, <1>2, <1>3, <1>5, SoundStep

\* A run ends as cancelled or exhausted only when it was stopped.
LEMMA FinishSound ==
  ASSUME IInv, EndInv, PromiseInv, NEW d \in Drivers, FinishRun(d)
  PROVE  Sound(d)
<1> DEFINE q == worker[d].request
           g == Heard(q)
           unknown == {n \in Nodes : g.node[n] = "unknown"}
           stopped == worker[d].stop # "none" \/ clock[q] = 2 \/ g.cancel
           status == IF unknown # {} THEN "running"
                     ELSE IF stopped THEN (IF g.cancel THEN "cancelled" ELSE "exhausted")
                     ELSE IF Waiting(g) # {} THEN "awaiting_approval"
                     ELSE IF \A n \in Nodes : g.node[n] = "completed" THEN "succeeded" ELSE "failed"
           nodes == [n \in Nodes |-> IF status \in {"cancelled", "exhausted"} /\ g.node[n] # "completed"
                                     THEN "cancelled" ELSE g.node[n]]
           h == [g EXCEPT !.status = status, !.node = nodes]
           w == [worker[d] EXCEPT !.phase = IF worker[d].command = "recover" THEN "reconcile" ELSE "result",
                                  !.stop = "none", !.listed = TRUE,
                                  !.ask = IF worker[d].listed THEN @ ELSE unknown]
<1>0. worker[d].phase = "finish" /\ worker[d].phase # "idle" /\ Save(d, h, w)
  BY DEF FinishRun, At
<1>1. /\ worker[d] \in Driver /\ g \in FrameState /\ (g.cancel => Closed(q))
      /\ worker[d].stop # "none" => Closed(q)
  BY <1>0, HeardSound
<1>2. /\ status \in {"running", "awaiting_approval"} \cup Terminal
      /\ status \in {"cancelled", "exhausted"} => stopped
  <2> HIDE DEF g, unknown, stopped
  <2> QED
    BY DEF Terminal
<1>3. stopped => Closed(q)
  BY <1>1 DEF Closed
<1>4. w.request = q /\ w.phase \in {"reconcile", "result"} /\ w.stop = "none"
  <2> DEFINE phase == IF worker[d].command = "recover" THEN "reconcile" ELSE "result"
             ask == IF worker[d].listed THEN worker[d].ask ELSE unknown
  <2>1. w = [worker[d] EXCEPT !.phase = phase, !.stop = "none", !.listed = TRUE, !.ask = ask]
    <3> HIDE DEF unknown
    <3> QED
      BY <1>1 DEF Driver
  <2>2. phase \in {"reconcile", "result"}
    OBVIOUS
  <2> HIDE DEF phase, ask, w, unknown
  <2> QED
    BY <1>1, <2>1, <2>2 DEF Driver
<1> HIDE DEF stopped, status, g, w
<1>5. nodes \in [Nodes -> NodeStates]
  BY <1>1 DEF FrameState, NodeStates
<1> HIDE DEF nodes
<1>6. h \in FrameState /\ h.status = status /\ h.cancel = g.cancel
  BY <1>1, <1>2, <1>5 DEF FrameState, Terminal
<1> HIDE DEF h
<1> QED
  BY <1>0, <1>1, <1>2, <1>3, <1>4, <1>6, SoundSave

LEMMA ReconcileSound ==
  ASSUME IInv, EndInv, PromiseInv, NEW d \in Drivers, Reconcile(d)
  PROVE  Sound(d)
<1> DEFINE q == worker[d].request
           g == Heard(q)
           n == First(worker[d].ask)
           h == [g EXCEPT !.node[n] = "completed"]
           known == [h EXCEPT !.journal[n] = "completed"]
           rest == [worker[d] EXCEPT !.ask = Asked(d, n)]
<1>0. worker[d].phase = "reconcile" /\ worker[d].phase # "idle"
  BY DEF Reconcile, At
<1>1. /\ worker[d] \in Driver /\ worker \in [Drivers -> Driver] /\ g \in FrameState /\ CausedFiles(q, g)
      /\ g.cancel \/ g.status \in {"cancelled", "exhausted"} => Closed(q)
  BY <1>0, HeardSound
<1>2. rest.request = q /\ rest.phase = "reconcile" /\ rest.stop = worker[d].stop /\ rest \in Driver
  BY <1>0, <1>1 DEF Driver, Asked
<1>3. CASE (Goto(d, "result") \/ Goto(d, "failed")) /\ UNCHANGED frame
  BY <1>0, <1>3, SoundQuiet
<1>4. CASE frame' = [frame EXCEPT ![q] = g] /\ worker' = [worker EXCEPT ![d] = rest]
  <2> HIDE DEF g, rest
  <2> QED
    BY <1>0, <1>1, <1>2, <1>4, SoundStep
<1>5. CASE Save(d, known, [rest EXCEPT !.phase = "settle", !.todo = Unsettled(known)])
  <2> DEFINE w == [rest EXCEPT !.phase = "settle", !.todo = Unsettled(known)]
  <2>1. Save(d, known, w)
    BY <1>5
  <2> HIDE DEF rest, g, n
  <2>2. w.request = q /\ w.phase = "settle" /\ w.stop = worker[d].stop
    BY <1>2 DEF Driver
  <2>3. h \in FrameState /\ h.cancel = g.cancel /\ h.status = g.status
    BY <1>1 DEF FrameState, NodeStates
  <2> HIDE DEF h, w
  <2>4. known \in FrameState /\ known.cancel = h.cancel /\ known.status = h.status
    BY <2>3 DEF FrameState
  <2> HIDE DEF known
  <2> QED
    BY <1>0, <1>1, <2>1, <2>2, <2>3, <2>4, SoundSave
<1> HIDE DEF known, rest
<1> QED
  BY <1>3, <1>4, <1>5 DEF Reconcile, known, rest

\* The steps of a driver that leave the files to others.
LEMMA RestSound ==
  ASSUME IInv, EndInv, PromiseInv, NEW d \in Drivers,
         \/ AuthorizeStart(d) \/ Write(d) \/ Receive(d) \/ Project(d)
         \/ MarkUnknown(d) \/ HostRefuses(d) \/ SidecarFails(d)
  PROVE  Sound(d)
<1>1. worker[d].phase # "idle" /\ UNCHANGED frame
  BY DEF AuthorizeStart, Write, Receive, Project, MarkUnknown, HostRefuses, SidecarFails, At, SidecarPhases
<1>2. \/ Release(d)
      \/ \E phase \in {"create", "failed", "applied", "denied", "project"} : Goto(d, phase)
  BY DEF AuthorizeStart, Write, Receive, Project, MarkUnknown, HostRefuses, SidecarFails
<1> QED
  BY <1>1, <1>2, SoundQuiet

LEMMA PurgeSound ==
  ASSUME IInv, EndInv, PromiseInv, NEW d \in Drivers, PurgeStep(d)
  PROVE  Sound(d)
<1>0. worker[d].phase # "idle"
  BY DEF PurgeStep
<1>1. worker[d] \in Driver /\ worker \in [Drivers -> Driver]
  BY <1>0, HeardSound
<1>2. CASE worker[d].phase = "purge"
  <2> DEFINE w == [worker[d] EXCEPT !.phase = "purging"]
  <2>1. /\ frame' = [frame EXCEPT ![worker[d].request] = NoFrame] /\ worker' = [worker EXCEPT ![d] = w]
        /\ w.request = worker[d].request /\ w.phase = "purging" /\ w.stop = worker[d].stop
    BY <1>1, <1>2 DEF PurgeStep, PurgeOrder, Goto, Driver
  <2> HIDE DEF w
  <2>2. CausedFiles(worker[d].request, NoFrame)
    BY DEF CausedFiles, NoFrame
  <2> QED
    BY <1>0, <2>1, <2>2, SoundStep
<1>3. CASE worker[d].phase = "purging"
  <2>1. UNCHANGED frame /\ Release(d)
    <3>1. frame \in [Requests -> FrameState]
      BY DEF IInv, TypeOK
    <3> QED
      BY <1>3, <3>1 DEF PurgeStep, PurgeOrder
  <2> QED
    BY <1>0, <2>1, SoundQuiet
<1> QED
  BY <1>2, <1>3 DEF PurgeStep

LEMMA HostDiesSound ==
  ASSUME IInv, EndInv, PromiseInv, NEW d \in Drivers, HostDies(d)
  PROVE  Sound(d)
<1> DEFINE q == worker[d].request
           f == frame[q]
           n == worker[d].node
           settled == [f EXCEPT !.journal[n] = "failed", !.node[n] = "unknown",
                                !.revision = @ + 1, !.published = f.revision + 1]
<1>0. worker[d].phase # "idle" /\ Release(d)
  BY DEF HostDies
<1>1. CASE UNCHANGED frame
  BY <1>0, <1>1, SoundQuiet
<1>2. CASE frame' = [frame EXCEPT ![q] = settled]
  <2>1. f \in FrameState /\ CausedFiles(q, f)
    BY <1>0, HeardSound, PromiseMine
  <2> HIDE DEF f, n
  <2>2. settled.status = f.status /\ settled.cancel = f.cancel /\ settled.revision > 0
    BY <2>1 DEF FrameState
  <2> HIDE DEF settled
  <2>3. CausedFiles(q, settled)
    BY <2>1, <2>2 DEF CausedFiles
  <2> QED
    BY <1>0, <1>2, <2>3, SoundStep DEF Release
<1> QED
  BY <1>1, <1>2 DEF HostDies

\* A run that is found; asking for the permission is another step.
LEMMA FindSound ==
  ASSUME IInv, EndInv, PromiseInv, NEW d \in Drivers, FindRun(d), ~Goto(d, "start")
  PROVE  Sound(d)
<1> DEFINE q == worker[d].request
           g == Heard(q)
           resumed == [g EXCEPT !.published = g.revision]
<1>0. worker[d].phase = "find" /\ worker[d].phase # "idle"
  BY DEF FindRun, At
<1>1. /\ worker[d] \in Driver /\ worker \in [Drivers -> Driver] /\ g \in FrameState /\ CausedFiles(q, g)
  BY <1>0, HeardSound
<1>2. CASE UNCHANGED frame /\ Goto(d, "failed")
  BY <1>0, <1>2, SoundQuiet
<1>3. ASSUME frame' = [frame EXCEPT ![q] = g], NEW phase \in {"failed", "approve", "result"}, Goto(d, phase)
      PROVE  Sound(d)
  <2> DEFINE w == [worker[d] EXCEPT !.phase = phase]
  <2>1. worker' = [worker EXCEPT ![d] = w] /\ w.request = q /\ w.phase = phase /\ w.stop = worker[d].stop
    BY <1>1, <1>3 DEF Goto, Driver
  <2> HIDE DEF w, g
  <2> QED
    BY <1>0, <1>1, <1>3, <2>1, SoundStep
<1>4. ASSUME frame' = [frame EXCEPT ![q] = resumed], NEW phase \in {"result", "settle"},
             worker' = [worker EXCEPT ![d].phase = phase, ![d].todo = Unsettled(g)]
      PROVE  Sound(d)
  <2> DEFINE w == [worker[d] EXCEPT !.phase = phase, !.todo = Unsettled(g)]
  <2>1. worker' = [worker EXCEPT ![d] = w] /\ w.request = q /\ w.phase = phase /\ w.stop = worker[d].stop
    BY <1>1, <1>4 DEF Driver
  <2> HIDE DEF g
  <2>2. resumed.status = g.status /\ resumed.cancel = g.cancel /\ resumed.revision = g.revision
    BY <1>1 DEF FrameState
  <2> HIDE DEF w, resumed
  <2>3. CausedFiles(q, resumed)
    BY <1>1, <2>2 DEF CausedFiles
  <2> QED
    BY <1>0, <1>4, <2>1, <2>3, SoundStep
<1> HIDE DEF resumed
<1> QED
  BY <1>2, <1>3, <1>4 DEF FindRun, resumed

\* Which driver steps are sound, and which three are the others.
LEMMA SoundKinds ==
  ASSUME IInv, EndInv, PromiseInv, NEW d \in Drivers,
         DriveStep(d) \/ SidecarFails(d) \/ HostDies(d)
  PROVE  \/ Sound(d)
         \/ Begin(d)
         \/ FindRun(d) /\ Goto(d, "start")
         \/ Attempt(d) /\ StopReason(worker[d].request) = "none"
<1>1. CASE FindRun(d) \/ AuthorizeStart(d) \/ CreateRun(d) \/ ApproveNode(d) \/ SettleNode(d)
  BY <1>1, FindSound, RestSound, CreateSound, ApproveSound, SettleSound
<1>2. CASE Advance(d) \/ Dispatch(d) \/ Attempt(d) \/ Write(d) \/ Answered(d) \/ FinishRun(d)
  BY <1>2, AdvanceSound, DispatchSound, AttemptSound, RestSound, AnsweredSound, FinishSound
<1>3. CASE Reconcile(d) \/ Receive(d) \/ Project(d) \/ MarkUnknown(d) \/ HostRefuses(d)
           \/ PurgeStep(d) \/ SidecarFails(d) \/ HostDies(d)
  BY <1>3, ReconcileSound, RestSound, PurgeSound, HostDiesSound
<1> QED
  BY <1>1, <1>2, <1>3 DEF DriveStep

\* A driver changes the files and the effects of the request that it has leased.
LEMMA OnlyMine ==
  ASSUME IInv, NEW d \in Drivers, DriveStep(d) \/ SidecarFails(d) \/ HostDies(d)
  PROVE  /\ worker[d].phase # "idle"
         /\ \A p \in Requests : p # worker[d].request =>
               /\ frame'[p] = frame[p] /\ calls'[p] = calls[p] /\ receipts'[p] = receipts[p]
         /\ \A e \in Drivers : e # d => worker'[e] = worker[e]
<1>0. /\ frame \in [Requests -> FrameState] /\ worker \in [Drivers -> Driver]
      /\ calls \in [Requests -> [Nodes -> Nat]] /\ receipts \in [Requests -> SUBSET Nodes]
  BY DEF IInv, TypeOK
<1>1. ASSUME NEW g, NEW w, Save(d, g, w)
      PROVE  /\ UNCHANGED <<calls, receipts>>
             /\ \A p \in Requests : p # worker[d].request => frame'[p] = frame[p]
             /\ \A e \in Drivers : e # d => worker'[e] = worker[e]
  BY <1>0, <1>1 DEF Save, host
<1>2. CASE Begin(d) \/ AuthorizeStart(d) \/ Write(d) \/ Receive(d) \/ Project(d)
           \/ MarkUnknown(d) \/ HostRefuses(d) \/ SidecarFails(d)
  BY <1>0, <1>2 DEF Begin, AuthorizeStart, Write, Receive, Project, MarkUnknown, HostRefuses,
     SidecarFails, At, SidecarPhases, Goto, Release, host
<1>3. CASE FindRun(d) \/ CreateRun(d)
  BY <1>0, <1>1, <1>3 DEF FindRun, CreateRun, At, Goto, host
<1>4. CASE ApproveNode(d) \/ SettleNode(d)
  BY <1>0, <1>1, <1>4 DEF ApproveNode, SettleNode, At, Goto, host
<1>5. CASE Advance(d) \/ Dispatch(d)
  BY <1>0, <1>1, <1>5 DEF Advance, Dispatch, At, Goto, Finishing, host
<1>6. CASE Attempt(d) \/ Answered(d)
  BY <1>0, <1>1, <1>6 DEF Attempt, Answered, At, Goto, host
<1>7. CASE FinishRun(d) \/ Reconcile(d)
  BY <1>0, <1>1, <1>7 DEF FinishRun, Reconcile, At, Goto, host
<1>8. CASE PurgeStep(d) \/ HostDies(d)
  BY <1>0, <1>8 DEF PurgeStep, HostDies, Goto, Release, host
<1> QED
  BY <1>2, <1>3, <1>4, <1>5, <1>6, <1>7, <1>8 DEF DriveStep

LEMMA FilesCaused ==
  ASSUME IInv, EndInv, PromiseInv, [Next]_vars, NEW p \in Requests
  PROVE  CausedFiles(p, frame[p])'
<1>0. RowMove(p) /\ CausedFiles(p, frame[p]) /\ frame \in [Requests -> FrameState]
  BY RowMoves DEF PromiseInv, IInv, TypeOK
<1>1. CASE frame'[p] = frame[p]
  BY <1>0, <1>1 DEF CausedFiles, RowMove
<1>2. ASSUME NEW q \in Requests,
             \/ Accept(q) \/ Cancel(q) \/ Tick(q) \/ DeleteCase(q)
             \/ \E d \in Drivers : Drive(d, q) \/ Purge(d, q)
      PROVE  frame' = frame
  BY <1>2 DEF Accept, Cancel, Tick, DeleteCase, Drive, Purge, TakeLease
<1>3. ASSUME NEW q \in Requests, LoseState(q) PROVE CausedFiles(p, frame[p])'
  <2>1. frame'[p] \in {frame[p], NoFrame}
    BY <1>0, <1>3 DEF LoseState
  <2> QED
    BY <1>1, <2>1 DEF CausedFiles, NoFrame
<1>4. ASSUME NEW d \in Drivers, DriveStep(d) \/ SidecarFails(d) \/ HostDies(d)
      PROVE  CausedFiles(p, frame[p])'
  <2>1. CASE p # worker[d].request
    BY <1>1, <1>4, <2>1, OnlyMine
  <2>2. CASE p = worker[d].request /\ Sound(d)
    <3>1. CausedFiles(p, frame'[p])
      BY <2>2 DEF Sound
    <3> QED
      BY <1>0, <3>1 DEF CausedFiles, RowMove
  <2>3. CASE \/ Begin(d)
             \/ FindRun(d) /\ Goto(d, "start")
             \/ Attempt(d) /\ StopReason(worker[d].request) = "none"
    <3>1. frame' = frame \/ (FindRun(d) /\ Goto(d, "start"))
      BY <2>3 DEF Begin, Attempt
    <3>2. ASSUME FindRun(d), Goto(d, "start") PROVE frame' = frame
      <4>1. worker[d].phase = "find"
        BY <3>2 DEF FindRun, At
      <4>2. worker[d] \in Driver /\ worker \in [Drivers -> Driver]
        BY <4>1, EndMine
      <4>3. worker'[d].phase = "start"
        BY <3>2, <4>2 DEF Goto, Driver
      <4> QED
        BY <3>2, <4>2, <4>3 DEF FindRun, Goto, Driver
    <3> QED
      BY <1>1, <3>1, <3>2
  <2> QED
    BY <1>4, <2>1, <2>2, <2>3, SoundKinds
<1>5. CASE UNCHANGED vars
  BY <1>1, <1>5 DEF vars
<1> QED
  BY <1>1, <1>2, <1>3, <1>4, <1>5 DEF Next

\* What a driver accounts for after a step, said of its request.
LEMMA AccountsAfter ==
  ASSUME NEW e \in Drivers, NEW q \in Requests,
         worker'[e].phase # "idle" =>
            /\ worker'[e].request = q
            /\ link'[q].status # "none"
            /\ worker'[e].phase = "start" \/ (worker'[e].phase = "find" /\ worker'[e].command # "inspect")
               => link'[q].status # "queued"
            /\ worker'[e].stop # "none" => Closed(q)'
            /\ worker'[e].phase = "call" => /\ calls'[q][worker'[e].node] = 1
                                           /\ worker'[e].node \notin receipts'[q]
  PROVE  Accounts(worker[e])'
<1>1. (worker[e].phase # "idle" /\ worker[e].stop # "none" => Closed(worker[e].request))'
  OBVIOUS
<1> QED
  BY <1>1 DEF Accounts

\* A driver that does nothing keeps its account, whoever acts on other requests.
LEMMA AccountsStay ==
  ASSUME IInv, EndInv, PromiseInv, NEW e \in Drivers, worker'[e] = worker[e],
         \A q \in Requests : RowMove(q),
         \A q \in Requests : worker[e].request = q =>
            calls'[q] = calls[q] /\ receipts'[q] \subseteq receipts[q]
  PROVE  Accounts(worker[e])'
<1>1. CASE worker[e].phase = "idle"
  BY <1>1 DEF Accounts
<1>2. CASE worker[e].phase # "idle"
  <2>1. PICK q \in Requests : q = worker[e].request
    BY <1>2, Lease
  <2>2. Accounts(worker[e])
    BY DEF PromiseInv
  <2>3. RowMove(q) /\ calls'[q] = calls[q] /\ receipts'[q] \subseteq receipts[q]
    BY <2>1
  <2> QED
    BY <1>2, <2>1, <2>2, <2>3, AccountsAfter DEF Accounts, RowMove
<1> QED
  BY <1>1, <1>2

LEMMA DriversAccount ==
  ASSUME IInv, EndInv, PromiseInv, [Next]_vars, NEW e \in Drivers
  PROVE  Accounts(worker[e])'
<1>0. /\ worker \in [Drivers -> Driver] /\ calls \in [Requests -> [Nodes -> Nat]]
      /\ receipts \in [Requests -> SUBSET Nodes] /\ link \in [Requests -> LinkRow]
  BY DEF IInv, TypeOK
<1>1. \A q \in Requests : RowMove(q)
  BY RowMoves
<1>2. ASSUME NEW q \in Requests,
             Accept(q) \/ Cancel(q) \/ Tick(q) \/ DeleteCase(q) \/ LoseState(q)
      PROVE  Accounts(worker[e])'
  <2>1. worker' = worker /\ calls' = calls
    BY <1>2 DEF Accept, Cancel, Tick, DeleteCase, LoseState
  <2>2. \A p \in Requests : receipts'[p] \subseteq receipts[p]
    BY <1>0, <1>2 DEF Accept, Cancel, Tick, DeleteCase, LoseState, host
  <2> QED
    BY <1>1, <2>1, <2>2, AccountsStay
<1>3. ASSUME NEW d \in Drivers, NEW q \in Requests, Drive(d, q) \/ Purge(d, q)
      PROVE  Accounts(worker[e])'
  <2>1. PICK command : TakeLease(d, q, command)
    BY <1>3 DEF Drive, Purge
  <2>2. UNCHANGED <<link, clock, calls, receipts>>
    BY <2>1 DEF TakeLease, host
  <2>3. CASE e # d
    <3>1. worker'[e] = worker[e]
      BY <1>0, <2>1, <2>3 DEF TakeLease
    <3> QED
      BY <1>1, <2>2, <3>1, AccountsStay
  <2>4. CASE e = d
    <3>1. worker'[d].phase \in {"purge", "begin"} /\ worker'[d].stop = "none" /\ worker'[d].request = q
      BY <1>0, <2>1 DEF TakeLease, Idle
    <3>2. link[q].status # "none"
      BY <1>3 DEF Drive, Purge, IInv, PurgeKnows, Gone
    <3> QED
      BY <2>2, <2>4, <3>1, <3>2, AccountsAfter
  <2> QED
    BY <2>3, <2>4
<1>4. ASSUME NEW d \in Drivers, DriveStep(d) \/ SidecarFails(d) \/ HostDies(d)
      PROVE  Accounts(worker[e])'
  <2>a. worker[d].phase # "idle"
    BY <1>4, OnlyMine
  <2>b. PICK q \in Requests : q = worker[d].request
    BY <2>a, Lease
  <2>0. worker[d].phase # "idle" /\ worker[d].request = q
    BY <2>a, <2>b
  <2>1. CASE e # d
    <3>1. worker'[e] = worker[e] /\ worker[e].request # q
      BY <1>4, <2>0, <2>1, OnlyMine, Lease
    <3>2. \A p \in Requests : p # q => calls'[p] = calls[p] /\ receipts'[p] \subseteq receipts[p]
      BY <1>4, <2>0, OnlyMine
    <3> QED
      BY <1>1, <3>1, <3>2, AccountsStay
  <2>2. Accounts(worker[d]) /\ RowMove(q) /\ link[q].status # "none"
    BY <1>1, <2>0, PromiseMine DEF Accounts
  <2>c. worker[d].stop # "none" => Closed(q)
    BY <2>0, <2>2 DEF Accounts
  <2>3. link'[q].status # "none"
    BY <2>2 DEF RowMove
  <2>4. CASE e = d /\ Sound(d)
    <3>1. \/ worker'[d].phase = "idle"
          \/ /\ worker'[d].request = q
             /\ worker'[d].phase \notin {"find", "start", "call"}
             /\ worker'[d].stop # "none" => Closed(q)
      BY <2>0, <2>4 DEF Sound
    <3> QED
      BY <2>2, <2>3, <2>4, <3>1, AccountsAfter DEF RowMove
  <2>5. CASE e = d /\ Begin(d)
    <3>1. worker[d].phase = "begin"
      BY <2>5 DEF Begin
    <3>2. worker'[d].phase = "idle" \/
          /\ worker'[d].phase = "find" /\ worker'[d].request = q
          /\ worker'[d].stop = worker[d].stop /\ worker'[d].command = worker[d].command
      BY <1>0, <2>0, <2>5 DEF Begin, Release, Idle, Driver
    <3>3. worker[d].command # "inspect" => link'[q].status # "queued"
      BY <1>0, <2>0, <2>5 DEF Begin, LinkRow
    <3> QED
      BY <2>c, <2>2, <2>3, <2>5, <3>2, <3>3, AccountsAfter DEF RowMove
  <2>6. CASE e = d /\ FindRun(d) /\ Goto(d, "start")
    <3>1. worker[d].phase = "find"
      BY <2>6 DEF FindRun, At
    <3>2. /\ worker'[d].phase = "start" /\ worker'[d].request = q /\ worker'[d].stop = worker[d].stop
      BY <1>0, <2>0, <2>6 DEF Goto, Driver
    <3>3. worker[d].command # "inspect"
      BY <1>0, <2>6, <3>2 DEF FindRun, Goto, Driver
    <3>4. link[q].status \notin {"none", "queued"}
      BY <2>0, <2>2, <3>1, <3>3 DEF Accounts
    <3>5. link'[q].status # "queued" /\ (Closed(q) => Closed(q)')
      BY <2>2, <3>4 DEF RowMove
    <3> QED
      BY <2>c, <2>3, <2>6, <3>2, <3>5, AccountsAfter
  <2>7. CASE e = d /\ Attempt(d) /\ StopReason(q) = "none"
    <3> DEFINE n == worker[d].node
    <3>1. worker[d].phase = "started" /\ Knows(worker[d], frame[q])
      BY <2>0, <2>7, Mine DEF Attempt, At
    <3>2. n \in Nodes /\ calls[q][n] = 0
      BY <2>0, <3>1 DEF Knows, NodePhases, CallPhases
    <3>3. /\ worker'[d].phase = "call" /\ worker'[d].request = q /\ worker'[d].stop = worker[d].stop
          /\ worker'[d].node = n
      BY <1>0, <2>0, <2>7 DEF Attempt, Goto, Driver
    <3>4. calls'[q][n] = 1 /\ receipts' = receipts
      BY <1>0, <2>0, <2>7, <3>2 DEF Attempt, host
    <3>5. n \notin receipts[q]
      BY <2>0, <3>2 DEF PromiseInv, ReceiptsFollow
    <3> HIDE DEF n
    <3> QED
      BY <2>c, <2>2, <2>3, <2>7, <3>3, <3>4, <3>5, AccountsAfter DEF RowMove
  <2> QED
    BY <1>4, <2>0, <2>1, <2>4, <2>5, <2>6, <2>7, SoundKinds
<1>5. CASE UNCHANGED vars
  <2>1. UNCHANGED <<worker, calls, receipts>>
    BY <1>5 DEF vars, host
  <2> QED
    BY <1>1, <2>1, AccountsStay
<1> QED
  BY <1>2, <1>3, <1>4, <1>5 DEF Next

LEMMA ReceiptsStep ==
  ASSUME IInv, EndInv, PromiseInv, [Next]_vars
  PROVE  ReceiptsFollow'
<1>0. /\ calls \in [Requests -> [Nodes -> Nat]] /\ receipts \in [Requests -> SUBSET Nodes]
      /\ ReceiptsFollow
  BY DEF IInv, TypeOK, PromiseInv
<1>1. CASE UNCHANGED <<calls, receipts>>
  BY <1>0, <1>1 DEF ReceiptsFollow
<1>2. ASSUME NEW q \in Requests, Accept(q) \/ Cancel(q) \/ Tick(q) \/ DeleteCase(q)
      PROVE  ReceiptsFollow'
  <2>1. calls' = calls /\ \A p \in Requests : receipts'[p] \subseteq receipts[p]
    BY <1>0, <1>2 DEF Accept, Cancel, Tick, DeleteCase, host
  <2> QED
    BY <1>0, <2>1 DEF ReceiptsFollow
<1>3. ASSUME NEW d \in Drivers, Attempt(d), StopReason(worker[d].request) = "none"
      PROVE  ReceiptsFollow'
  <2> DEFINE q == worker[d].request
             n == worker[d].node
  <2>1. worker[d].phase = "started" /\ Knows(worker[d], frame[q]) /\ q \in Requests
    BY <1>3, Mine, Lease DEF Attempt, At
  <2>2. n \in Nodes /\ calls[q][n] = 0
    BY <2>1 DEF Knows, NodePhases, CallPhases
  <2>3. calls' = [calls EXCEPT ![q][n] = @ + 1] /\ receipts' = receipts
    BY <1>3 DEF Attempt, host
  <2> QED
    BY <1>0, <2>1, <2>2, <2>3 DEF ReceiptsFollow
<1>4. ASSUME NEW d \in Drivers, Write(d) PROVE ReceiptsFollow'
  <2> DEFINE q == worker[d].request
             n == worker[d].node
  <2>1. worker[d].phase = "call" /\ worker[d].phase # "idle"
    BY <1>4 DEF Write, At
  <2>2. calls[q][n] = 1 /\ q \in Requests
    BY <2>1, PromiseMine DEF Accounts
  <2>3. calls' = calls /\ receipts' \in {receipts, [receipts EXCEPT ![q] = @ \cup {n}]}
    BY <1>4 DEF Write
  <2> HIDE DEF q, n
  <2>4. \A p \in Requests : receipts'[p] = receipts[p] \/ (p = q /\ receipts'[p] = receipts[p] \cup {n})
    BY <1>0, <2>2, <2>3
  <2> QED
    BY <1>0, <2>2, <2>3, <2>4 DEF ReceiptsFollow
<1>5. ASSUME NEW d \in Drivers,
             \/ Begin(d) \/ AuthorizeStart(d) \/ Project(d) \/ MarkUnknown(d)
             \/ Attempt(d) /\ StopReason(worker[d].request) # "none"
      PROVE  UNCHANGED <<calls, receipts>>
  BY <1>5, SaveIsHidden DEF Begin, AuthorizeStart, Project, MarkUnknown, Attempt
<1> QED
  BY <1>1, <1>2, <1>3, <1>4, <1>5, StepKinds

LEMMA EarlyStep ==
  ASSUME IInv, EndInv, PromiseInv, [Next]_vars
  PROVE  EarlyEnds'
<1> SUFFICES ASSUME NEW q \in Requests
             PROVE  /\ link'[q].status \in {"none", "queued"} => ~link'[q].started
                    /\ link'[q].status \in Terminal /\ link'[q].cursor = 0 =>
                          /\ ~link'[q].started /\ Closed(q)'
                          /\ link'[q].status \in {"cancelled", "exhausted"}
  BY DEF EarlyEnds
<1>0. /\ link \in [Requests -> LinkRow] /\ RowMove(q) /\ clock \in [Requests -> 0 .. 2]
      /\ link[q].status \in {"none", "queued"} => ~link[q].started
      /\ link[q].status \in Terminal /\ link[q].cursor = 0 =>
                          /\ ~link[q].started /\ Closed(q)
                          /\ link[q].status \in {"cancelled", "exhausted"}
  BY RowMoves DEF PromiseInv, EarlyEnds, IInv, TypeOK
<1>1. CASE link'[q] = link[q]
  BY <1>0, <1>1 DEF RowMove
<1>2. CASE Accept(q) \/ DeleteCase(q)
  <2>1. /\ link'[q].status \in {"queued", "deleted"}
        /\ link'[q].status = "queued" => ~link'[q].started
    BY <1>0, <1>2 DEF Accept, DeleteCase, NoLink, LinkRow
  <2> QED
    BY <2>1 DEF Terminal
<1>3. CASE Cancel(q)
  <2>1. /\ link'[q].cancel /\ link'[q].started = link[q].started
        /\ link[q].status \notin Terminal \cup {"none", "deleted"}
        /\ link'[q].status = IF link[q].status = "queued" THEN "cancelled" ELSE link[q].status
    BY <1>0, <1>3 DEF Cancel, LinkRow
  <2> QED
    BY <1>0, <2>1 DEF Closed, Terminal
<1>4. ASSUME NEW p \in Requests, Accept(p) \/ Cancel(p) \/ Tick(p) \/ DeleteCase(p), p # q \/ Tick(p)
      PROVE  link'[q] = link[q]
  BY <1>0, <1>4 DEF Accept, Cancel, Tick, DeleteCase, host
<1>5. ASSUME NEW d \in Drivers, Begin(d) \/ AuthorizeStart(d) \/ Attempt(d) \/ Write(d)
                                \/ Project(d) \/ MarkUnknown(d), worker[d].request # q
      PROVE  link'[q] = link[q]
  BY <1>0, <1>5, SaveIsHidden
     DEF Begin, AuthorizeStart, Attempt, Write, Project, MarkUnknown, host
<1>6. ASSUME NEW d \in Drivers, Attempt(d) \/ Write(d)
      PROVE  link'[q] = link[q]
  BY <1>6, SaveIsHidden DEF Attempt, Write, host
<1>7. ASSUME NEW d \in Drivers, worker[d].request = q, Begin(d)
      PROVE  /\ link'[q].status \in {"none", "queued"} => ~link'[q].started
             /\ link'[q].status \in Terminal /\ link'[q].cursor = 0 =>
                   /\ ~link'[q].started /\ Closed(q)'
                   /\ link'[q].status \in {"cancelled", "exhausted"}
  <2>1. /\ link'[q].started = link[q].started /\ link'[q].cursor = link[q].cursor
        /\ \/ link'[q].status \in {link[q].status, "running"}
           \/ Expired(q) /\ link'[q].status = "exhausted"
    BY <1>0, <1>7 DEF Begin, LinkRow
  <2>2. Expired(q) => link[q].status \in {"queued", "exhausted"} /\ link[q].cursor = 0 /\ Closed(q)
    BY DEF Expired, Closed
  <2> QED
    BY <1>0, <2>1, <2>2 DEF RowMove, Terminal
<1>8. ASSUME NEW d \in Drivers, worker[d].request = q, AuthorizeStart(d)
      PROVE  /\ link'[q].status \in {"none", "queued"} => ~link'[q].started
             /\ link'[q].status \in Terminal /\ link'[q].cursor = 0 =>
                   /\ ~link'[q].started /\ Closed(q)'
                   /\ link'[q].status \in {"cancelled", "exhausted"}
  <2>1. worker[d].phase = "start" /\ ~Gone(q)
    BY <1>8 DEF AuthorizeStart, At
  <2>2. link[q].status \notin {"none", "queued"}
    BY <1>8, <2>1, PromiseMine DEF Accounts
  <2>3. CASE StartAllowed(q)
    <3>1. ~Closed(q)
      BY <2>1, <2>3, <1>0 DEF StartAllowed, Closed
    <3>2. link'[q].status = link[q].status /\ link'[q].cursor = link[q].cursor
      BY <1>0, <1>8 DEF AuthorizeStart, LinkRow
    <3> QED
      BY <1>0, <2>2, <3>1, <3>2
  <2>4. CASE ~StartAllowed(q)
    <3>1. link' = link
      BY <1>8, <2>4 DEF AuthorizeStart
    <3> QED
      BY <1>1, <3>1
  <2> QED
    BY <2>3, <2>4
<1>9. ASSUME NEW d \in Drivers, worker[d].request = q, Project(d)
      PROVE  /\ link'[q].status \in {"none", "queued"} => ~link'[q].started
             /\ link'[q].status \in Terminal /\ link'[q].cursor = 0 =>
                   /\ ~link'[q].started /\ Closed(q)'
                   /\ link'[q].status \in {"cancelled", "exhausted"}
  <2>1. worker[d].phase = "project" /\ worker[d].phase # "idle"
    BY <1>9 DEF Project
  <2>2. WorksOn(worker[d], frame[q]) /\ frame[q] \in FrameState /\ CausedFiles(q, frame[q])
    BY <1>9, <2>1, EndMine, PromiseMine
  <2>3. frame[q].status \notin {"none", "queued"} /\ frame[q].revision > 0
    BY <2>1, <2>2 DEF WorksOn, CausedFiles, FrameState, Terminal
  <2>4. CASE ~Gone(q) /\ Complete(q)
    <3>1. link' = [link EXCEPT ![q] = [link[q] EXCEPT !.cursor = frame[q].published,
                                                     !.status = frame[q].status]]
      BY <1>9, <2>4 DEF Project
    <3>2. link'[q].status = frame[q].status /\ link'[q].cursor = frame[q].revision
      BY <1>0, <2>4, <3>1 DEF LinkRow, Complete
    <3> QED
      BY <2>2, <2>3, <3>2 DEF FrameState
  <2>5. CASE ~(~Gone(q) /\ Complete(q))
    <3>1. link' = link
      BY <1>9, <2>5 DEF Project
    <3> QED
      BY <1>1, <3>1
  <2> QED
    BY <2>4, <2>5
<1>10. ASSUME NEW d \in Drivers, worker[d].request = q, MarkUnknown(d)
      PROVE  /\ link'[q].status \in {"none", "queued"} => ~link'[q].started
             /\ link'[q].status \in Terminal /\ link'[q].cursor = 0 =>
                   /\ ~link'[q].started /\ Closed(q)'
                   /\ link'[q].status \in {"cancelled", "exhausted"}
  <2>1. link'[q] = link[q] \/ link'[q].status = "unknown"
    BY <1>0, <1>10 DEF MarkUnknown, Unknown, LinkRow
  <2> QED
    BY <1>1, <2>1 DEF Terminal
<1> QED
  BY <1>1, <1>2, <1>3, <1>4, <1>5, <1>6, <1>7, <1>8, <1>9, <1>10, StepKinds

LEMMA PromiseStep ==
  ASSUME IInv, EndInv, PromiseInv, [Next]_vars
  PROVE  PromiseInv'
BY FilesCaused, DriversAccount, ReceiptsStep, EarlyStep DEF PromiseInv

\* A step on one request, as the promise sees it.
LEMMA OnlyRow ==
  ASSUME NEW q \in Requests,
         \A p \in Requests : p # q => link'[p] = link[p] /\ clock'[p] = clock[p]
  PROVE  /\ told' = [told EXCEPT ![q] = Told(q)']
         /\ Told(q)' = Told(q) => told' = told
         /\ (Closed(q)' <=> Closed(q)) => closed' = closed
         /\ Closed(q)' => closed' = [closed EXCEPT ![q] = TRUE]
<1>1. \A p \in Requests : p # q => Told(p)' = Told(p) /\ (Closed(p)' <=> Closed(p))
  BY SameRow
<1>2. \A p \in Requests : Closed(p) \in BOOLEAN /\ Closed(p)' \in BOOLEAN
  <2>1. \A p \in Requests : Closed(p) \in BOOLEAN
    BY Zenon DEF Closed, Gone
  <2>2. \A p \in Requests : Closed(p)' \in BOOLEAN
    BY Zenon DEF Closed, Gone
  <2> QED
    BY <2>1, <2>2
<1>3. told' = [told EXCEPT ![q] = Told(q)'] /\ (Told(q)' = Told(q) => told' = told)
  BY <1>1 DEF told
<1>4. ASSUME Closed(q)' <=> Closed(q) PROVE closed' = closed
  <2>1. \A p \in Requests : Closed(p)' = Closed(p)
    BY <1>1, <1>2, <1>4
  <2> QED
    BY <2>1 DEF closed
<1>5. ASSUME Closed(q)' PROVE closed' = [closed EXCEPT ![q] = TRUE]
  <2>1. \A p \in Requests : Closed(p)' = IF p = q THEN TRUE ELSE Closed(p)
    BY <1>1, <1>2, <1>5
  <2> QED
    BY <2>1 DEF closed
<1> QED
  BY <1>3, <1>4, <1>5

\* A request is open to the client while a sidecar is in the middle of its run.
LEMMA OpenToClient ==
  ASSUME IInv, EndInv, PromiseInv, NEW d \in Drivers, worker[d].phase \in OpenPhases,
         ~Gone(worker[d].request)
  PROVE  Told(worker[d].request) = "open"
<1> DEFINE q == worker[d].request
           f == frame[q]
<1>1. worker[d].phase # "idle" /\ f.status \notin Terminal \cup {"none"}
  BY EndOpen
<1>2. q \in Requests /\ link[q] \in LinkRow /\ FilesOK(q, f) /\ link[q].status # "none"
  BY <1>1, EndMine, Mine, PromiseMine DEF Accounts
<1>3. f # NoFrame /\ link[q].started
  BY <1>1, <1>2 DEF FilesOK, NoFrame
<1>4. link[q].status \notin Terminal
  <2>1. CASE link[q].cursor = 0
    BY <1>2, <1>3, <2>1 DEF PromiseInv, EarlyEnds
  <2>2. CASE link[q].cursor > 0
    BY <1>1, <1>2, <1>3, <2>2 DEF EndInv, ProjectionIsCurrent
  <2> QED
    BY <1>2, <2>1, <2>2 DEF LinkRow
<1> QED
  BY <1>2, <1>4 DEF Told, Gone

LEMMA RequestKeeps ==
  ASSUME IInv, EndInv, PromiseInv, NEW q \in Requests,
         Accept(q) \/ Cancel(q) \/ Tick(q) \/ DeleteCase(q)
  PROVE  [Promise!Next]_(Promise!promise)
<1>0. /\ link \in [Requests -> LinkRow] /\ clock \in [Requests -> 0 .. 2]
      /\ receipts \in [Requests -> SUBSET Nodes]
      /\ told[q] = Told(q) /\ closed[q] = Closed(q)
  BY DEF IInv, TypeOK, told, closed
<1>1. \A p \in Requests : p # q => link'[p] = link[p] /\ clock'[p] = clock[p]
  BY <1>0 DEF Accept, Cancel, Tick, DeleteCase, host
<1>2. CASE Accept(q)
  <2>1. /\ link[q].status = "none" /\ link'[q].status = "queued"
        /\ link'[q].cancel = link[q].cancel /\ UNCHANGED <<clock, calls, receipts>>
    BY <1>0, <1>2 DEF Accept, LinkRow
  <2>2. Told(q) = "none" /\ Told(q)' = "open"
    BY <2>1 DEF Told, Terminal
  <2>3. Closed(q)' <=> Closed(q)
    BY <2>1 DEF Closed, Gone
  <2>4. Promise!Take(q)
    BY <1>0, <1>1, <2>1, <2>2, <2>3, OnlyRow DEF Promise!Take
  <2> QED
    BY <2>4 DEF Promise!Next
<1>3. ASSUME Told(q) \notin {"none", "deleted"}, Told(q)' = Told(q), Closed(q)',
             UNCHANGED <<calls, receipts>>
      PROVE  [Promise!Next]_(Promise!promise)
  <2>1. CASE Closed(q)
    <3>1. told' = told /\ closed' = closed
      BY <1>1, <1>3, <2>1, OnlyRow
    <3> QED
      BY <1>3, <3>1 DEF Promise!promise
  <2>2. CASE ~Closed(q)
    <3>1. told' = told /\ closed' = [closed EXCEPT ![q] = TRUE]
      BY <1>1, <1>3, OnlyRow
    <3>2. Promise!Close(q)
      BY <1>0, <1>3, <2>2, <3>1 DEF Promise!Close
    <3> QED
      BY <3>2 DEF Promise!Next
  <2> QED
    BY <2>1, <2>2
<1>4. CASE Cancel(q)
  <2>1. /\ link'[q].cancel /\ UNCHANGED <<calls, receipts>>
        /\ link[q].status \notin Terminal \cup {"none", "deleted"}
        /\ link'[q].status = IF link[q].status = "queued" THEN "cancelled" ELSE link[q].status
    BY <1>0, <1>4 DEF Cancel, LinkRow
  <2>2. Told(q) = "open" /\ Closed(q)'
    BY <2>1 DEF Told, Closed
  <2>3. CASE link[q].status # "queued"
    <3>1. Told(q)' = "open"
      BY <2>1, <2>3 DEF Told
    <3> QED
      BY <1>3, <2>1, <2>2, <3>1
  <2>4. CASE link[q].status = "queued"
    <3>1. Told(q)' = "cancelled"
      BY <2>1, <2>4 DEF Told, Terminal
    <3>2. \A n \in Nodes : calls[q][n] = 0
      BY <2>1, <2>4 DEF PromiseInv, EarlyEnds, IInv, Permitted, Gone
    <3>3. told' = [told EXCEPT ![q] = "cancelled"] /\ closed' = [closed EXCEPT ![q] = TRUE]
      BY <1>1, <2>2, <3>1, OnlyRow
    <3>4. Promise!Withdraw(q)
      BY <1>0, <2>1, <2>2, <3>2, <3>3 DEF Promise!Withdraw
    <3> QED
      BY <3>4 DEF Promise!Next
  <2> QED
    BY <2>3, <2>4
<1>5. CASE Tick(q)
  <2>1. /\ clock'[q] = clock[q] + 1 /\ clock[q] \in Nat /\ UNCHANGED <<link, calls, receipts>>
        /\ link[q].status \notin {"none", "deleted"}
    BY <1>0, <1>5 DEF Tick, host, Gone
  <2>2. Closed(q)' /\ Told(q)' = Told(q) /\ Told(q) \notin {"none", "deleted"}
    BY <2>1 DEF Closed, Told, Terminal
  <2> QED
    BY <1>3, <2>1, <2>2
<1>6. CASE DeleteCase(q)
  <2>1. /\ link[q].status \notin {"none", "deleted"} /\ link'[q].status = "deleted"
        /\ receipts' = [receipts EXCEPT ![q] = {}] /\ calls' = calls
    BY <1>0, <1>6 DEF DeleteCase, NoLink, Gone
  <2>2. Told(q) \notin {"none", "deleted"} /\ Told(q)' = "deleted" /\ Closed(q)'
    BY <2>1 DEF Told, Terminal, Closed, Gone
  <2>3. told' = [told EXCEPT ![q] = "deleted"] /\ closed' = [closed EXCEPT ![q] = TRUE]
    BY <1>1, <2>2, OnlyRow
  <2>4. Promise!Forget(q)
    BY <1>0, <2>1, <2>2, <2>3 DEF Promise!Forget
  <2> QED
    BY <2>4 DEF Promise!Next
<1> QED
  BY <1>2, <1>4, <1>5, <1>6

\* A step on the row of a leased request: what the client was told stays, or the
\* end that it is told is justified.
LEMMA RowKeeps ==
  ASSUME IInv, EndInv, PromiseInv, NEW q \in Requests,
         \A p \in Requests : p # q => link'[p] = link[p],
         UNCHANGED <<clock, calls, receipts>>,
         Closed(q)' <=> Closed(q),
         \/ Told(q)' = Told(q)
         \/ /\ Told(q) = "open" /\ Told(q)' \in Terminal
            /\ Told(q)' = "succeeded" => receipts[q] = Nodes
            /\ Told(q)' \in {"cancelled", "exhausted"} => Closed(q)
  PROVE  [Promise!Next]_(Promise!promise)
<1>0. told[q] = Told(q) /\ closed[q] = Closed(q)
  BY DEF told, closed
<1>1. closed' = closed /\ told' = [told EXCEPT ![q] = Told(q)'] /\ (Told(q)' = Told(q) => told' = told)
  BY OnlyRow
<1>2. CASE Told(q)' = Told(q)
  BY <1>1, <1>2 DEF Promise!promise
<1>3. ASSUME NEW end \in Terminal, Told(q)' = end, Told(q) = "open",
             end = "succeeded" => receipts[q] = Nodes,
             end \in {"cancelled", "exhausted"} => Closed(q)
      PROVE  Promise!Next
  <2>1. Promise!Tell(q, end)
    BY <1>0, <1>1, <1>3 DEF Promise!Tell, Promise!Stops
  <2>2. end \in Promise!Ends
    BY DEF Terminal, Promise!Ends, Promise!Stops
  <2> QED
    BY <2>1, <2>2 DEF Promise!Next
<1> QED
  BY <1>2, <1>3

LEMMA BeginKeeps ==
  ASSUME IInv, EndInv, PromiseInv, NEW d \in Drivers, Begin(d)
  PROVE  [Promise!Next]_(Promise!promise)
<1>a. worker[d].phase # "idle" /\ link \in [Requests -> LinkRow]
  BY DEF Begin, IInv, TypeOK
<1>0. PICK q \in Requests : q = worker[d].request
  BY <1>a, Lease
<1>1. /\ UNCHANGED <<clock, calls, receipts>>
      /\ \A p \in Requests : p # q => link'[p] = link[p]
      /\ link'[q].cancel = link[q].cancel
      /\ \/ link'[q].status = link[q].status
         \/ link[q].status = "queued" /\ link'[q].status = "running"
         \/ Expired(q) /\ link'[q].status = "exhausted"
  BY <1>a, <1>0 DEF Begin, LinkRow
<1>2. Expired(q) => Closed(q) /\ link[q].status \in {"queued", "exhausted"}
  BY DEF Expired, Closed
<1>3. Closed(q)' <=> Closed(q)
  <2>1. link'[q].status = "deleted" <=> link[q].status = "deleted"
    BY <1>1, <1>2
  <2> QED
    BY <1>1, <2>1 DEF Closed, Gone
<1>4. \/ Told(q)' = Told(q)
      \/ Told(q) = "open" /\ Told(q)' = "exhausted" /\ Closed(q)
  BY <1>1, <1>2 DEF Told, Terminal
<1> QED
  BY <1>0, <1>1, <1>3, <1>4, RowKeeps DEF Terminal

LEMMA AuthorizeKeeps ==
  ASSUME IInv, EndInv, PromiseInv, NEW d \in Drivers, AuthorizeStart(d)
  PROVE  [Promise!Next]_(Promise!promise)
<1>a. worker[d].phase # "idle" /\ link \in [Requests -> LinkRow]
  BY DEF AuthorizeStart, At, IInv, TypeOK
<1>0. PICK q \in Requests : q = worker[d].request
  BY <1>a, Lease
<1>1. /\ UNCHANGED <<clock, calls, receipts>>
      /\ \A p \in Requests : p # q => link'[p] = link[p]
      /\ link'[q].cancel = link[q].cancel
      /\ link'[q].status = link[q].status
  BY <1>a, <1>0 DEF AuthorizeStart, LinkRow
<1>2. Told(q)' = Told(q) /\ (Closed(q)' <=> Closed(q))
  BY <1>1 DEF Told, Closed, Gone
<1> QED
  BY <1>0, <1>1, <1>2, RowKeeps

\* A call is the first of its node.
LEMMA AttemptKeeps ==
  ASSUME IInv, EndInv, PromiseInv, NEW d \in Drivers, Attempt(d)
  PROVE  [Promise!Next]_(Promise!promise)
<1> DEFINE q == worker[d].request
           n == worker[d].node
<1>0. /\ worker[d].phase = "started" /\ worker[d].phase # "idle" /\ worker[d].phase \in OpenPhases
      /\ ~Gone(q)
  BY DEF Attempt, At, OpenPhases, NodePhases
<1>1. q \in Requests /\ Knows(worker[d], frame[q])
  BY <1>0, Lease, Mine
<1>2. n \in Nodes /\ calls[q][n] = 0
  BY <1>0, <1>1 DEF Knows, NodePhases, CallPhases
<1>3. CASE StopReason(q) # "none"
  <2>1. UNCHANGED <<link, clock, receipts, calls>>
    BY <1>3, SaveIsHidden DEF Attempt
  <2> QED
    BY <2>1 DEF Promise!promise, told, closed, Told, Closed, Gone
<1>4. CASE StopReason(q) = "none"
  <2>1. UNCHANGED <<link, clock, receipts>> /\ calls' = [calls EXCEPT ![q][n] = @ + 1]
    BY <1>4 DEF Attempt, host
  <2>2. calls' = [calls EXCEPT ![q][n] = 1]
    BY <1>1, <1>2, <2>1 DEF IInv, TypeOK
  <2>3. told' = told /\ closed' = closed
    BY <2>1 DEF told, closed, Told, Closed, Gone
  <2>4. told[q] = "open"
    BY <1>0, <1>1, OpenToClient DEF told
  <2>5. Promise!Send(q, n)
    BY <1>2, <2>1, <2>2, <2>3, <2>4 DEF Promise!Send
  <2> QED
    BY <1>1, <1>2, <2>5 DEF Promise!Next
<1> QED
  BY <1>3, <1>4

\* An effect is committed once, and while the request is open.
LEMMA WriteKeeps ==
  ASSUME IInv, EndInv, PromiseInv, NEW d \in Drivers, Write(d)
  PROVE  [Promise!Next]_(Promise!promise)
<1> DEFINE q == worker[d].request
           n == worker[d].node
<1>0. /\ worker[d].phase = "call" /\ worker[d].phase # "idle" /\ worker[d].phase \in OpenPhases
      /\ ~Gone(q) /\ UNCHANGED <<link, clock, calls>>
  BY DEF Write, At, OpenPhases, NodePhases, CallPhases
<1>1. q \in Requests /\ calls[q][n] = 1 /\ n \notin receipts[q]
  BY <1>0, PromiseMine DEF Accounts
<1>2. n \in Nodes
  BY <1>0, EndOpen DEF NodePhases, CallPhases
<1>3. told' = told /\ closed' = closed
  BY <1>0 DEF told, closed, Told, Closed, Gone
<1>4. CASE WriteAllowed(d)
  <2>1. ~Closed(q)
    <3>1. clock[q] = 0 /\ ~link[q].cancel
      BY <1>4 DEF WriteAllowed
    <3> QED
      BY <1>0, <3>1 DEF Closed
  <2>2. told[q] = "open" /\ ~closed[q]
    BY <1>0, <1>1, <2>1, OpenToClient DEF told, closed
  <2>3. receipts' = [receipts EXCEPT ![q] = @ \cup {n}]
    BY <1>4 DEF Write
  <2>4. Promise!Commit(q, n)
    BY <1>0, <1>1, <1>3, <2>2, <2>3 DEF Promise!Commit
  <2> QED
    BY <1>1, <1>2, <2>4 DEF Promise!Next
<1>5. CASE ~WriteAllowed(d)
  <2>1. receipts' = receipts
    BY <1>5 DEF Write
  <2> QED
    BY <1>0, <1>3, <2>1 DEF Promise!promise
<1> QED
  BY <1>4, <1>5

\* The end that is projected is the first that the client is told, and it is true.
LEMMA ProjectKeeps ==
  ASSUME IInv, EndInv, PromiseInv, NEW d \in Drivers, Project(d)
  PROVE  [Promise!Next]_(Promise!promise)
<1>0. worker[d].phase = "project" /\ worker[d].phase # "idle" /\ UNCHANGED <<clock, calls, receipts>>
  BY DEF Project
<1>a. PICK q \in Requests : q = worker[d].request
  BY <1>0, Lease
<1> DEFINE f == frame[q]
<1>1. /\ link \in [Requests -> LinkRow] /\ link[q] \in LinkRow
      /\ f \in FrameState /\ WorksOn(worker[d], f)
      /\ CausedFiles(q, f) /\ FilesOK(q, f) /\ link[q].status # "none"
  BY <1>0, <1>a, EndMine, Mine, PromiseMine DEF Accounts, IInv, TypeOK
<1>2. CASE ~(~Gone(q) /\ Complete(q))
  <2>1. link' = link
    BY <1>a, <1>2 DEF Project
  <2> QED
    BY <1>0, <2>1 DEF Promise!promise, told, closed, Told, Closed, Gone
<1>3. CASE ~Gone(q) /\ Complete(q)
  <2>1. link' = [link EXCEPT ![q] = [link[q] EXCEPT !.cursor = f.published, !.status = f.status]]
    BY <1>a, <1>3 DEF Project
  <2>2. /\ link'[q].status = f.status /\ link'[q].cancel = link[q].cancel
        /\ \A p \in Requests : p # q => link'[p] = link[p]
    BY <1>1, <2>1 DEF LinkRow
  <2>3. f.status \in {"running", "awaiting_approval"} \cup Terminal
    BY <1>0, <1>1 DEF WorksOn, FrameState
  <2>4. Closed(q)' <=> Closed(q)
    <3>1. link'[q].status # "deleted" /\ link[q].status # "deleted"
      BY <1>3, <2>2, <2>3 DEF Terminal, Gone
    <3> QED
      BY <1>0, <2>2, <3>1 DEF Closed, Gone
  <2>5. f.status # "none" /\ f # NoFrame /\ link[q].started
    BY <1>1, <1>3, <2>3 DEF FilesOK, NoFrame, Terminal
  <2>6. CASE link[q].status \in Terminal
    <3>1. link[q].cursor > 0
      BY <1>1, <2>5, <2>6 DEF PromiseInv, EarlyEnds, LinkRow
    <3>2. link[q].status = f.status
      BY <1>1, <2>5, <2>6, <3>1 DEF EndInv, ProjectionIsCurrent
    <3>3. Told(q)' = Told(q)
      BY <2>2, <3>2 DEF Told
    <3> QED
      BY <1>0, <1>1, <2>2, <2>4, <3>3, RowKeeps
  <2>7. CASE link[q].status \notin Terminal
    <3>1. Told(q) = "open"
      BY <1>1, <1>3, <2>7 DEF Told, Gone
    <3>2. Told(q)' = IF f.status \in Terminal THEN f.status ELSE "open"
      BY <2>2, <2>3 DEF Told, Terminal
    <3>3. f.status = "succeeded" => receipts[q] = Nodes
      <4>1. receipts[q] \in SUBSET Nodes
        BY <1>1 DEF IInv, TypeOK
      <4> QED
        BY <1>1, <1>3, <4>1 DEF FilesOK
    <3>4. f.status \in {"cancelled", "exhausted"} => Closed(q)
      BY <1>1 DEF CausedFiles
    <3> HIDE DEF f
    <3> QED
      BY <1>0, <1>1, <2>2, <2>4, <3>1, <3>2, <3>3, <3>4, RowKeeps DEF Terminal
  <2> QED
    BY <2>6, <2>7
<1> QED
  BY <1>2, <1>3

LEMMA MarkUnknownKeeps ==
  ASSUME IInv, EndInv, PromiseInv, NEW d \in Drivers, MarkUnknown(d)
  PROVE  [Promise!Next]_(Promise!promise)
<1>0. /\ worker[d].phase # "idle" /\ link \in [Requests -> LinkRow]
      /\ UNCHANGED <<clock, calls, receipts>>
  BY DEF MarkUnknown, IInv, TypeOK
<1>a. PICK q \in Requests : q = worker[d].request
  BY <1>0, Lease
<1>1. link[q].status # "none"
  BY <1>0, <1>a, PromiseMine DEF Accounts
<1>2. /\ \A p \in Requests : p # q => link'[p] = link[p]
      /\ link'[q].cancel = link[q].cancel
      /\ \/ link'[q].status = link[q].status
         \/ link[q].status \notin Terminal \cup {"none", "deleted"} /\ link'[q].status = "unknown"
  BY <1>0, <1>a, <1>1 DEF MarkUnknown, Unknown, Gone, LinkRow
<1>3. Told(q)' = Told(q)
  BY <1>2 DEF Told, Terminal
<1>4. Closed(q)' <=> Closed(q)
  BY <1>0, <1>2 DEF Closed, Gone
<1> QED
  BY <1>0, <1>1, <1>2, <1>3, <1>4, RowKeeps

LEMMA InitKeeps == Init => Promise!Init
<1> SUFFICES ASSUME Init PROVE Promise!Init
  OBVIOUS
<1>1. \A q \in Requests : Told(q) = "none"
  BY DEF Init, NoLink, Told
<1>2. \A q \in Requests : Closed(q) = FALSE
  BY DEF Init, NoLink, Closed, Gone
<1> QED
  BY <1>1, <1>2 DEF Promise!Init, Init, told, closed

LEMMA StepKeeps ==
  ASSUME IInv, EndInv, PromiseInv, [Next]_vars
  PROVE  [Promise!Next]_(Promise!promise)
<1>1. CASE UNCHANGED <<link, clock, receipts, calls>>
  BY <1>1 DEF Promise!promise, told, closed, Told, Closed, Gone
<1> QED
  BY <1>1, RequestKeeps, BeginKeeps, AuthorizeKeeps, AttemptKeeps, WriteKeeps, ProjectKeeps,
     MarkUnknownKeeps, StepKinds

\* Durable runs implement the promise of EffectsOnce, for any number of requests,
\* drivers, drives and faults: an effect is asked for at most once and only before
\* an end is told, and committed at most once and only before the request is closed;
\* an end that the client is told is true, and no later step takes it back.
THEOREM Refinement == Spec => EffectsKept
<1>1. Init => EndInv /\ PromiseInv /\ Promise!Init
  BY InitEnd, InitPromise, InitKeeps
<1>2. IInv /\ EndInv /\ PromiseInv /\ [Next]_vars => EndInv' /\ PromiseInv'
  BY StepEnd, PromiseStep
<1>3. IInv /\ EndInv /\ PromiseInv /\ [Next]_vars => [Promise!Next]_(Promise!promise)
  BY StepKeeps
<1> QED
  BY <1>1, <1>2, <1>3, Invariance, PTL DEF Spec, EffectsKept, Promise!Spec
=============================================================================
