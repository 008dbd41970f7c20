------------------------- MODULE EvidenceReview_proof -------------------------
(***************************************************************************)
(* Proofs about EvidenceReview, for any number of colleagues, items,       *)
(* contents and wordings.                                                  *)
(***************************************************************************)
EXTENDS EvidenceReview, TLAPS

\* What a step may do to the row of an item.
Moved(i) ==
    \/ evidence'[i] = evidence[i]
    \/ evidence[i] = Unused
    \/ evidence'[i] = Deleted
    \/ /\ Stored(i)
       /\ evidence'[i] \in ItemRow
       /\ evidence'[i].version = evidence[i].version + 1

-----------------------------------------------------------------------------
(* Types.                                                                   *)

LEMMA StoredRow ==
  ASSUME EvidenceTypeOK, NEW i \in Items, Stored(i)
  PROVE  evidence[i] \in ItemRow
  BY DEF EvidenceTypeOK, Stored

LEMMA WithdrawnRow ==
  ASSUME NEW row \in ItemRow
  PROVE  /\ [row EXCEPT !.status = "review", !.by = Nobody, !.version = @ + 1] \in ItemRow
         /\ [row EXCEPT !.status = "review", !.by = Nobody, !.version = @ + 1].version
              = row.version + 1
<1>1. row.version \in Nat /\ row.version + 1 \in Nat
  BY DEF ItemRow
<1>2. PICK k \in Nat : k = row.version + 1
  BY <1>1
<1>3. [row EXCEPT !.status = "review", !.by = Nobody, !.version = k] \in ItemRow
  BY Zenon DEF ItemRow
<1>4. [row EXCEPT !.status = "review", !.by = Nobody, !.version = k].version = k
  BY DEF ItemRow
<1> QED
  BY <1>2, <1>3, <1>4

LEMMA AppliedContent ==
  ASSUME NEW p \in Patches \cup {Unsent}, NEW c \in Contents
  PROVE  Applied(p, c) \in Contents
  BY EvidenceConstants DEF Applied

LEMMA UpdatedRow ==
  ASSUME EvidenceTypeOK, NEW u \in Colleagues, edit[u] # Nothing, NEW row \in ItemRow
  PROVE  /\ Updated(row, u) \in ItemRow
         /\ Updated(row, u).version = row.version + 1
<1>1. edit[u] \in EditRequest
  BY DEF EvidenceTypeOK
<1> QED
  BY <1>1, AppliedContent DEF Updated, Signature, ItemRow, EditRequest

LEMMA InitEvidenceType == EvidenceInit => EvidenceTypeOK
  BY DEF EvidenceInit, EvidenceTypeOK

LEMMA NextEvidenceType == EvidenceTypeOK /\ [EvidenceNext]_evidenceVars => EvidenceTypeOK'
<1> SUFFICES ASSUME EvidenceTypeOK, [EvidenceNext]_evidenceVars PROVE EvidenceTypeOK'
  OBVIOUS
<1> USE EvidenceConstants DEF EvidenceTypeOK
<1>1. ASSUME NEW u \in Colleagues, NEW i \in Items, NEW c \in Contents,
             NEW s \in {"confirmed", "review"}, CreateItem(u, i, c, s)
      PROVE  EvidenceTypeOK'
  <2>1. [content |-> c, status |-> s, by |-> Signature(u, s), version |-> 1] \in ItemRow
    BY DEF ItemRow, Signature
  <2>2. About(c, c) \in Subject
    BY DEF About, Subject
  <2> QED
    BY <1>1, <2>1, <2>2 DEF CreateItem
<1>2. ASSUME NEW u \in Colleagues, NEW i \in Items, DeleteItem(u, i) PROVE EvidenceTypeOK'
  BY <1>2 DEF DeleteItem
<1>3. ASSUME NEW u \in Colleagues, NEW i \in Items, ViewItem(u, i) PROVE EvidenceTypeOK'
  BY <1>3, StoredRow DEF ViewItem
<1>4. ASSUME NEW u \in Colleagues, NEW i \in Items, NEW p \in Patches \cup {Unsent},
             NEW s \in {"confirmed", "review", Unsent}, NEW careful \in BOOLEAN,
             ReadForUpdate(u, i, p, s, careful)
      PROVE  EvidenceTypeOK'
  <2>1. evidence[i] \in ItemRow
    BY <1>4, StoredRow DEF ReadForUpdate
  <2>2. careful => loaded[u].row \in ItemRow
    BY <1>4 DEF ReadForUpdate, ShownIsPresent
  <2> DEFINE shown == IF careful THEN Applied(p, loaded[u].row.content) ELSE Nothing
             about == About(Applied(p, evidence[i].content), shown)
  <2>4. Applied(p, evidence[i].content) \in Contents
    BY <2>1, AppliedContent DEF ItemRow
  <2>5. shown \in Contents \cup {Nothing}
    BY <2>2, AppliedContent DEF ItemRow
  <2>6. about \in Subject
    BY <2>4, <2>5 DEF About, Subject
  <2>7. edit'[u] = [item |-> i, version |-> evidence[i].version, patch |-> p,
                    status |-> NextStatus(evidence[i], p, s), about |-> about]
    BY <1>4 DEF ReadForUpdate
  <2> HIDE DEF about
  <2>3. edit'[u] \in EditRequest
    BY <2>1, <2>6, <2>7 DEF EditRequest, NextStatus, ItemRow
  <2> QED
    BY <1>4, <2>3 DEF ReadForUpdate
<1>5. ASSUME NEW u \in Colleagues, WriteUpdate(u) PROVE EvidenceTypeOK'
  <2>1. edit[u] \in EditRequest /\ edit[u].item \in Items
    BY <1>5 DEF WriteUpdate, EditRequest
  <2>2. Updated(evidence[edit[u].item], u) \in ItemRow
    BY <1>5, <2>1, StoredRow, UpdatedRow DEF WriteUpdate, SameVersion
  <2>3. evidence' \in [Items -> ItemRow \cup {Unused, Deleted}]
    BY <1>5, <2>1, <2>2 DEF WriteUpdate
  <2>4. edit[u].about \in Subject
    BY <2>1 DEF EditRequest
  <2>5. confirmed' \in [Items -> Subject \cup {Nothing}]
    BY <1>5, <2>1, <2>4 DEF WriteUpdate
  <2>6. since' \in [Items -> SUBSET Wordings]
    BY <1>5, <2>1 DEF WriteUpdate
  <2>7. edit' \in [Colleagues -> EditRequest \cup {Nothing}]
    BY <1>5 DEF WriteUpdate
  <2> QED
    BY <1>5, <2>3, <2>5, <2>6, <2>7 DEF WriteUpdate
<1>6. ASSUME NEW u \in Colleagues, RefuseUpdate(u) PROVE EvidenceTypeOK'
  BY <1>6 DEF RefuseUpdate
<1>7. ASSUME NEW u \in Colleagues, NEW w \in Wordings \cup {Unsent}, ReadDocument(u, w)
      PROVE  EvidenceTypeOK'
  BY <1>7 DEF ReadDocument
<1>8. ASSUME NEW u \in Colleagues, WriteDirectory(u) PROVE EvidenceTypeOK'
  BY <1>8 DEF WriteDirectory
<1>9. ASSUME NEW u \in Colleagues, CorrectPage(u) PROVE EvidenceTypeOK'
  <2>1. fix[u].wording \in Wordings
    BY <1>9 DEF CorrectPage
  <2>2. CASE fix[u].wording = page.wording
    BY <1>9, <2>2 DEF CorrectPage
  <2>3. CASE fix[u].wording # page.wording
    <3>1. \A i \in Items : evidence'[i] \in ItemRow \cup {Unused, Deleted}
      <4> TAKE i \in Items
      <4>1. CASE Unsupported(i, fix[u].wording)
        <5>1. evidence'[i] = [evidence[i] EXCEPT !.status = "review", !.by = Nobody,
                                                 !.version = @ + 1]
          BY <1>9, <2>3, <4>1 DEF CorrectPage
        <5>2. evidence[i] \in ItemRow
          BY <4>1, StoredRow DEF Unsupported
        <5> HIDE DEF EvidenceTypeOK
        <5> QED
          BY <5>1, <5>2, WithdrawnRow
      <4>2. CASE ~Unsupported(i, fix[u].wording)
        <5>1. evidence' = [j \in Items |->
                  IF Unsupported(j, fix[u].wording)
                  THEN [evidence[j] EXCEPT !.status = "review", !.by = Nobody,
                                           !.version = @ + 1]
                  ELSE evidence[j]]
          BY <1>9, <2>3 DEF CorrectPage
        <5>2. evidence'[i] = evidence[i]
          BY <4>2, <5>1
        <5> QED
          BY <5>2
      <4> QED
        BY <4>1, <4>2
    <3>2. evidence' \in [Items -> ItemRow \cup {Unused, Deleted}]
      BY <1>9, <2>3, <3>1 DEF CorrectPage
    <3>3. page' \in [wording : Wordings, version : Nat]
      <4>1. page' = [wording |-> fix[u].wording, version |-> page.version + 1]
        BY <1>9, <2>3 DEF CorrectPage
      <4>2. page.version \in Nat
        OBVIOUS
      <4> HIDE DEF EvidenceTypeOK
      <4> QED
        BY <2>1, <4>1, <4>2
    <3>4. confirmed' \in [Items -> Subject \cup {Nothing}]
      BY <1>9, <2>3 DEF CorrectPage
    <3>5. since' \in [Items -> SUBSET Wordings]
      <4>1. \A i \in Items : since'[i] \in {since[i] \cup {fix[u].wording}, {}}
        BY <1>9, <2>3 DEF CorrectPage
      <4>2. \A i \in Items : since'[i] \subseteq Wordings
        BY <2>1, <4>1
      <4>3. DOMAIN since' = Items /\ since' = [i \in Items |-> since'[i]]
        BY <1>9, <2>3 DEF CorrectPage
      <4> QED
        BY <4>2, <4>3
    <3>6. fix' \in [Colleagues -> [wording : Wordings \cup {Unsent}, version : Nat]
                                    \cup {Nothing}]
      BY <1>9 DEF CorrectPage
    <3> QED
      BY <1>9, <3>2, <3>3, <3>4, <3>5, <3>6 DEF CorrectPage
  <2> QED
    BY <2>2, <2>3
<1>10. ASSUME NEW u \in Colleagues, RefuseDocument(u) PROVE EvidenceTypeOK'
  BY <1>10 DEF RefuseDocument
<1>11. CASE UNCHANGED evidenceVars
  BY <1>11 DEF evidenceVars
<1> QED
  BY <1>1, <1>2, <1>3, <1>4, <1>5, <1>6, <1>7, <1>8, <1>9, <1>10, <1>11 DEF EvidenceNext

-----------------------------------------------------------------------------
(* Versions.                                                                *)

LEMMA RowsMove ==
  EvidenceTypeOK /\ [EvidenceNext]_evidenceVars => \A i \in Items : Moved(i)
<1> SUFFICES ASSUME EvidenceTypeOK, [EvidenceNext]_evidenceVars, NEW i \in Items
             PROVE  Moved(i)
  OBVIOUS
<1>1. ASSUME NEW u \in Colleagues, NEW j \in Items, NEW c \in Contents,
             NEW s \in {"confirmed", "review"}, CreateItem(u, j, c, s)
      PROVE  Moved(i)
  BY <1>1 DEF CreateItem, Moved, EvidenceTypeOK
<1>2. ASSUME NEW u \in Colleagues, NEW j \in Items, DeleteItem(u, j) PROVE Moved(i)
  BY <1>2 DEF DeleteItem, Moved, EvidenceTypeOK
<1>3. ASSUME NEW u \in Colleagues, WriteUpdate(u) PROVE Moved(i)
  <2>1. edit[u].item \in Items /\ Stored(edit[u].item)
    BY <1>3 DEF WriteUpdate, SameVersion, EvidenceTypeOK, EditRequest
  <2>2. CASE i = edit[u].item
    <3>1. evidence'[i] = Updated(evidence[i], u)
      BY <1>3, <2>2 DEF WriteUpdate, EvidenceTypeOK
    <3> QED
      BY <1>3, <2>1, <2>2, <3>1, StoredRow, UpdatedRow DEF Moved, WriteUpdate
  <2>3. CASE i # edit[u].item
    BY <1>3, <2>3 DEF WriteUpdate, Moved, EvidenceTypeOK
  <2> QED
    BY <2>2, <2>3
<1>4. ASSUME NEW u \in Colleagues, CorrectPage(u) PROVE Moved(i)
  <2>1. CASE fix[u].wording # page.wording /\ Unsupported(i, fix[u].wording)
    <3>1. evidence'[i] = [evidence[i] EXCEPT !.status = "review", !.by = Nobody,
                                             !.version = @ + 1]
      BY <1>4, <2>1 DEF CorrectPage
    <3> QED
      BY <2>1, <3>1, StoredRow, WithdrawnRow DEF Moved, Unsupported
  <2>2. CASE ~(fix[u].wording # page.wording /\ Unsupported(i, fix[u].wording))
    BY <1>4, <2>2 DEF CorrectPage, Moved
  <2> QED
    BY <2>1, <2>2
<1>5. CASE UNCHANGED evidence
  BY <1>5 DEF Moved
<1> QED
  BY <1>1, <1>2, <1>3, <1>4, <1>5
  DEF EvidenceNext, evidenceVars, ViewItem, ReadForUpdate, RefuseUpdate, ReadDocument,
      WriteDirectory, RefuseDocument

\* Whoever holds a version holds a present or an earlier one, and while it is the
\* present one the row has not changed.
LEMMA VersionsHold ==
  ASSUME EvidenceTypeOK, NEW i \in Items, NEW v \in Nat, Moved(i), Ahead(i, v)
  PROVE  /\ Ahead(i, v)'
         /\ SameVersion(i, v)' => evidence'[i] = evidence[i]
<1> USE EvidenceConstants
<1>1. CASE evidence'[i] = evidence[i]
  BY <1>1 DEF Ahead, Stored
<1>2. CASE evidence'[i] = Deleted
  BY <1>2 DEF Ahead, SameVersion, Stored
<1>3. CASE /\ Stored(i)
           /\ evidence'[i] \in ItemRow
           /\ evidence'[i].version = evidence[i].version + 1
  <2>1. evidence[i].version \in Nat
    BY <1>3, StoredRow DEF ItemRow
  <2>2. Stored(i)'
    BY <1>3 DEF Stored
  <2>3. v <= evidence[i].version
    BY <1>3 DEF Ahead, Stored
  <2> QED
    BY <1>3, <2>1, <2>2, <2>3 DEF Ahead, SameVersion
<1>4. evidence[i] # Unused
  BY DEF Ahead, Stored
<1> QED
  BY <1>1, <1>2, <1>3, <1>4 DEF Moved

-----------------------------------------------------------------------------
LEMMA LoadedTypes ==
  ASSUME EvidenceTypeOK, NEW u \in Colleagues, loaded[u] # Nothing
  PROVE  loaded[u].item \in Items /\ loaded[u].row \in ItemRow
         /\ loaded[u].row.version \in Nat
  BY DEF EvidenceTypeOK, ItemRow

LEMMA EditTypes ==
  ASSUME EvidenceTypeOK, NEW u \in Colleagues, edit[u] # Nothing
  PROVE  edit[u].item \in Items /\ edit[u].version \in Nat
  BY DEF EvidenceTypeOK, EditRequest

LEMMA LoadedFrame ==
  ASSUME EvidenceTypeOK, [EvidenceNext]_evidenceVars, NEW u \in Colleagues
  PROVE  loaded'[u] = loaded[u] \/ \E i \in Items : ViewItem(u, i)
<1>1. CASE \E v \in Colleagues, i \in Items : ViewItem(v, i)
  <2>1. PICK v \in Colleagues, i \in Items : ViewItem(v, i)
    BY <1>1
  <2>2. v # u => loaded'[u] = loaded[u]
    BY <2>1 DEF ViewItem, EvidenceTypeOK
  <2> QED
    BY <2>1, <2>2
<1>2. CASE ~\E v \in Colleagues, i \in Items : ViewItem(v, i)
  <2>1. CASE \E v \in Colleagues :
               \/ \E i \in Items : DeleteItem(v, i)
               \/ \E i \in Items, c \in Contents, s \in {"confirmed", "review"} :
                      CreateItem(v, i, c, s)
               \/ WriteDirectory(v) \/ CorrectPage(v) \/ RefuseDocument(v)
               \/ WriteUpdate(v) \/ RefuseUpdate(v)
    BY <2>1 DEF CreateItem, DeleteItem, WriteUpdate, RefuseUpdate, WriteDirectory,
                CorrectPage, RefuseDocument
  <2>2. CASE \E v \in Colleagues, i \in Items, p \in Patches \cup {Unsent},
                s \in {"confirmed", "review", Unsent}, careful \in BOOLEAN :
                  ReadForUpdate(v, i, p, s, careful)
    BY <2>2 DEF ReadForUpdate
  <2>3. CASE \E v \in Colleagues, w \in Wordings \cup {Unsent} : ReadDocument(v, w)
    BY <2>3 DEF ReadDocument
  <2>4. CASE UNCHANGED evidenceVars
    BY <2>4 DEF evidenceVars
  <2> QED
    BY <1>2, <2>1, <2>2, <2>3, <2>4 DEF EvidenceNext
<1> QED
  BY <1>1, <1>2

LEMMA NextLoaded ==
  EvidenceTypeOK /\ LoadedSound /\ [EvidenceNext]_evidenceVars => LoadedSound'
<1> SUFFICES ASSUME EvidenceTypeOK, LoadedSound, [EvidenceNext]_evidenceVars,
                    NEW u \in Colleagues, loaded'[u] # Nothing
             PROVE  LoadedIsSound(u)'
  BY DEF LoadedSound
<1>1. CASE loaded'[u] = loaded[u]
  <2>1. LoadedIsSound(u)
    BY <1>1 DEF LoadedSound
  <2>2. PICK i \in Items, v \in Nat : i = loaded[u].item /\ v = loaded[u].row.version
    BY <1>1, LoadedTypes
  <2>3. Ahead(i, v) /\ Moved(i)
    BY <2>1, <2>2, RowsMove DEF LoadedIsSound
  <2>4. Ahead(i, v)' /\ (SameVersion(i, v)' => evidence'[i] = evidence[i])
    BY <2>3, VersionsHold
  <2>5. SameVersion(i, v)' => loaded[u].row.content = evidence'[i].content
    BY <2>1, <2>2, <2>4 DEF LoadedIsSound, SameVersion, Stored
  <2> QED
    BY <1>1, <2>2, <2>4, <2>5 DEF LoadedIsSound
<1>2. ASSUME NEW i \in Items, ViewItem(u, i) PROVE LoadedIsSound(u)'
  <2>1. loaded'[u] = [item |-> i, row |-> evidence[i]] /\ evidence' = evidence
    BY <1>2 DEF ViewItem, EvidenceTypeOK
  <2>2. Stored(i) /\ evidence[i].version \in Nat
    BY <1>2, StoredRow DEF ViewItem, ItemRow
  <2> QED
    BY <2>1, <2>2 DEF LoadedIsSound, Ahead, SameVersion, Stored
<1> QED
  BY <1>1, <1>2, LoadedFrame

LEMMA EditFrame ==
  ASSUME EvidenceTypeOK, [EvidenceNext]_evidenceVars, NEW u \in Colleagues,
         edit'[u] # Nothing
  PROVE  \/ edit'[u] = edit[u]
         \/ \E i \in Items, p \in Patches \cup {Unsent},
               s \in {"confirmed", "review", Unsent}, careful \in BOOLEAN :
                 ReadForUpdate(u, i, p, s, careful)
<1>1. \/ UNCHANGED edit
      \/ \E v \in Colleagues, i \in Items, p \in Patches \cup {Unsent},
            s \in {"confirmed", "review", Unsent}, careful \in BOOLEAN :
              ReadForUpdate(v, i, p, s, careful)
      \/ \E v \in Colleagues : edit' = [edit EXCEPT ![v] = Nothing]
  BY DEF EvidenceNext, evidenceVars, CreateItem, DeleteItem, ViewItem, WriteUpdate,
         RefuseUpdate, ReadDocument, WriteDirectory, CorrectPage, RefuseDocument
<1>2. ASSUME NEW v \in Colleagues, NEW i \in Items, NEW p \in Patches \cup {Unsent},
             NEW s \in {"confirmed", "review", Unsent}, NEW careful \in BOOLEAN,
             ReadForUpdate(v, i, p, s, careful), v # u
      PROVE  edit'[u] = edit[u]
  BY <1>2 DEF ReadForUpdate, EvidenceTypeOK
<1>3. ASSUME NEW v \in Colleagues, edit' = [edit EXCEPT ![v] = Nothing]
      PROVE  edit'[u] = edit[u]
  BY <1>3 DEF EvidenceTypeOK
<1>4. CASE \E v \in Colleagues, i \in Items, p \in Patches \cup {Unsent},
            s \in {"confirmed", "review", Unsent}, careful \in BOOLEAN :
              ReadForUpdate(v, i, p, s, careful)
  <2>1. PICK v \in Colleagues, i \in Items, p \in Patches \cup {Unsent},
             s \in {"confirmed", "review", Unsent}, careful \in BOOLEAN :
               ReadForUpdate(v, i, p, s, careful)
    BY <1>4
  <2>2. CASE v = u
    BY <2>1, <2>2
  <2>3. CASE v # u
    BY <1>2, <2>1, <2>3
  <2> QED
    BY <2>2, <2>3
<1> QED
  BY <1>1, <1>3, <1>4

LEMMA NextEdit ==
  EvidenceTypeOK /\ LoadedSound /\ EditSound /\ [EvidenceNext]_evidenceVars => EditSound'
<1> SUFFICES ASSUME EvidenceTypeOK, LoadedSound, EditSound, [EvidenceNext]_evidenceVars,
                    NEW u \in Colleagues, edit'[u] # Nothing
             PROVE  EditIsSound(u)'
  BY DEF EditSound
<1>1. CASE edit'[u] = edit[u]
  <2>1. EditIsSound(u)
    BY <1>1 DEF EditSound
  <2>2. PICK i \in Items, v \in Nat : i = edit[u].item /\ v = edit[u].version
    BY <1>1, EditTypes
  <2>3. Ahead(i, v) /\ Moved(i)
    BY <2>1, <2>2, RowsMove DEF EditIsSound
  <2>4. Ahead(i, v)' /\ (SameVersion(i, v)' => evidence'[i] = evidence[i])
    BY <2>3, VersionsHold
  <2>5. SameVersion(i, v)' => SameVersion(i, v)
    BY <2>4 DEF SameVersion, Stored
  <2>6. edit'[u].item = i /\ edit'[u].version = v /\ edit'[u] = edit[u]
    BY <1>1, <2>2
  <2>7. edit[u].status = "confirmed" => u \in Approvers
    BY <2>1 DEF EditIsSound
  <2>8. SameVersion(i, v)' =>
           /\ edit[u].about.read = Leaves(edit[u])
           /\ edit[u].about.shown \in {Leaves(edit[u]), Nothing}
           /\ (edit[u].status = Unsent /\ evidence[i].status = "confirmed") =>
                 Leaves(edit[u]) = evidence[i].content
    BY <2>1, <2>2, <2>5 DEF EditIsSound
  <2>9. SameVersion(i, v)' => Leaves(edit[u])' = Leaves(edit[u])
    BY <2>2, <2>4, <2>6 DEF Leaves
  <2> QED
    BY <2>4, <2>6, <2>7, <2>8, <2>9 DEF EditIsSound
<1>2. ASSUME NEW i \in Items, NEW p \in Patches \cup {Unsent},
             NEW s \in {"confirmed", "review", Unsent}, NEW careful \in BOOLEAN,
             ReadForUpdate(u, i, p, s, careful)
      PROVE  EditIsSound(u)'
  <2> DEFINE row == evidence[i]
             e == [item |-> i, version |-> row.version, patch |-> p,
                   status |-> NextStatus(row, p, s),
                   about |-> About(Applied(p, row.content),
                                   IF careful THEN Applied(p, loaded[u].row.content)
                                   ELSE Nothing)]
  <2>1. edit'[u] = e /\ evidence' = evidence
    BY <1>2 DEF ReadForUpdate, EvidenceTypeOK
  <2>2. Stored(i) /\ row \in ItemRow /\ row.version \in Nat
    BY <1>2, StoredRow DEF ReadForUpdate, ItemRow
  <2>3. Ahead(i, row.version)
    BY <2>2 DEF Ahead
  <2>4. e.status = "confirmed" => s = "confirmed" /\ u \in Approvers
    BY <1>2, EvidenceConstants DEF ReadForUpdate, NextStatus, Permitted
  <2>5. careful => loaded[u].row.content = row.content
    <3>1. careful => loaded[u] # Nothing /\ loaded[u].item = i
                       /\ SameVersion(loaded[u].item, loaded[u].row.version)
      BY <1>2, <2>2 DEF ReadForUpdate, ShownIsPresent, SameVersion
    <3> QED
      BY <3>1 DEF LoadedSound, LoadedIsSound
  <2>6. e.about.read = Leaves(e) /\ e.about.shown \in {Leaves(e), Nothing}
    BY <2>5 DEF Leaves, About
  <2>7. (e.status = Unsent /\ row.status = "confirmed") => Leaves(e) = row.content
    BY EvidenceConstants DEF NextStatus, Changed, Leaves
  <2>8. e.item = i /\ e.version = row.version /\ row = evidence[i]
    OBVIOUS
  <2>9. PICK f : f = e
    OBVIOUS
  <2>10. /\ f.item = i /\ f.version = row.version /\ edit'[u] = f
         /\ f.status = "confirmed" => u \in Approvers
         /\ f.about.read = Leaves(f) /\ f.about.shown \in {Leaves(f), Nothing}
         /\ (f.status = Unsent /\ row.status = "confirmed") => Leaves(f) = row.content
    BY <2>1, <2>4, <2>6, <2>7, <2>8, <2>9
  <2> HIDE DEF e
  <2>11. Ahead(f.item, f.version)'
    BY <2>1, <2>3, <2>10 DEF Ahead, Stored
  <2>12. Leaves(f)' = Leaves(f) /\ evidence'[i] = evidence[i]
    BY <2>1 DEF Leaves
  <2> QED
    BY <2>10, <2>11, <2>12 DEF EditIsSound
<1> QED
  BY <1>1, <1>2, EditFrame

-----------------------------------------------------------------------------
(* What an approval covers.                                                 *)

Informed(i) ==
    IF evidence[i].status = "confirmed"
    THEN /\ evidence[i].by \in Approvers
         /\ confirmed[i] # Nothing
         /\ evidence[i].content = confirmed[i].read
         /\ confirmed[i].shown \in {evidence[i].content, Nothing}
    ELSE evidence[i].by = Nobody

Stands(i) ==
    (evidence[i].status = "confirmed" /\ evidence[i].content \in CitesPage) =>
        \A w \in since[i] : <<evidence[i].content, w>> \in Quoted

\* The row of an item after an update, with what it rests on.
LEMMA UpdateIsSound ==
  ASSUME EvidenceTypeOK, EditSound, NEW u \in Colleagues, WriteUpdate(u),
         NEW i \in Items, i = edit[u].item, Informed(i), Stands(i)
  PROVE  Informed(i)' /\ Stands(i)'
<1> DEFINE e == edit[u]  row == evidence[i]
<1>1. e \in EditRequest /\ Stored(i) /\ SameVersion(i, e.version)
  BY DEF WriteUpdate, EvidenceTypeOK, SameVersion
<1>2. row \in ItemRow
  BY <1>1, StoredRow
<1>3. EditIsSound(u)
  BY DEF WriteUpdate, EditSound
<1>4. /\ e.status = "confirmed" => u \in Approvers
      /\ e.about.read = Leaves(e) /\ e.about.shown \in {Leaves(e), Nothing}
      /\ (e.status = Unsent /\ row.status = "confirmed") => Leaves(e) = row.content
  BY <1>1, <1>3 DEF EditIsSound
<1>5. evidence'[i] = Updated(row, u)
  BY DEF WriteUpdate, EvidenceTypeOK
<1>6. /\ evidence'[i].content = Leaves(e)
      /\ evidence'[i].status = IF e.status = Unsent THEN row.status ELSE e.status
      /\ evidence'[i].by = IF e.status = Unsent THEN row.by ELSE Signature(u, e.status)
  BY <1>5 DEF Updated, Leaves
<1>7. /\ confirmed'[i] = IF e.status = Unsent THEN confirmed[i]
                         ELSE IF e.status = "confirmed" THEN e.about ELSE Nothing
      /\ since'[i] = IF e.status = Unsent THEN since[i] ELSE {}
  BY DEF WriteUpdate, EvidenceTypeOK
<1>8. /\ e.status \in {"confirmed", "review", Unsent} /\ Unsent \notin {"confirmed", "review"}
      /\ e.about # Nothing
  BY <1>1, EvidenceConstants DEF EditRequest
<1> HIDE DEF e, row
<1>9. CASE e.status = Unsent
  BY <1>4, <1>6, <1>7, <1>9 DEF Informed, Stands, row
<1>10. CASE e.status = "confirmed"
  BY <1>4, <1>6, <1>7, <1>8, <1>10 DEF Informed, Stands, Signature
<1>11. CASE e.status = "review"
  BY <1>6, <1>7, <1>8, <1>11 DEF Informed, Stands, Signature
<1> QED
  BY <1>8, <1>9, <1>10, <1>11

\* ... and after a correction of the page.
LEMMA CorrectionIsSound ==
  ASSUME EvidenceTypeOK, NEW u \in Colleagues, CorrectPage(u),
         NEW i \in Items, Stored(i), Informed(i), Stands(i)
  PROVE  Informed(i)' /\ Stands(i)'
<1> DEFINE w == fix[u].wording
<1>1. evidence[i] \in ItemRow
  BY StoredRow
<1>2. CASE w = page.wording
  BY <1>2 DEF CorrectPage, Informed, Stands
<1>3. CASE w # page.wording /\ Unsupported(i, w)
  <2>1. evidence'[i] = [evidence[i] EXCEPT !.status = "review", !.by = Nobody,
                                           !.version = @ + 1]
    BY <1>3 DEF CorrectPage
  <2>2. evidence'[i].status = "review" /\ evidence'[i].by = Nobody
    BY <1>1, <2>1 DEF ItemRow
  <2> QED
    BY <2>2 DEF Informed, Stands
<1>4. CASE w # page.wording /\ ~Unsupported(i, w)
  <2>1. evidence'[i] = evidence[i] /\ confirmed'[i] = confirmed[i]
    BY <1>4 DEF CorrectPage
  <2>2. evidence[i].status = "confirmed" => since'[i] = since[i] \cup {w}
    BY <1>4 DEF CorrectPage
  <2>3. evidence[i].status = "confirmed" /\ evidence[i].content \in CitesPage =>
           <<evidence[i].content, w>> \in Quoted
    BY <1>4 DEF Unsupported
  <2> QED
    BY <2>1, <2>2, <2>3 DEF Informed, Stands
<1> QED
  BY <1>2, <1>3, <1>4

LEMMA NextApproval ==
  ASSUME EvidenceTypeOK, EditSound, ApprovalBindsContent, ConfirmedQuoteStands,
         [EvidenceNext]_evidenceVars
  PROVE  ApprovalBindsContent' /\ ConfirmedQuoteStands'
<1> SUFFICES ASSUME NEW i \in Items, Stored(i)' PROVE Informed(i)' /\ Stands(i)'
  BY DEF ApprovalBindsContent, ConfirmedQuoteStands, Informed, Stands
<1>1. Stored(i) => Informed(i) /\ Stands(i)
  BY DEF ApprovalBindsContent, ConfirmedQuoteStands, Informed, Stands
<1>2. ASSUME NEW u \in Colleagues, NEW j \in Items, NEW c \in Contents,
             NEW s \in {"confirmed", "review"}, CreateItem(u, j, c, s)
      PROVE  Informed(i)' /\ Stands(i)'
  <2>1. CASE i = j
    <3>1. /\ evidence'[i] = [content |-> c, status |-> s, by |-> Signature(u, s),
                             version |-> 1]
          /\ confirmed'[i] = IF s = "confirmed" THEN About(c, c) ELSE Nothing
          /\ since'[i] = {}
          /\ s = "confirmed" => u \in Approvers
      BY <1>2, <2>1 DEF CreateItem, EvidenceTypeOK
    <3>2. About(c, c) # Nothing /\ About(c, c).read = c /\ About(c, c).shown = c
      BY EvidenceConstants DEF About, Subject
    <3> QED
      BY <3>1, <3>2 DEF Informed, Stands, Signature
  <2>2. CASE i # j
    BY <1>1, <1>2, <2>2 DEF CreateItem, EvidenceTypeOK, Informed, Stands, Stored
  <2> QED
    BY <2>1, <2>2
<1>3. ASSUME NEW u \in Colleagues, NEW j \in Items, DeleteItem(u, j)
      PROVE  Informed(i)' /\ Stands(i)'
  BY <1>1, <1>3 DEF DeleteItem, EvidenceTypeOK, Informed, Stands, Stored
<1>4. ASSUME NEW u \in Colleagues, WriteUpdate(u) PROVE Informed(i)' /\ Stands(i)'
  <2>1. CASE i = edit[u].item
    BY <1>1, <1>4, <2>1, UpdateIsSound DEF WriteUpdate, SameVersion
  <2>2. CASE i # edit[u].item
    BY <1>1, <1>4, <2>2 DEF WriteUpdate, EvidenceTypeOK, Informed, Stands, Stored
  <2> QED
    BY <2>1, <2>2
<1>5. ASSUME NEW u \in Colleagues, CorrectPage(u) PROVE Informed(i)' /\ Stands(i)'
  <2>1. Stored(i)
    BY <1>5 DEF CorrectPage, Stored, Unsupported
  <2> QED
    BY <1>1, <1>5, <2>1, CorrectionIsSound
<1>6. CASE UNCHANGED <<evidence, confirmed, since>>
  BY <1>1, <1>6 DEF Informed, Stands, Stored
<1> QED
  BY <1>2, <1>3, <1>4, <1>5, <1>6
  DEF EvidenceNext, evidenceVars, ViewItem, ReadForUpdate, RefuseUpdate, ReadDocument,
      WriteDirectory, RefuseDocument

-----------------------------------------------------------------------------
LEMMA InitEvidence == EvidenceInit => EvidenceInv
<1> SUFFICES ASSUME EvidenceInit PROVE EvidenceInv
  OBVIOUS
<1>1. EvidenceTypeOK
  BY InitEvidenceType
<1>2. \A i \in Items : ~Stored(i)
  BY DEF EvidenceInit, Stored
<1> QED
  BY <1>1, <1>2 DEF EvidenceInit, EvidenceInv, LoadedSound, EditSound,
                    ApprovalBindsContent, ConfirmedQuoteStands

LEMMA NextEvidence == EvidenceInv /\ [EvidenceNext]_evidenceVars => EvidenceInv'
  BY NextEvidenceType, NextLoaded, NextEdit, NextApproval DEF EvidenceInv

\* The invariant of the evidence workflow, for any number of colleagues and items.
THEOREM EvidenceInvariance == EvidenceSpec => []EvidenceInv
  BY InitEvidence, NextEvidence, PTL DEF EvidenceSpec

\* Every variable keeps its type.
THEOREM EvidenceTypeCorrect == EvidenceSpec => []EvidenceTypeOK
  BY EvidenceInvariance, PTL DEF EvidenceInv

\* An item is confirmed in the name of an approver and with exactly the content
\* its confirmation was about: what the server read for it, and, if the client
\* sent its version, what the approver's list showed.
THEOREM BoundApproval == EvidenceSpec => []ApprovalBindsContent
  BY EvidenceInvariance, PTL DEF EvidenceInv

\* No confirmed item outlives a wording of its page that lost its quote.
THEOREM StandingQuote == EvidenceSpec => []ConfirmedQuoteStands
  BY EvidenceInvariance, PTL DEF EvidenceInv
===============================================================================
