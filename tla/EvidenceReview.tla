---------------------------- MODULE EvidenceReview ----------------------------
(***************************************************************************)
(* Evidence items and the page they quote (app/routes/evidence.py and the  *)
(* corrections of app/routes/documents.py).  An approval binds the content *)
(* that was confirmed.  Colleagues read an item, then edit or confirm it,  *)
(* with or without the version they saw; others correct the wording of the *)
(* source page or its catalogue entry.  Every request reads first and      *)
(* writes in a later transaction, and any other write may come between.    *)
(*                                                                         *)
(* What an item says (title, fact, credibility, quote and source pages) is *)
(* one value; a request that sends some of these fields is a patch, a      *)
(* function on such values.  Two relations say whether an item cites the   *)
(* page and whether its quote occurs in a wording of the page.             *)
(***************************************************************************)
EXTENDS Naturals

CONSTANTS
    Colleagues, Editors, Approvers,  \* people, and who holds edit, approve
    Items, Contents,
    Patches,                         \* what sending some of the fields does
    CitesPage,                       \* the contents whose source is the page
    Wordings,
    Quoted,                          \* <<c, w>>: c quotes something and w has it
    Nobody, Unsent, Nothing, Unused, Deleted,
    MaxWrites                        \* bound on the version of a row

ItemRow == [content : Contents, status : {"confirmed", "review"},
            by : Colleagues \cup {Nobody}, version : Nat]

\* What a confirmation is about: the content its request decided on, and the
\* one its sender's list showed if the sender vouched for that by its version.
Subject == [read : Contents, shown : Contents \cup {Nothing}]

ASSUME EvidenceConstants ==
    /\ Editors \subseteq Colleagues /\ Approvers \subseteq Colleagues
    /\ CitesPage \subseteq Contents /\ Quoted \subseteq Contents \X Wordings
    /\ Patches \subseteq [Contents -> Contents] /\ Unsent \notin Patches
    /\ Nothing \notin Subject
    /\ Nobody \notin Colleagues
    /\ Unsent \notin {"confirmed", "review"}
    /\ Unused \notin ItemRow \cup {Deleted} /\ Deleted \notin ItemRow
    /\ MaxWrites \in Nat

VARIABLES
    evidence,   \* the row of each item, Unused or Deleted
    page,       \* the page's wording and the version of its document
    loaded,     \* the row each colleague's list shows for the item in hand
    edit,       \* the evidence request each colleague has open, as read
    fix,        \* the document request each colleague has open, as read
    confirmed,  \* history: what the confirmation of an item was about
    since       \* history: wordings written since an item was confirmed

evidenceVars == <<evidence, page, loaded, edit, fix, confirmed, since>>

Stored(i) == evidence[i] \notin {Unused, Deleted}

------------------------------------------------------------------------------
(* Mistakes the code could contain; PROJECT.json pairs each with the        *)
(* definition it replaces and the property that must notice it.             *)

AnyVersion(i, version) == Stored(i)
KeepsUnquoted(i, w) ==
    /\ Stored(i) /\ evidence[i].status = "confirmed" /\ evidence[i].content \in CitesPage
    /\ <<evidence[i].content, w>> \notin Quoted
    /\ \E v \in Wordings : <<evidence[i].content, v>> \in Quoted

------------------------------------------------------------------------------

EvidenceInit ==
    /\ evidence = [i \in Items |-> Unused]
    /\ \E w \in Wordings : page = [wording |-> w, version |-> 1]
    /\ loaded = [u \in Colleagues |-> Nothing]
    /\ edit = [u \in Colleagues |-> Nothing]
    /\ fix = [u \in Colleagues |-> Nothing]
    /\ confirmed = [i \in Items |-> Nothing]
    /\ since = [i \in Items |-> {}]

Signature(u, status) == IF status = "confirmed" THEN u ELSE Nobody

About(read, shown) == [read |-> read, shown |-> shown]

\* POST: an approver may create an item that is confirmed at once.
CreateItem(u, i, c, status) ==
    /\ u \in Editors
    /\ evidence[i] = Unused
    /\ status = "confirmed" => u \in Approvers
    /\ evidence' = [evidence EXCEPT ![i] =
            [content |-> c, status |-> status, by |-> Signature(u, status),
             version |-> 1]]
    /\ confirmed' = [confirmed EXCEPT ![i] = IF status = "confirmed" THEN About(c, c) ELSE Nothing]
    /\ since' = [since EXCEPT ![i] = {}]
    /\ UNCHANGED <<page, loaded, edit, fix>>

DeleteItem(u, i) ==
    /\ u \in Editors
    /\ Stored(i)
    /\ evidence' = [evidence EXCEPT ![i] = Deleted]
    /\ confirmed' = [confirmed EXCEPT ![i] = Nothing]
    /\ since' = [since EXCEPT ![i] = {}]
    /\ UNCHANGED <<page, loaded, edit, fix>>

\* GET: the colleague picks an item of the list and keeps what it shows.
ViewItem(u, i) ==
    /\ edit[u] = Nothing
    /\ Stored(i)
    /\ loaded' = [loaded EXCEPT ![u] = [item |-> i, row |-> evidence[i]]]
    /\ UNCHANGED <<evidence, page, edit, fix, confirmed, since>>

\* PATCH up to the UPDATE: the row is read, permissions are tested against it,
\* and what will be written is decided.  p is Unsent when no content field is
\* in the request, s when the status is not.  A careful client sends the
\* version its list showed; a legacy client sends none and confirms whatever
\* the server reads.
Applied(p, c) == IF p = Unsent THEN c ELSE p[c]

Changed(row, p) == Applied(p, row.content) # row.content

NextStatus(row, p, s) ==
    IF s = Unsent /\ row.status = "confirmed" /\ Changed(row, p) THEN "review" ELSE s

Permitted(u, row, p, s) ==
    /\ Changed(row, p) => u \in Editors
    /\ s = "confirmed" => u \in Approvers

ShownIsPresent(u, i) ==
    /\ loaded[u] # Nothing
    /\ loaded[u].item = i /\ loaded[u].row.version = evidence[i].version

ReadForUpdate(u, i, p, s, careful) ==
    LET row == evidence[i]
    IN  /\ edit[u] = Nothing
        /\ Stored(i)
        /\ row.version < MaxWrites
        /\ p # Unsent \/ s # Unsent
        /\ careful => ShownIsPresent(u, i)
        /\ Permitted(u, row, p, s)
        /\ edit' = [edit EXCEPT ![u] =
                [item |-> i, version |-> row.version, patch |-> p,
                 status |-> NextStatus(row, p, s),
                 about |-> About(Applied(p, row.content),
                                 IF careful THEN Applied(p, loaded[u].row.content)
                                 ELSE Nothing)]]
        /\ UNCHANGED <<evidence, page, loaded, fix, confirmed, since>>

\* The conditional UPDATE: only the fields sent are written.
Updated(row, u) ==
    LET e == edit[u]
    IN  [content |-> Applied(e.patch, row.content),
         status  |-> IF e.status = Unsent THEN row.status ELSE e.status,
         by      |-> IF e.status = Unsent THEN row.by ELSE Signature(u, e.status),
         version |-> row.version + 1]

SameVersion(i, version) == Stored(i) /\ evidence[i].version = version

WriteUpdate(u) ==
    LET e == edit[u]
    IN  /\ e # Nothing
        /\ SameVersion(e.item, e.version)
        /\ evidence' = [evidence EXCEPT ![e.item] = Updated(@, u)]
        /\ confirmed' = IF e.status = Unsent THEN confirmed
                        ELSE [confirmed EXCEPT ![e.item] =
                                IF e.status = "confirmed" THEN e.about ELSE Nothing]
        /\ since' = IF e.status = Unsent THEN since ELSE [since EXCEPT ![e.item] = {}]
        /\ edit' = [edit EXCEPT ![u] = Nothing]
        /\ UNCHANGED <<page, loaded, fix>>

RefuseUpdate(u) ==
    /\ edit[u] # Nothing
    /\ ~SameVersion(edit[u].item, edit[u].version)
    /\ edit' = [edit EXCEPT ![u] = Nothing]
    /\ UNCHANGED <<evidence, page, loaded, fix, confirmed, since>>

\* The document is read before its transaction; w is Unsent for a change of
\* the catalogue entry and the new wording for a correction of the page.
ReadDocument(u, w) ==
    /\ fix[u] = Nothing
    /\ u \in Editors
    /\ page.version < MaxWrites
    /\ fix' = [fix EXCEPT ![u] = [wording |-> w, version |-> page.version]]
    /\ UNCHANGED <<evidence, page, loaded, edit, confirmed, since>>

\* The catalogue entry: any change makes a new version of the document.
WriteDirectory(u) ==
    /\ fix[u] # Nothing
    /\ fix[u].wording = Unsent
    /\ fix[u].version = page.version
    /\ page' = [page EXCEPT !.version = @ + 1]
    /\ fix' = [fix EXCEPT ![u] = Nothing]
    /\ UNCHANGED <<evidence, loaded, edit, confirmed, since>>

\* Under the write lock the version is tested again; a new wording sends every
\* confirmed item of the page whose quote it no longer holds back to review.
Unsupported(i, w) ==
    /\ Stored(i)
    /\ evidence[i].status = "confirmed"
    /\ evidence[i].content \in CitesPage
    /\ <<evidence[i].content, w>> \notin Quoted

CorrectPage(u) ==
    LET w == fix[u].wording
    IN  /\ fix[u] # Nothing
        /\ w # Unsent
        /\ fix[u].version = page.version
        /\ IF w = page.wording
           THEN UNCHANGED <<page, evidence, confirmed, since>>
           ELSE /\ page' = [wording |-> w, version |-> page.version + 1]
                /\ evidence' = [i \in Items |->
                        IF Unsupported(i, w)
                        THEN [evidence[i] EXCEPT !.status = "review", !.by = Nobody,
                                                 !.version = @ + 1]
                        ELSE evidence[i]]
                /\ confirmed' = [i \in Items |->
                        IF Unsupported(i, w) THEN Nothing ELSE confirmed[i]]
                /\ since' = [i \in Items |->
                        IF Stored(i) /\ evidence[i].status = "confirmed" /\ ~Unsupported(i, w)
                        THEN since[i] \cup {w} ELSE {}]
        /\ fix' = [fix EXCEPT ![u] = Nothing]
        /\ UNCHANGED <<loaded, edit>>

RefuseDocument(u) ==
    /\ fix[u] # Nothing
    /\ fix[u].version # page.version
    /\ fix' = [fix EXCEPT ![u] = Nothing]
    /\ UNCHANGED <<evidence, page, loaded, edit, confirmed, since>>

EvidenceNext ==
    \E u \in Colleagues :
        \/ \E i \in Items : DeleteItem(u, i) \/ ViewItem(u, i)
        \/ \E i \in Items, c \in Contents, s \in {"confirmed", "review"} :
               CreateItem(u, i, c, s)
        \/ \E i \in Items, p \in Patches \cup {Unsent},
              s \in {"confirmed", "review", Unsent}, careful \in BOOLEAN :
               ReadForUpdate(u, i, p, s, careful)
        \/ WriteUpdate(u) \/ RefuseUpdate(u)
        \/ \E w \in Wordings \cup {Unsent} : ReadDocument(u, w)
        \/ WriteDirectory(u) \/ CorrectPage(u) \/ RefuseDocument(u)

EvidenceSpec == EvidenceInit /\ [][EvidenceNext]_evidenceVars

------------------------------------------------------------------------------
EditRequest == [item : Items, version : Nat, patch : Patches \cup {Unsent},
                status : {"confirmed", "review", Unsent}, about : Subject]

EvidenceTypeOK ==
    /\ evidence \in [Items -> ItemRow \cup {Unused, Deleted}]
    /\ page \in [wording : Wordings, version : Nat]
    /\ loaded \in [Colleagues -> [item : Items, row : ItemRow] \cup {Nothing}]
    /\ edit \in [Colleagues -> EditRequest \cup {Nothing}]
    /\ fix \in [Colleagues -> [wording : Wordings \cup {Unsent}, version : Nat]
                                \cup {Nothing}]
    /\ confirmed \in [Items -> Subject \cup {Nothing}]
    /\ since \in [Items -> SUBSET Wordings]

\* "An approval binds the exact content that was confirmed" (comment in
\* update_evidence): a confirmed item carries the name of an approver and the
\* content that the confirming request read, with the fields it sent, whatever
\* colleagues save in between; and if the approver's client sent the version of
\* its list, this is the content the list showed.  A legacy client sends no
\* version: its approval is bound to what the server read, seen or not.
ApprovalBindsContent ==
    \A i \in Items : Stored(i) =>
        IF evidence[i].status = "confirmed"
        THEN /\ evidence[i].by \in Approvers
             /\ confirmed[i] # Nothing
             /\ evidence[i].content = confirmed[i].read
             /\ confirmed[i].shown \in {evidence[i].content, Nothing}
        ELSE evidence[i].by = Nobody

\* An item that is still confirmed and cites the page has its quote in every
\* wording the page was given since the confirmation: a correction that loses
\* the quote withdraws the confirmation in the same transaction.
ConfirmedQuoteStands ==
    \A i \in Items : (Stored(i) /\ evidence[i].status = "confirmed"
                        /\ evidence[i].content \in CitesPage) =>
        \A w \in since[i] : <<evidence[i].content, w>> \in Quoted

------------------------------------------------------------------------------
(* The inductive invariant.  A version is never given twice, so a request or *)
(* a list that holds the present version holds the present content.         *)

Ahead(i, version) == evidence[i] = Deleted \/ (Stored(i) /\ version <= evidence[i].version)

LoadedIsSound(u) ==
    LET l == loaded[u]
    IN  /\ Ahead(l.item, l.row.version)
        /\ SameVersion(l.item, l.row.version) =>
              l.row.content = evidence[l.item].content

LoadedSound == \A u \in Colleagues : loaded[u] # Nothing => LoadedIsSound(u)

\* What an edit will leave as the content of its item.
Leaves(e) == Applied(e.patch, evidence[e.item].content)

EditIsSound(u) ==
    LET e == edit[u]
    IN  /\ Ahead(e.item, e.version)
        /\ e.status = "confirmed" => u \in Approvers
        /\ SameVersion(e.item, e.version) =>
              /\ e.about.read = Leaves(e)
              /\ e.about.shown \in {Leaves(e), Nothing}
              /\ (e.status = Unsent /\ evidence[e.item].status = "confirmed") =>
                    Leaves(e) = evidence[e.item].content

EditSound == \A u \in Colleagues : edit[u] # Nothing => EditIsSound(u)

EvidenceInv ==
    /\ EvidenceTypeOK
    /\ LoadedSound
    /\ EditSound
    /\ ApprovalBindsContent
    /\ ConfirmedQuoteStands
==============================================================================
