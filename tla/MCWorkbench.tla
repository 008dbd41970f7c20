----------------------------- MODULE MCWorkbench -----------------------------
(***************************************************************************)
(* One instance of Workbench for TLC.  Only one part moves in a behaviour, *)
(* so the parts may share three pairs of model values, and permuting them  *)
(* permutes every part at once.                                            *)
(***************************************************************************)
EXTENDS Workbench, TLC

CONSTANTS
    a1, a2,      \* cases, submissions, tokens, readers
    b1, b2,      \* people who check conflicts, sessions, pages
    c1, c2,      \* party requests, sign-on flows, wordings that hold t1's quote
    n1, n2,      \* spellings of one company
    t1, t2,      \* quotes of an item of evidence, texts of an indexed page
    w1, w2,      \* a wording without the quote, a day, states of a case
    ann,         \* the member of both tokens
    k1, k2, k3,  \* clients of the runtime contract
    q1, g1, g2,  \* their request id, and two canonical requests
    facts, gap

Spellings == {n1, n2} \X {n1, n2}

Of(role, name) == [role |-> role, name |-> name]

TwoSides == {{Of("client", n1)}, {Of("opposing", n2)}}

\* An item states one of two facts and has one of two quotes; a request sends
\* one of the fields.  Two wordings of the page hold t1; t2 is in none.
FactsAndQuotes == {"fact", "doubt"} \X {t1, t2}

OneField ==
    {[c \in FactsAndQuotes |-> <<f, c[2]>>] : f \in {"fact", "doubt"}}
    \cup {[c \in FactsAndQuotes |-> <<c[1], t>>] : t \in {t1, t2}}

Quotations == {<<f, t1>> : f \in {"fact", "doubt"}} \X {c1, c2}

OneHolder == [k \in Tokens |-> ann]

\* Two clients retry one request; a third sends another under the same id.
OneId == [c \in Clients |-> q1]
TwoRequests == [c \in Clients |-> IF c = k3 THEN g2 ELSE g1]

GapReadsFacts == [n \in Specialists |-> IF n = gap THEN {facts} ELSE {}]

WithAndWithoutGap == {{facts}, {facts, gap}}

WorkbenchSymmetry ==
    Permutations({a1, a2}) \cup Permutations({b1, b2}) \cup Permutations({c1, c2})
==============================================================================
