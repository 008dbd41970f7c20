----------------------------- MODULE PageIndexes ------------------------------
(***************************************************************************)
(* The two vector caches of a case's pages: one vector per page            *)
(* (embedding_cache, app/rag.py) and the vectors of a page's parts         *)
(* (page_child_index_state and page_child_chunks, app/rag_child_index.py). *)
(* A search asks the embedding service for the query's vector, which fixes *)
(* the space; reads the cache; embeds what is missing, which is slow; then *)
(* writes the cache and scores.  Pages are corrected and other searches,   *)
(* perhaps in another space, run in between.                               *)
(*                                                                         *)
(* A vector is modelled by what it was computed from: a text and a space.  *)
(***************************************************************************)
EXTENDS Naturals

CONSTANTS
    Readers, Pages, Texts,
    Spaces,         \* backend, model and dimensions, as one value
    LocalSpace,     \* the hashed vectors computed without any service
    NoVector, NoSearch

ASSUME IndexConstants ==
    LocalSpace \in Spaces

VARIABLES
    text,        \* the present text of each page
    pageCache,   \* embedding_cache: the text hash and the vector of each page
    childIndex,  \* the index state of each page with its parts' vectors
    search,      \* the search each reader has open
    scored       \* what the last step compared, if it ended a search

indexVars == <<text, pageCache, childIndex, search, scored>>

------------------------------------------------------------------------------
(* Mistakes the code could contain; PROJECT.json pairs each with the        *)
(* definition it replaces and the property that must notice it.             *)

ReusableByText(row, t, space) == row # NoVector /\ row.hash = t

------------------------------------------------------------------------------

IndexInit ==
    /\ text \in [Pages -> Texts]
    /\ pageCache = [p \in Pages |-> NoVector]
    /\ childIndex = [p \in Pages |-> NoVector]
    /\ search = [u \in Readers |-> NoSearch]
    /\ scored = NoSearch

Searching(u, path, phase) ==
    search[u] # NoSearch /\ search[u].path = path /\ search[u].phase = phase

\* A page is corrected by somebody (routes/documents.py).
CorrectText(p, t) ==
    /\ t # text[p]
    /\ text' = [text EXCEPT ![p] = t]
    /\ UNCHANGED <<pageCache, childIndex, search>> /\ scored' = NoSearch

\* A cached row serves if its hash is that of the text and its vector is of the
\* query's space.
Reusable(row, t, space) == row # NoVector /\ row.hash = t /\ row.vector.space = space

Found(cache, texts, space) ==
    [p \in Pages |-> IF Reusable(cache[p], texts[p], space) THEN cache[p] ELSE NoVector]

\* The query is embedded, by whichever backend answers, which fixes the space
\* and touches nothing shared.  Then what does not serve will be embedded anew;
\* the code never forces more.
Begin(u, s) ==
    /\ search[u] = NoSearch
    /\ search' = [search EXCEPT ![u] = s]
    /\ UNCHANGED <<text, pageCache, childIndex>> /\ scored' = NoSearch

\* The pages and the page cache are read by two SELECTs in autocommit: the rows
\* may be newer than the texts.
ReadPages(u, space) ==
    Begin(u, [path |-> "pages", phase |-> "selected", space |-> space,
              seen |-> text, found |-> <<>>])

ReadPageCache(u) ==
    /\ Searching(u, "pages", "selected")
    /\ search' = [search EXCEPT
            ![u].phase = "read",
            ![u].found = Found(pageCache, search[u].seen, search[u].space)]
    /\ UNCHANGED <<text, pageCache, childIndex>> /\ scored' = NoSearch

\* One read transaction sees the texts and the children's rows of one moment.
ReadChildIndex(u, space) ==
    Begin(u, [path |-> "children", phase |-> "read", space |-> space,
              seen |-> text, found |-> Found(childIndex, text, space)])

Stale(u) == {p \in Pages : search[u].found[p] = NoVector}

\* The service went away or came back: vectors of another space are refused.
\* The page cache computes local vectors itself, which cannot fail.
EmbeddingFails(u) ==
    /\ search[u] # NoSearch /\ search[u].phase = "read" /\ Stale(u) # {}
    /\ search[u].path = "pages" => search[u].space # LocalSpace
    /\ search' = [search EXCEPT ![u] = NoSearch]
    /\ UNCHANGED <<text, pageCache, childIndex>> /\ scored' = NoSearch

Fresh(u, p) ==
    [hash |-> search[u].seen[p],
     vector |-> [of |-> search[u].seen[p], space |-> search[u].space]]

Rebuilt(u) == [p \in Pages |-> IF p \in Stale(u) THEN Fresh(u, p) ELSE search[u].found[p]]

\* The page cache is written without another look at the pages.
UpsertPages(u) ==
    /\ Searching(u, "pages", "read")
    /\ pageCache' = [p \in Pages |-> IF p \in Stale(u) THEN Fresh(u, p) ELSE pageCache[p]]
    /\ search' = [search EXCEPT ![u].phase = "indexed", ![u].seen = <<>>, ![u].found = <<>>]
    /\ UNCHANGED <<text, childIndex>> /\ scored' = NoSearch

\* Scoring joins the pages and the cache as they are now, and skips the rows of
\* another space, which another search may have written meanwhile.
Compatible(row, space) == row # NoVector /\ row.vector.space = space

ScorePages(u) ==
    LET space == search[u].space
        served == {p \in Pages : Compatible(pageCache[p], space)}
    IN  /\ Searching(u, "pages", "indexed")
        /\ scored' =
              [path |-> "pages", space |-> space,
               items |-> {[text |-> text[p], vector |-> pageCache[p].vector] : p \in served}]
        /\ search' = [search EXCEPT ![u] = NoSearch]
        /\ UNCHANGED <<text, pageCache, childIndex>>

\* Parts are scored with the text they were cut from.
ScoreChildren(u) ==
    scored' =
        [path |-> "children", space |-> search[u].space,
         items |-> {[text |-> search[u].seen[p], vector |-> Rebuilt(u)[p].vector] : p \in Pages}]

ReuseChildren(u) ==
    /\ Searching(u, "children", "read") /\ Stale(u) = {}
    /\ ScoreChildren(u)
    /\ search' = [search EXCEPT ![u] = NoSearch]
    /\ UNCHANGED <<text, pageCache, childIndex>>

\* Under the write lock the index is replaced only if every page of the case,
\* rebuilt or reused, still reads as it did.
SameTexts(u) == text = search[u].seen

RebuildChildren(u) ==
    /\ Searching(u, "children", "read") /\ Stale(u) # {}
    /\ IF SameTexts(u)
       THEN /\ childIndex' = [p \in Pages |-> IF p \in Stale(u) THEN Fresh(u, p)
                                              ELSE childIndex[p]]
            /\ ScoreChildren(u)
       ELSE UNCHANGED childIndex /\ scored' = NoSearch
    /\ search' = [search EXCEPT ![u] = NoSearch]
    /\ UNCHANGED <<text, pageCache>>

IndexNext ==
    \/ \E p \in Pages, t \in Texts : CorrectText(p, t)
    \/ \E u \in Readers :
        \/ \E space \in Spaces : ReadPages(u, space) \/ ReadChildIndex(u, space)
        \/ ReadPageCache(u) \/ EmbeddingFails(u)
        \/ UpsertPages(u) \/ ScorePages(u)
        \/ ReuseChildren(u) \/ RebuildChildren(u)

IndexSpec == IndexInit /\ [][IndexNext]_indexVars

------------------------------------------------------------------------------
Vector == [of : Texts, space : Spaces]

CacheRow == [hash : Texts, vector : Vector] \cup {NoVector}

IndexTypeOK ==
    /\ text \in [Pages -> Texts]
    /\ pageCache \in [Pages -> CacheRow] /\ childIndex \in [Pages -> CacheRow]
    /\ search \in [Readers ->
            [path : {"pages", "children"}, phase : {"selected", "read", "indexed"},
             space : Spaces, seen : [Pages -> Texts] \cup {<<>>},
             found : [Pages -> CacheRow] \cup {<<>>}]
            \cup {NoSearch}]
    /\ scored \in [path : {"pages", "children"}, space : Spaces,
                   items : SUBSET [text : Texts, vector : Vector]] \cup {NoSearch}

\* A search compares its query only with vectors of the query's own space,
\* whichever searches in other spaces rewrote the caches since it read them, and
\* a part is scored by the vector of exactly the text that is shown for it.
\* (For whole pages the text may be newer than the vector: the cache keeps the
\* hash of the text its vector was computed from, so the next search sees it.)
VectorsAreOfTheQuery ==
    /\ scored # NoSearch =>
        \A item \in scored.items :
            /\ item.vector.space = scored.space
            /\ scored.path = "children" => item.vector.of = item.text
    /\ \A p \in Pages : /\ pageCache[p] # NoVector => pageCache[p].vector.of = pageCache[p].hash
                        /\ childIndex[p] # NoVector => childIndex[p].vector.of = childIndex[p].hash
==============================================================================
