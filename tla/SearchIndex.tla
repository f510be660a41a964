------------------------------ MODULE SearchIndex -----------------------------
(***************************************************************************)
(* The derived search index: the projection of the authoritative records   *)
(* (materializer.py), the chunks of its documents and their vectors        *)
(* (embedding.py), rebuilt by refreshes that nothing serializes            *)
(* (search.update_index: compile workers, reindex, sync, the server).      *)
(*                                                                         *)
(* Four records stand for their kinds: an entity "e", whose text changes   *)
(* under the same id; a relation "r"; a report "p" on that relation; and a *)
(* synthesis "y" of that report.  A text is a version, 0 is "no such row". *)
(* Documents have one chunk; foreign keys cascade from documents to chunks *)
(* and on to vectors.                                                      *)
(***************************************************************************)
EXTENDS Naturals, FiniteSets, Functions

CONSTANTS
    Refreshers,
    MaxChanges,   \* bound on the changes of the records
    MaxRefreshes  \* bound

Records == {"e", "r", "p", "y"}
Dimensions == {1, 2}

VARIABLES
    rows,         \* the authoritative records: their text, 0 if not served
    docs,         \* search_documents and the two FTS tables
    chunks,       \* search_chunks: chunk id -> text
    vectors,      \* search_embeddings: chunk id -> the text it is of, its size
    model,        \* the size of the vectors the configured model returns
    refresh,      \* what a refresher is doing
    changes, refreshes,
    overlapped    \* two refreshes have overlapped

vars == <<rows, docs, chunks, vectors, model, refresh, changes, refreshes, overlapped>>

None == [k \in Records |-> 0]
Asleep == [at |-> "none", read |-> None, listed |-> None, todo |-> {}, size |-> 0,
           undisturbed |-> TRUE]

Init ==
    /\ rows = [k \in Records |-> 1]
    /\ docs = None
    /\ chunks = <<>>
    /\ vectors = <<>>
    /\ model = 1
    /\ refresh = [t \in Refreshers |-> Asleep]
    /\ changes = 0 /\ refreshes = 0
    /\ overlapped = FALSE

Going(t) == refresh[t].at # "none"
Step(t, at) == refresh' = [refresh EXCEPT ![t].at = at]

(* A compile, an import, a removal: any kind of row comes, goes or changes. *)
(* Only the entity changes its text in place.                              *)
Change(k, text) ==
    /\ changes < MaxChanges /\ text # rows[k]
    /\ rows' = [rows EXCEPT ![k] = text]
    /\ changes' = changes + 1
    /\ refresh' = [t \in Refreshers |-> [refresh[t] EXCEPT !.undisturbed = FALSE]]
    /\ UNCHANGED <<docs, chunks, vectors, model, refreshes, overlapped>>

(* The model behind the configured name is replaced by one of another size. *)
Swap ==
    /\ changes < MaxChanges
    /\ model' \in Dimensions \ {model}
    /\ changes' = changes + 1
    /\ UNCHANGED <<rows, docs, chunks, vectors, refresh, refreshes, overlapped>>

Begin(t) ==
    /\ ~Going(t) /\ refreshes < MaxRefreshes
    /\ refreshes' = refreshes + 1
    /\ LET alone == \A o \in Refreshers : ~Going(o)
       IN  /\ refresh' = [o \in Refreshers |->
                  IF o = t THEN [Asleep EXCEPT !.at = "relations", !.undisturbed = alone]
                  ELSE [refresh[o] EXCEPT !.undisturbed = FALSE]]
           /\ overlapped' = (overlapped \/ ~alone)
    /\ UNCHANGED <<rows, docs, chunks, vectors, model, changes>>

(* Each SELECT sees the rows as they are when it runs.                      *)
ReadRelations(t) ==
    /\ refresh[t].at = "relations"
    /\ refresh' = [refresh EXCEPT ![t].at = "reports", ![t].read["e"] = rows["e"], ![t].read["r"] = rows["r"]]
    /\ UNCHANGED <<rows, docs, chunks, vectors, model, changes, refreshes, overlapped>>

ReadReports(t) ==
    /\ refresh[t].at = "reports"
    /\ refresh' = [refresh EXCEPT ![t].at = "docs", ![t].read["p"] = rows["p"], ![t].read["y"] = rows["y"]]
    /\ UNCHANGED <<rows, docs, chunks, vectors, model, changes, refreshes, overlapped>>

(* Mutant: syntheses are filtered by the reports as they were selected.     *)
ProjectedOnce(read) ==
    [read EXCEPT !["p"] = IF read["r"] = 0 THEN 0 ELSE @, !["y"] = IF read["p"] = 0 THEN 0 ELSE @]

(* Reports on a relation that is not active are not served, nor syntheses   *)
(* of a report that is not.                                                 *)
Projected(read) ==
    LET p == IF read["r"] = 0 THEN 0 ELSE read["p"]
    IN  [read EXCEPT !["p"] = p, !["y"] = IF p = 0 THEN 0 ELSE @]

(* Mutant: the chunk of a document is named by the document alone.          *)
ChunkOfDocument(k, text) == <<k, 0>>

(* CHK-<document>-<index>-<hash of the text>.                               *)
Chunk(k, text) == <<k, text>>

(* What the foreign keys leave.                                             *)
ChunksOf(served) == {c \in DOMAIN chunks : served[c[1]] # 0}
VectorsOf(kept) == Restrict(vectors, DOMAIN vectors \cap kept)

(* Mutant: the documents that are gone are not deleted.                     *)
SyncedKeeping(new) == [k \in Records |-> IF new[k] = 0 THEN docs[k] ELSE new[k]]

Synced(new) == new

SyncDocs(t) ==
    /\ refresh[t].at = "docs"
    /\ docs' = Synced(Projected(refresh[t].read))
    /\ chunks' = Restrict(chunks, ChunksOf(docs'))
    /\ vectors' = VectorsOf(ChunksOf(docs'))
    /\ Step(t, "list")
    /\ UNCHANGED <<rows, model, changes, refreshes, overlapped>>

ListDocs(t) ==
    /\ refresh[t].at = "list"
    /\ refresh' = [refresh EXCEPT ![t].at = "chunks", ![t].listed = docs]
    /\ UNCHANGED <<rows, docs, chunks, vectors, model, changes, refreshes, overlapped>>

(* One transaction: it fails as a whole if a listed document has gone.      *)
WriteChunks(t) ==
    LET listed == refresh[t].listed
        new == {k \in Records : listed[k] # 0}
    IN
    /\ refresh[t].at = "chunks"
    /\ IF \E k \in new : docs[k] = 0
       THEN /\ refresh' = [refresh EXCEPT ![t] = Asleep]
            /\ UNCHANGED <<chunks, vectors>>
       ELSE /\ chunks' = [c \in {Chunk(k, listed[k]) : k \in new} |-> listed[c[1]]]
            /\ vectors' = VectorsOf(DOMAIN chunks')
            /\ Step(t, "have")
    /\ UNCHANGED <<rows, docs, model, changes, refreshes, overlapped>>

(* Mutant: a chunk that has no vector yet is all that is missing anywhere.  *)
SizeUnknown(sizes) == 0

(* The vectors of the index say how long a vector must be, if they agree.   *)
SizeOf(sizes) == IF Cardinality(sizes) = 1 THEN CHOOSE n \in sizes : TRUE ELSE 0

(* The vectors there are, then the chunks that lack one: two reads, whose   *)
(* result is the same as one of the later state except for vectors written  *)
(* in between, which are then written again.  With vectors of two sizes     *)
(* nothing is embedded.                                                     *)
ReadVectors(t) ==
    LET sizes == {vectors[c].size : c \in DOMAIN vectors}
        todo == {c \in DOMAIN chunks : ~(c \in DOMAIN vectors /\ vectors[c].text = chunks[c])}
    IN
    /\ refresh[t].at = "have"
    /\ refresh' = [refresh EXCEPT ![t].at = "embed", ![t].size = SizeOf(sizes),
                                  ![t].todo = IF Cardinality(sizes) > 1 THEN {} ELSE {<<c, chunks[c]>> : c \in todo}]
    /\ UNCHANGED <<rows, docs, chunks, vectors, model, changes, refreshes, overlapped>>

(* A batch, here of one chunk, in the order of the documents: refused if    *)
(* the model returns vectors of another size, an error of the whole refresh *)
(* if the chunk has gone meanwhile.                                         *)
Job(t) == CHOOSE job \in refresh[t].todo : TRUE

Embed(t) ==
    /\ refresh[t].at = "embed" /\ refresh[t].todo # {}
    /\ LET c == Job(t)[1]
           done == [refresh EXCEPT ![t].todo = @ \ {Job(t)}]
       IN  IF refresh[t].size \notin {0, model}
           THEN refresh' = done /\ UNCHANGED vectors
           ELSE IF c \notin DOMAIN chunks
                THEN refresh' = [refresh EXCEPT ![t] = Asleep] /\ UNCHANGED vectors
                ELSE /\ refresh' = [done EXCEPT ![t].size = model]
                     /\ vectors' = [v \in DOMAIN vectors \cup {c} |->
                                       IF v = c THEN [text |-> Job(t)[2], size |-> model] ELSE vectors[v]]
    /\ UNCHANGED <<rows, docs, chunks, model, changes, refreshes, overlapped>>

(* The model cannot be reached: the batch is left out, the others go on.    *)
EmbedFails(t) ==
    /\ refresh[t].at = "embed" /\ refresh[t].todo # {}
    /\ refresh' = [refresh EXCEPT ![t].todo = @ \ {Job(t)}]
    /\ UNCHANGED <<rows, docs, chunks, vectors, model, changes, refreshes, overlapped>>

(* Also without embedding: it was not asked for, or nothing is missing.     *)
End(t) ==
    /\ refresh[t].at = "have" \/ (refresh[t].at = "embed" /\ refresh[t].todo = {})
    /\ refresh' = [refresh EXCEPT ![t] = Asleep]
    /\ UNCHANGED <<rows, docs, chunks, vectors, model, changes, refreshes, overlapped>>

Next ==
    \/ \E text \in 0..2 : Change("e", text)
    \/ \E k \in Records \ {"e"}, text \in 0..1 : Change(k, text)
    \/ Swap
    \/ \E t \in Refreshers :
           \/ Begin(t) \/ ReadRelations(t) \/ ReadReports(t) \/ SyncDocs(t) \/ ListDocs(t) \/ WriteChunks(t)
           \/ ReadVectors(t) \/ Embed(t) \/ EmbedFails(t) \/ End(t)

Spec == Init /\ [][Next]_vars

-----------------------------------------------------------------------------
(* A vector is of the text of its chunk, whoever rebuilds what meanwhile:   *)
(* vector_search ranks a chunk by its vector and never compares the two.    *)
VectorsTrue == \A c \in DOMAIN vectors : c \in DOMAIN chunks /\ vectors[c].text = chunks[c]

(* Nothing is served without what it was made from: a report in the index   *)
(* has its relation there, and a synthesis its report, although the rows    *)
(* were read by separate statements while they changed.                     *)
Closed == (docs["p"] # 0 => docs["r"] # 0) /\ (docs["y"] # 0 => docs["p"] # 0)

(* The vectors of a model have one size as long as refreshes do not overlap,*)
(* even if the model changes under its name in the middle of one; with two  *)
(* sizes the embedding pass would refuse to run ever again.                 *)
OneSize == ~overlapped => Cardinality({vectors[c].size : c \in DOMAIN vectors}) <= 1

(* A refresh that nothing disturbed leaves the index as the records say,    *)
(* whatever earlier refreshes, half done, failed or overtaken, left there.  *)
Repairs == \A t \in Refreshers : WriteChunks(t) /\ refresh[t].undisturbed =>
                 /\ docs = Projected(rows)
                 /\ {<<c[1], chunks'[c]>> : c \in DOMAIN chunks'} = {<<k, docs[k]>> : k \in {k \in Records : docs[k] # 0}}

(* The index is a true copy of what the records say, repaired by the next   *)
(* refresh.                                                                 *)
Refreshing == VectorsTrue' /\ Closed' /\ OneSize' /\ Repairs
IndexTruthful == [][Refreshing]_vars

(* Not checked, and false: what SYSTEM_BEHAVIOR 26.3 says of retired rows,  *)
(* "never materialized into search".  A refresh overtaken by one that began *)
(* later, and ended, serves again what it read before.                      *)
NothingStale ==
    [][\A t \in Refreshers : SyncDocs(t) => \A k \in Records : docs'[k] # 0 => docs[k] # 0 \/ rows[k] # 0]_vars
=============================================================================
