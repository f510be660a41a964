------------------------------- MODULE QueryPath -------------------------------
(***************************************************************************)
(* One question, from the request to the answer: the policy of the         *)
(* workspace, the derivation of an English query, the choice of a route    *)
(* (context_service.context_fetch, router), the evidence of that route     *)
(* (evidence.build_evidence), the hybrid search it may fall back to        *)
(* (engine.search), the scope filter, and the synthesis with the update of *)
(* the query trace (orchestrator.run).                                     *)
(*                                                                         *)
(* Every step reads the library afresh, while sources are extracted again, *)
(* the index is rebuilt, the provider of vectors comes and goes and the    *)
(* workspace's curate.yml is edited.  A record stands for what is told of  *)
(* it here: the spans it cites.  Rankings, texts and budgets are left out. *)
(***************************************************************************)
EXTENDS Naturals, FiniteSets, Functions

CONSTANTS
    Spans, SourceOf,   \* spans, and the source each was cut from
    Records, Kind,     \* "entity", "report" or "synthesis"
    Cites,             \* the spans a record was made from
    Policies,          \* what a curate.yml may say: include, exclude, routes, explore
    Requests,          \* what may be asked: mode, key, foreign, given, scraped
    MaxChanges         \* bound on what happens meanwhile

VARIABLES
    spans,        \* source_spans
    rows,         \* served graph records: record -> the spans its row cites
    index,        \* search_documents: record or span -> the spans it cites
    vectors,      \* the vectors of the index: "none", "ready" or "mixed" sizes
    provider,     \* that of the vectors of queries: "none", "up" or "down"
    curate,       \* the workspace's curate.yml
    changes,
    q             \* the question being answered

library == <<spans, rows, index, vectors, provider, curate, changes>>
vars == <<spans, rows, index, vectors, provider, curate, changes, q>>

Fresh == [at |-> "policy", asked |-> CHOOSE r \in Requests : TRUE, policy |-> CHOOSE p \in Policies : TRUE,
          hash |-> CHOOSE p \in Policies : TRUE, status |-> "unset", terms |-> FALSE, intent |-> "",
          knowledge |-> TRUE, route |-> "", items |-> {}, gone |-> {}, warnings |-> {}, lists |-> {},
          failed |-> FALSE, excluded |-> 0, fetched |-> {}, cited |-> {}, error |-> FALSE]

(* One span of each source, and the records that were made from those.      *)
Init ==
    /\ spans \in {S \in SUBSET Spans : \A src \in Range(SourceOf) : Cardinality({s \in S : SourceOf[s] = src}) = 1}
    /\ rows = [r \in {r \in Records : Cites[r] \subseteq spans} |-> Cites[r]]
    /\ index = rows
    /\ vectors \in {"none", "ready"}
    /\ provider \in {"none", "up"}
    /\ curate \in Policies
    /\ changes = 0
    /\ \E r \in Requests : q = [Fresh EXCEPT !.asked = r, !.status = IF r.given THEN "given" ELSE "unset"]

-----------------------------------------------------------------------------
(* What happens meanwhile.  A source is compiled again: its spans are       *)
(* replaced and entities lose the old ones; of the reports and syntheses    *)
(* that cite them some are retired, the others stay until the graph is      *)
(* clustered again.  The index stays until it is rebuilt.                   *)
Reextract(src) ==
    LET old == {s \in spans : SourceOf[s] = src}
        stale == {r \in DOMAIN rows : Kind[r] # "entity" /\ rows[r] \cap old # {}}
    IN  /\ \E new \in {s \in Spans \ old : SourceOf[s] = src} : spans' = (spans \ old) \cup {new}
        /\ \E retired \in SUBSET stale :
               rows' = [r \in DOMAIN rows \ retired |-> IF Kind[r] = "entity" THEN rows[r] \ old ELSE rows[r]]
        /\ UNCHANGED <<index, vectors, provider, curate>>

Refresh ==
    /\ index' = rows
    /\ vectors' \in {"none", "ready", "mixed"}
    /\ UNCHANGED <<spans, rows, provider, curate>>

Flip == provider # "none" /\ provider' \in {"up", "down"} \ {provider} /\ UNCHANGED <<spans, rows, index, vectors, curate>>

EditCurate == curate' \in Policies \ {curate} /\ UNCHANGED <<spans, rows, index, vectors, provider>>

Meanwhile ==
    /\ changes < MaxChanges /\ q.at # "done"
    /\ changes' = changes + 1
    /\ (\E src \in Range(SourceOf) : Reextract(src)) \/ Refresh \/ Flip \/ EditCurate
    /\ UNCHANGED q

-----------------------------------------------------------------------------
Goto(at) == q' = [q EXCEPT !.at = at] /\ UNCHANGED library

(* resolve_curate_policy: the file is read, and read again for its hash.    *)
ReadPolicy == q.at = "policy" /\ q' = [q EXCEPT !.at = "hash", !.policy = curate] /\ UNCHANGED library
HashPolicy == q.at = "hash" /\ q' = [q EXCEPT !.at = "derive", !.hash = curate] /\ UNCHANGED library

(* Mutant: the verdict is adopted whatever it comes from.                   *)
AdoptedAlways(status, verdict) == verdict

(* Only a classification says that nothing is asked of the library: where   *)
(* the derivation failed, no verdict is known, which is not a verdict.      *)
Adopted(status, verdict) == status = "derived" => verdict

(* derive_search_query, for a question in another language that came        *)
(* without an English query: a model reads it, or its terms are scraped.    *)
Derive ==
    /\ q.at = "derive"
    /\ IF q.asked.foreign /\ ~q.asked.given
       THEN \E status \in {"derived", "fallback"}, verdict \in BOOLEAN, intent \in {"", "lookup", "synthesis", "discovery"} :
                /\ status = "fallback" => verdict = q.asked.scraped /\ intent = ""
                /\ ~verdict => intent = ""
                /\ q' = [q EXCEPT !.at = "route", !.status = status, !.intent = intent,
                                  !.terms = status = "derived" /\ verdict, !.knowledge = Adopted(status, verdict)]
       ELSE q' = [q EXCEPT !.at = "route", !.terms = q.asked.given \/ ~q.asked.foreign]
    /\ UNCHANGED library

(* What is permitted whatever curate.yml says.                              *)
Allowed == q.policy.routes \cup {"source-section"}

(* If "local" is not allowed either, any of the others.                     *)
Pick(route) ==
    IF route \in Allowed THEN {route}
    ELSE IF "local" \in Allowed THEN {"local"} ELSE Allowed

Has(kind) == \E r \in DOMAIN rows : Kind[r] = kind

(* choose_route: the caller's mode, a source, the derived intent, or what   *)
(* the words of the question signal.                                        *)
Wanted(signal) ==
    LET explore == q.policy.explore /\ Has("entity")
        meant == [x \in {"", "lookup", "synthesis", "discovery"} |->
                     CASE x = "discovery" /\ explore -> "explore"
                       [] x = "synthesis" /\ Has("report") -> "global"
                       [] x = "lookup" -> "local"
                       [] OTHER -> ""][q.intent]
    IN  IF q.asked.mode # "auto" THEN q.asked.mode
        ELSE IF q.asked.key # "" THEN "source-section"
        ELSE IF meant # "" THEN meant
        ELSE IF signal = "explore" /\ explore THEN "explore"
        ELSE IF signal = "global" /\ Has("report") THEN "global" ELSE "local"

(* The route, then: nothing is retrieved for what is not a question to the  *)
(* library; a question whose terms match no entity says so.                 *)
Route ==
    /\ q.at = "route"
    /\ \E signal \in {"explore", "global", "none"}, route \in Allowed :
           /\ route \in Pick(Wanted(signal))
           /\ q' = IF ~q.knowledge
                   THEN [q EXCEPT !.at = "budget", !.route = route, !.warnings = {"skipped"}]
                   ELSE [q EXCEPT !.at = CASE route = "local" -> "entities" [] route = "explore" -> "entities"
                                           [] route = "global" -> "primers" [] OTHER -> "source",
                                  !.route = route,
                                  !.warnings = IF q.status \in {"unset", "fallback"} /\ ~q.terms THEN {"unseeded"} ELSE {}]
    /\ UNCHANGED library

-----------------------------------------------------------------------------
(* Evidence is what was read: a record with the spans its row cited then.   *)
RowsOf(kinds) == {[id |-> r, spans |-> rows[r]] : r \in {r \in DOMAIN rows : Kind[r] \in kinds}}
SpanItems(S) == {[id |-> s, spans |-> {s}] : s \in S}
SpansOf(items) == UNION {i.spans : i \in items}
Add(new, at) == q' = [q EXCEPT !.items = @ \cup new, !.at = at] /\ UNCHANGED library

(* Entities are found by English terms; memory paths start from them.       *)
ReadEntities ==
    /\ q.at = "entities"
    /\ Add(IF q.terms THEN RowsOf({"entity"}) ELSE {}, IF q.route = "explore" THEN "primers" ELSE "spans")

(* The spans of the entities that still have a row.                         *)
ReadSpans == q.at = "spans" /\ Add(SpanItems(SpansOf(q.items) \cap spans), "lex")

ReadPrimers ==
    /\ q.at = "primers"
    /\ LET found == RowsOf({"report", "synthesis"})
       IN  Add(found, IF q.route = "global" /\ found = {} THEN "lex" ELSE "scope")

(* A source that is not known gives nothing.                                *)
ReadSource ==
    /\ q.at = "source"
    /\ Add(IF q.asked.key = "" THEN {} ELSE SpanItems({s \in spans : SourceOf[s] = q.asked.key}), "scope")

-----------------------------------------------------------------------------
(* The search: lists of candidates by words and by vectors, of the question *)
(* as it is and expanded, fused, ranked again and hydrated.                 *)
Available == provider # "none" /\ vectors # "none"

Lex == q.at = "lex" /\ q' = [q EXCEPT !.at = "vec", !.lists = @ \cup {"lex"}] /\ UNCHANGED library

(* The provider fails, or the index has vectors of two sizes.               *)
VectorFails == provider = "down" \/ vectors = "mixed"

(* Mutant: a list that could not be had is left out without a word.         *)
VectorSilently(next) ==
    IF VectorFails THEN [q EXCEPT !.at = next, !.failed = TRUE]
    ELSE [q EXCEPT !.at = next, !.lists = @ \cup {"vec"}]

(* _vector_list: one list of candidates, or a warning.                      *)
Vector(next) ==
    IF VectorFails
    THEN [q EXCEPT !.at = next, !.failed = TRUE, !.warnings = @ \cup {"vector_failed"}]
    ELSE [q EXCEPT !.at = next, !.lists = @ \cup {"vec"}]

(* Whether there are vectors is asked once.                                 *)
VecRaw ==
    /\ q.at = "vec"
    /\ q' = IF Available THEN Vector("vecx")
            ELSE [q EXCEPT !.at = "rerank", !.failed = TRUE, !.warnings = @ \cup {"vector_unavailable"}]
    /\ UNCHANGED library

(* Expansions of the question, the hypothetical answer among them: as long  *)
(* as none has failed.                                                      *)
VecExpanded ==
    /\ q.at = "vecx"
    /\ q' = IF q.failed THEN [q EXCEPT !.at = "rerank"] ELSE Vector("rerank")
    /\ UNCHANGED library

(* The ranking: without a reranker's scores the fused order stands.  Hits   *)
(* are then read from the index; those that left it are skipped.            *)
Rank ==
    /\ q.at = "rerank"
    /\ \E reranked \in BOOLEAN, hits \in SUBSET DOMAIN index :
           q' = [q EXCEPT !.at = "scope",
                          !.items = @ \cup {[id |-> d, spans |-> index[d]] : d \in hits},
                          !.warnings = IF reranked THEN @ ELSE @ \cup {"reranker_failed"}]
    /\ UNCHANGED library

-----------------------------------------------------------------------------
Permits(policy, src) ==
    /\ src \notin policy.exclude
    /\ policy.include = {} \/ src \in policy.include

(* _scope_filter_spans: a span without a row has the empty path, which no   *)
(* pattern excludes.                                                        *)
SpanInScope(s) == IF s \in spans THEN Permits(q.policy, SourceOf[s]) ELSE q.policy.include = {}

(* Mutant: an item stays if any of its spans is in scope.                   *)
ItemInScopeAny(item) == item.spans = {} \/ \E s \in item.spans : SpanInScope(s)

(* A text made from several sources is that of all of them.                 *)
ItemInScope(item) == \A s \in item.spans : SpanInScope(s)

Scope ==
    /\ q.at = "scope"
    /\ LET kept == {i \in q.items : ItemInScope(i)}
       IN  q' = [q EXCEPT !.at = "budget", !.items = kept, !.excluded = Cardinality(q.items \ kept),
                          !.gone = SpansOf(q.items) \ spans]
    /\ UNCHANGED library

(* The pack is stored in the trace.  Then the model answers from it.        *)
Store ==
    /\ q.at = "budget"
    /\ q' = [q EXCEPT !.at = "synthesis", !.fetched = SpansOf(q.items), !.cited = SpansOf(q.items)]
    /\ UNCHANGED library

(* Mutant: a failed synthesis leaves no sources.                            *)
CitedAfterNothing(ok, cited) == IF ok THEN cited ELSE {}

(* An answer that is valid cites what the model says it does; a failure of  *)
(* the model or of the validation leaves what the retrieval found.          *)
CitedAfter(ok, cited) == IF ok THEN cited ELSE q.fetched

Synthesize ==
    /\ q.at = "synthesis"
    /\ \E ok \in BOOLEAN, cited \in SUBSET q.fetched :
           /\ q.route = "explore" \/ ~ok => cited = q.fetched
           /\ q' = [q EXCEPT !.at = "done", !.cited = CitedAfter(ok, cited), !.error = ~ok]
    /\ UNCHANGED library

Done == q.at = "done" /\ UNCHANGED vars

Next ==
    \/ Meanwhile \/ Done
    \/ ReadPolicy \/ HashPolicy \/ Derive \/ Route
    \/ ReadEntities \/ ReadSpans \/ ReadPrimers \/ ReadSource
    \/ Lex \/ VecRaw \/ VecExpanded \/ Rank
    \/ Scope \/ Store \/ Synthesize

Spec == Init /\ [][Next]_vars

-----------------------------------------------------------------------------
Searched == q.at = "done" /\ (q.route = "local" \/ "lex" \in q.lists)

(* An outage of the model that reads the question never turns it into one   *)
(* that is not asked of the library: nothing is retrieved only where a      *)
(* classification said so, and the answer says that it was.                 *)
OutageStillRetrieves ==
    q.at = "done" => (("skipped" \in q.warnings) <=> ~q.knowledge) /\ (~q.knowledge => q.status = "derived")

(* A search that lacked a list of candidates by vectors says so, wherever   *)
(* in the search the provider or the index failed it.                       *)
DegradationTold ==
    Searched /\ q.knowledge /\ q.failed => {"vector_failed", "vector_unavailable"} \cap q.warnings # {}

(* Whatever is read while sources are extracted again and the index is      *)
(* rebuilt: an item is served only if all the spans it was made from that   *)
(* still have a row are of sources the workspace admits.                    *)
ServedInScope ==
    q.at \in {"budget", "synthesis", "done"} =>
        \A i \in q.items : \A s \in i.spans \ q.gone : Permits(q.policy, SourceOf[s])

(* A synthesis that fails is not recorded as a retrieval that found nothing,*)
(* and an answer cites nothing that was not served.                         *)
EvidenceSurvives ==
    q.at = "done" => q.cited \subseteq SpansOf(q.items) /\ (q.error => q.cited = SpansOf(q.items))

(* An answer is true about how it was found and from what.                  *)
AnswersTruthful == OutageStillRetrieves /\ DegradationTold /\ ServedInScope /\ EvidenceSurvives

(* False: SYSTEM_BEHAVIOR 28.1, "a single out-of-scope                      *)
(* span excludes the whole item".  The span of an excluded source that has  *)
(* been extracted again has no row, so no path, and is in scope.            *)
NothingOutOfScope ==
    q.at = "done" => \A i \in q.items : \A s \in i.spans : Permits(q.policy, SourceOf[s])

(* Not checked, and false: the hash in the snapshot is of the policy that   *)
(* was applied.  The file may be edited between the two reads.              *)
HashOfPolicy == q.at = "done" => q.hash = q.policy

(* Not checked, and false: the search leaves fallback_mode empty, or it     *)
(* fused no list by vectors ("lex" is FTS5 only).  A later list may fail.   *)
LexMeansLex == Searched /\ q.failed => "vec" \notin q.lists
=============================================================================
