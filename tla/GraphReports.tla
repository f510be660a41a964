----------------------------- MODULE GraphReports -----------------------------
(***************************************************************************)
(* The shared graph, its community reports and the synthesis made of them: *)
(* db/_entities.py (relations, supports, rebuild_graph_generation,         *)
(* reconcile_source_change), pipeline/graph_index.py, community_reports.py,*)
(* synthesis.py, compile_global_l3 and the closure of a deleted source.    *)
(*                                                                         *)
(* Entities are fixed.  A source's text is a set of relations, one span of *)
(* the source for each; extraction may miss some of them.  Publishing and  *)
(* deleting a source are one transaction each.  A clustering is a sequence *)
(* of them with calls of a language model in between: run is where it is.  *)
(***************************************************************************)
EXTENDS Naturals, FiniteSets

CONSTANTS
  Sources,
  Entities,
  Relations,   \* propositions that the texts can state
  From, To,    \* the two entities of a relation, by relation
  Denials,     \* the relations of type `contradicts`
  Texts,       \* what a source can say: sets of relations
  MaxPublish,  \* publishes of any source
  MaxFails,    \* refusals of the language model
  MaxNodes     \* insights in one answer

ASSUME ConstantsAssumption ==
  /\ From \in [Relations -> Entities] /\ To \in [Relations -> Entities]
  /\ Texts \subseteq SUBSET Relations
  /\ MaxPublish \in Nat /\ MaxFails \in Nat /\ MaxNodes \in Nat

VARIABLES
  live,      \* the sources that are not deleted
  spans,     \* source_spans: the relations stated by the text each source was compiled from
  support,   \* graph_relation_supports with status verified: relation, source, source_lineage_hash
  status,    \* graph_relations: absent, provisional, active, or the reason of a quarantine
  report,    \* community_reports: those never made are absent
  layer,     \* synthesis_nodes: the corpus they are made of, how many there should be and are
  run,       \* the clustering under way
  published, \* publishes so far
  fails      \* refusals so far

vars == <<live, spans, support, status, report, layer, run, published, fails>>

Reasons == {"self_loop", "contradiction", "bridge_risk", "unsupported"}

(***************************************************************************)
(* Topology.                                                               *)
(***************************************************************************)
Ends(r) == {From[r], To[r]}

\* No relation of R leads out of S.
Closed(R, S) == \A r \in R : From[r] \in S <=> To[r] \in S

\* The entities that a path of relations of R joins to e: no closed set around e
\* leaves one of them out.
Component(R, e) == {x \in Entities : \A S \in SUBSET (Entities \ {x}) : e \in S => ~Closed(R, S)}

Components(R) == {Component(R, e) : e \in Entities}

\* Removing the relation would part two components of two entities or more.
BridgeRisk(R) ==
  {r \in R : /\ From[r] # To[r]
             /\ To[r] \notin Component(R \ {r}, From[r])
             /\ \A e \in Ends(r) : Cardinality(Component(R \ {r}, e)) >= 2}

(***************************************************************************)
(* The rebuild: what it makes of relations, supports and reports.          *)
(***************************************************************************)
Known(st) == {r \in Relations : st[r] # "absent"}

Denied(st, r) ==
  r \notin Denials /\ \E x \in Known(st) \cap Denials : x # r /\ Ends(x) = Ends(r)

Verdict(sup, st, risk, r) ==
  CASE From[r] = To[r]            -> "self_loop"
    [] Denied(st, r)              -> "contradiction"
    [] r \in risk                 -> "bridge_risk"
    [] {u \in sup : u.rel = r} = {} -> "unsupported"
    [] OTHER                      -> "active"

Active(st) == {r \in Relations : st[r] = "active"}

\* Mutant: the topology is that of the active relations.
CompiledByActive(sup, st) ==
  LET risk == BridgeRisk(Active(st))
  IN  [r \in Relations |-> IF r \in Known(st) THEN Verdict(sup, st, risk, r) ELSE "absent"]

Compiled(sup, st) ==
  LET risk == BridgeRisk(Known(st))
  IN  [r \in Relations |-> IF r \in Known(st) THEN Verdict(sup, st, risk, r) ELSE "absent"]

\* Mutant: a community is an entity with its neighbours.
KeysOfNeighbours(sup, st) ==
  {k \in {[members |-> C, by |-> {u \in sup : st[u.rel] = "active" /\ Ends(u.rel) \subseteq C}] :
            C \in {{e} \cup UNION {Ends(r) : r \in {q \in Active(st) : e \in Ends(q)}} : e \in Entities}} :
     Cardinality(k.members) >= 2 /\ k.by # {}}

\* The identity of a report: its members and the supports of the active relations among them.
Keys(sup, st) ==
  {k \in {[members |-> C, by |-> {u \in sup : st[u.rel] = "active" /\ Ends(u.rel) \subseteq C}] :
            C \in Components(Active(st))} :
     Cardinality(k.members) >= 2 /\ k.by # {}}

Serving(rep) == {k \in DOMAIN rep : rep[k].live}

\* A key that is there again gets its old row, and its prose, back.
Rekeyed(rep, keys) ==
  [k \in keys \cup DOMAIN rep |->
     [live |-> k \in keys, prose |-> k \in DOMAIN rep /\ rep[k].prose]]

Rebuilt(sup, st, rep) ==
  LET new == Compiled(sup, st) IN [status |-> new, report |-> Rekeyed(rep, Keys(sup, new))]

(***************************************************************************)
(* Sources: the transactions of a compile and of a deletion.               *)
(***************************************************************************)
Idle == [at |-> "idle"]
NoLayer == [of |-> {}, want |-> 0, have |-> 0]

Init ==
  /\ live = Sources
  /\ spans = [s \in Sources |-> {}]
  /\ support = {}
  /\ status = [r \in Relations |-> "absent"]
  /\ report = <<>>
  /\ layer = NoLayer
  /\ run = Idle
  /\ published = 0 /\ fails = 0

Supports(s, text, X) == {[rel |-> r, src |-> s, of |-> text] : r \in X}

\* A relation that is known keeps its status until the next rebuild.
Declared(st, X) == [r \in Relations |-> IF r \in X /\ st[r] = "absent" THEN "provisional" ELSE st[r]]

Publish(s, text, X) ==
  /\ s \in live /\ published < MaxPublish
  /\ spans' = [spans EXCEPT ![s] = text]
  /\ support' = support \cup Supports(s, text, X)
  /\ status' = Declared(status, X)
  /\ published' = published + 1
  /\ UNCHANGED <<live, report, layer, run, fails>>

Bases(k) == {u.src : u \in k.by}

\* Mutant: nodes go only when a report they cite is not served any more.
PrunedByReport(lay, gone, rep) == IF lay.of \subseteq DOMAIN rep THEN lay ELSE NoLayer

\* Nodes go when a report they cite is not served any more, or a span is removed.
Pruned(lay, gone, rep) ==
  IF lay.of \subseteq Serving(rep) /\ \A k \in lay.of : gone \notin Bases(k) THEN lay ELSE NoLayer

\* Supports that cite a span or a unit of the source are stale.
Withdrawn(sup, s) == {u \in sup : u.src # s}

\* Mutant: the supports go, the reports wait for the next rebuild.
DeleteLazily(s) ==
  /\ s \in live
  /\ live' = live \ {s}
  /\ spans' = [spans EXCEPT ![s] = {}]
  /\ support' = Withdrawn(support, s)
  /\ UNCHANGED <<status, report, layer, run, published, fails>>

DeleteSource(s) ==
  /\ s \in live
  /\ live' = live \ {s}
  /\ spans' = [spans EXCEPT ![s] = {}]
  /\ support' = Withdrawn(support, s)
  /\ LET g == Rebuilt(support', status, report)
     IN  status' = g.status /\ report' = g.report /\ layer' = Pruned(layer, s, g.report)
  /\ UNCHANGED <<run, published, fails>>

(***************************************************************************)
(* compile_global_l3.                                                      *)
(***************************************************************************)
Corpus(rep) == {k \in Serving(rep) : rep[k].prose}

\* Mutant: the number of nodes is not looked at.
CurrentUncounted(lay, corpus) == lay.have > 0 /\ lay.of = corpus

\* layer_is_current: every node carries this corpus and the number of nodes there are.
Current(lay, corpus) == lay.have > 0 /\ lay.of = corpus /\ lay.have = lay.want

Rebuild ==
  /\ run = Idle
  /\ LET g == Rebuilt(support, status, report) IN status' = g.status /\ report' = g.report
  /\ run' = [at |-> "rebuilt"]
  /\ UNCHANGED <<live, spans, support, layer, published, fails>>

\* The rows are read once; the pass goes on with these copies.
ListReports ==
  /\ run.at = "rebuilt"
  /\ run' = [at |-> "prose", todo |-> Serving(report) \ Corpus(report), err |-> FALSE]
  /\ UNCHANGED <<live, spans, support, status, report, layer, published, fails>>

\* A row that is written is served.
Upserted(rep, k) == [rep EXCEPT ![k] = [live |-> TRUE, prose |-> TRUE]]

\* The answer is written by key.
WriteProse(k) ==
  /\ run.at = "prose" /\ k \in run.todo
  /\ report' = Upserted(report, k)
  /\ run' = [run EXCEPT !.todo = @ \ {k}]
  /\ UNCHANGED <<live, spans, support, status, layer, published, fails>>

FailProse(k) ==
  /\ run.at = "prose" /\ k \in run.todo /\ fails < MaxFails
  /\ fails' = fails + 1
  /\ run' = [run EXCEPT !.todo = @ \ {k}, !.err = TRUE]
  /\ UNCHANGED <<live, spans, support, status, report, layer, published>>

\* Without a report to synthesize the layer is cleared; a current layer is kept.
ReadCorpus ==
  /\ run.at = "prose" /\ run.todo = {}
  /\ LET corpus == Corpus(report)
         ask == corpus # {} /\ ~Current(layer, corpus)
     IN  /\ layer' = IF corpus = {} THEN NoLayer ELSE layer
         /\ run' = [at |-> IF ask THEN "asking" ELSE "end", of |-> corpus, err |-> run.err]
  /\ UNCHANGED <<live, spans, support, status, report, published, fails>>

FailSynthesis ==
  /\ run.at = "asking" /\ fails < MaxFails
  /\ fails' = fails + 1
  /\ run' = [run EXCEPT !.at = "end", !.err = TRUE]
  /\ UNCHANGED <<live, spans, support, status, report, layer, published>>

ClearLayer(n) ==
  /\ run.at = "asking"
  /\ layer' = NoLayer
  /\ run' = [at |-> IF n = 0 THEN "end" ELSE "writing", of |-> run.of, err |-> run.err, want |-> n]
  /\ UNCHANGED <<live, spans, support, status, report, published, fails>>

NodeAdded(lay, r) == [of |-> r.of, want |-> r.want, have |-> lay.have + 1]

\* Mutant: it counts one node too many.
WriteNodeLate ==
  /\ run.at = "writing"
  /\ layer' = NodeAdded(layer, run)
  /\ run' = [run EXCEPT !.at = IF layer'.have > run.want THEN "end" ELSE "writing"]
  /\ UNCHANGED <<live, spans, support, status, report, published, fails>>

WriteNode ==
  /\ run.at = "writing"
  /\ layer' = NodeAdded(layer, run)
  /\ run' = [run EXCEPT !.at = IF layer'.have = run.want THEN "end" ELSE "writing"]
  /\ UNCHANGED <<live, spans, support, status, report, published, fails>>

EndRun ==
  /\ run.at = "end" /\ run' = Idle
  /\ UNCHANGED <<live, spans, support, status, report, layer, published, fails>>

\* The process ends, or a step raises, anywhere.
Abort ==
  /\ run.at \notin {"idle", "end"} /\ fails < MaxFails
  /\ fails' = fails + 1
  /\ run' = Idle
  /\ UNCHANGED <<live, spans, support, status, report, layer, published>>

RunStep ==
  \/ Rebuild \/ ListReports \/ ReadCorpus \/ FailSynthesis \/ WriteNode \/ EndRun \/ Abort
  \/ \E k \in DOMAIN report : WriteProse(k) \/ FailProse(k)
  \/ \E n \in 0..MaxNodes : ClearLayer(n)

PublishStep == \E s \in Sources, text \in Texts : \E X \in SUBSET text \ {{}} : Publish(s, text, X)

Next == RunStep \/ PublishStep \/ \E s \in Sources : DeleteSource(s)
Spec == Init /\ [][Next]_vars

\* No source is deleted while a clustering runs.
SerialNext == RunStep \/ PublishStep \/ (run = Idle /\ \E s \in Sources : DeleteSource(s))
SerialSpec == Init /\ [][SerialNext]_vars

Support == [rel : Relations, src : Sources, of : Texts]

TypeOK ==
  /\ live \subseteq Sources /\ spans \in [Sources -> Texts \cup {{}}]
  /\ support \subseteq Support
  /\ status \in [Relations -> {"absent", "provisional", "active"} \cup Reasons]
  /\ \A k \in DOMAIN report : /\ k.members \subseteq Entities /\ k.by \subseteq Support
                              /\ report[k] \in [live : BOOLEAN, prose : BOOLEAN]
  /\ layer.of \subseteq DOMAIN report /\ layer.want \in 0..MaxNodes /\ layer.have \in 0..layer.want
  /\ layer.have = 0 => layer = NoLayer
  /\ run.at \in {"idle", "rebuilt", "prose", "asking", "writing", "end"}
  /\ run.at = "prose" => run.todo \subseteq DOMAIN report
  /\ published \in 0..MaxPublish /\ fails \in 0..MaxFails

\* What is served cites active relations only, each with a support that still counts:
\* the invariants that graph_audit reports on (db/_entities.py:2451), after any order of
\* publishes, rebuilds and deletions.
ServedCitesActive ==
  \A k \in Serving(report) : \A u \in k.by : status[u.rel] = "active" /\ u \in support

\* Reports partition the entities: an entity is told of in one served report, whatever
\* communities were split, joined or retired before (SYSTEM_BEHAVIOR.md:4025, "no
\* entity/relation/report count amplification").
OneReportPerEntity ==
  \A k, l \in Serving(report) : k # l => k.members \cap l.members = {}

\* A rebuild right after a rebuild changes nothing, whatever was published before it.
RebuildIsNoop ==
  LET g == Rebuilt(support, status, report) IN Rebuilt(support, g.status, g.report) = g

\* A relation that alone holds two groups of entities together joins no report
\* (db/_entities.py:1759).  It fails where a relation that is not active closes a cycle.
NoFusion ==
  \A k \in Serving(report) : \A r \in Active(status) :
    Ends(r) \subseteq k.members =>
      r \notin BridgeRisk({q \in Active(status) : Ends(q) \subseteq k.members})

\* What is deleted is neither reported nor synthesized.
GoneIsGone ==
  /\ \A k \in Serving(report) \cup layer.of : Bases(k) \subseteq live
  /\ \A u \in support : u.src \in live

\* A clustering that ends without an error leaves prose in every report and a whole layer
\* about exactly these reports, also after one that died between two nodes.
CleanEndIsComplete ==
  run.at = "end" /\ ~run.err =>
    /\ Serving(report) = Corpus(report)
    /\ layer.have = layer.want
    /\ layer # NoLayer => layer.of = Corpus(report)

\* What is served is of sources that live, once, and for a reason that still holds.
ServedIsFounded == TypeOK /\ ServedCitesActive /\ OneReportPerEntity /\ GoneIsGone

\* Doing it again changes nothing, and an end without an error is an end.
RebuildsSettle == RebuildIsNoop /\ CleanEndIsComplete

\* A support whose span is gone is retired, after an edit as after a deletion
\* (SYSTEM_BEHAVIOR.md:4031).
SupportsHaveBasis == \A u \in support : u.rel \in spans[u.src]
=============================================================================
