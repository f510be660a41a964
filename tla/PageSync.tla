------------------------------ MODULE PageSync ------------------------------
(***************************************************************************)
(* `wiki sync` over the generated pages: sync.py and the commands that     *)
(* drive it.  Contexts (L1), Atoms (L2), Concepts (L3) and Syntheses (L4)  *)
(* are markdown files that refer to one another; people edit them while a  *)
(* sync reads, verifies and repairs them and finally records their hashes. *)
(*                                                                         *)
(* A page is what the code reads of it: a version of its prose, the ids in *)
(* its frontmatter (parent_source, concept_ids), the atoms its body links  *)
(* outside a Relations section, and its `## Relations` sections in order.  *)
(* The hash of a page is the page itself.                                  *)
(***************************************************************************)
EXTENDS Naturals, Sequences, SequencesExt, FiniteSets

CONSTANTS Contexts, Atoms, Concepts, Syntheses,  \* node ids of the four layers
          Sources,        \* rows of the sources table
          NoPage,         \* no such file, no such row of page_hashes
          Drafts,         \* [node -> the contents a person may give its page]
          FirstPages,     \* the pages the last build wrote
          MaxEdits,       \* bound on the edits of a behaviour
          MaxSections,    \* bound on the Relations sections of a page
          Named,          \* nodes that may be named on the command line
          Modes           \* subset of {"incremental", "full", "report"}

Nodes == Contexts \cup Atoms \cup Concepts \cup Syntheses

Content == [text : Nat, refs : SUBSET Nodes, mentions : SUBSET Atoms,
            relations : Seq(SUBSET Atoms)]

\* What the page of a node may be: its frontmatter refers to the layer above.
Pages(n) ==
    {d \in Content : /\ n \in Contexts => d.refs = {}
                     /\ n \in Atoms => d.refs \subseteq Contexts
                     /\ n \in Syntheses => d.refs \subseteq Concepts} \cup {NoPage}

ASSUME LayersAssumption ==
    /\ Contexts \cap (Atoms \cup Concepts \cup Syntheses) = {}
    /\ Atoms \cap (Concepts \cup Syntheses) = {}
    /\ Concepts \cap Syntheses = {}

ASSUME PagesAssumption ==
    /\ NoPage \notin Content
    /\ FirstPages \in [Nodes -> Content \cup {NoPage}]
    /\ \A n \in Nodes : FirstPages[n] \in Pages(n) /\ Drafts[n] \subseteq Pages(n)
    /\ Named \subseteq Nodes

VARIABLES page,     \* the files of Collections/
          hash,     \* table page_hashes
          status,   \* [source -> l2, l3, l4 status and layer_error]
          sync,     \* the sync that runs, its options and what it has read
          edits,    \* edits made so far
          owed      \* edited pages whose change no Mode C has had in its scope

vars == <<page, hash, status, sync, edits, owed>>

-----------------------------------------------------------------------------
(* What the pages p say *)

Existing(p) == {n \in Nodes : p[n] /= NoPage}

\* The ids a page refers to one layer up.  The Relations of a Concept are the
\* first section the pattern finds, whatever sections follow it.
Links(p, n) ==
    IF n \in Concepts
    THEN IF p[n].relations = <<>> THEN {} ELSE Head(p[n].relations)
    ELSE p[n].refs

\* Every atom the body links, in a section or outside of one.
BodyAtoms(p, n) == p[n].mentions \cup UNION ToSet(p[n].relations)

LinksOf(p, ns) == UNION {Links(p, n) : n \in ns \cap Existing(p)}

Gaps(ns, why) == [node : ns, why : {why}]

\* Mutant: the parents of the atoms are not looked up.
ModeAToAtoms(p) ==
    LET cons == LinksOf(p, Syntheses)
        atms == LinksOf(p, cons)
    IN  Gaps((cons \cup atms) \ Existing(p), "missing")
        \cup Gaps({c \in cons \cap Existing(p) : Links(p, c) = {}}, "empty")

\* run_mode_a: from every Synthesis down to the Contexts.
ModeA(p) ==
    LET cons == LinksOf(p, Syntheses)
        atms == LinksOf(p, cons)
        ctxs == LinksOf(p, atms)
    IN  Gaps((cons \cup atms \cup ctxs) \ Existing(p), "missing")
        \cup Gaps({c \in cons \cap Existing(p) : Links(p, c) = {}}, "empty")

\* _trace_upstream, one layer at a time.
UpAtom(p, a) == Gaps(Links(p, a) \ Existing(p), "missing")

\* Mutant: the walk up from a Concept stops at its atoms.
UpConceptOnce(p, c) == Gaps(Links(p, c) \ Existing(p), "missing")

UpConcept(p, c) == Gaps(Links(p, c) \ Existing(p), "missing")
                   \cup UNION {UpAtom(p, a) : a \in Links(p, c) \cap Existing(p)}

UpSynthesis(p, s) == Gaps(Links(p, s) \ Existing(p), "missing")
                     \cup UNION {UpConcept(p, c) : c \in Links(p, s) \cap Existing(p)}

\* run_mode_b: the downstream walk reads pages but reports nothing.
ModeB(p, n) ==
    IF n \notin Existing(p) THEN Gaps({n}, "missing")
    ELSE CASE n \in Contexts  -> {}
           [] n \in Atoms     -> UpAtom(p, n)
           [] n \in Concepts  -> UpConcept(p, n)
           [] n \in Syntheses -> UpSynthesis(p, n)

Downstream(p, n, layer) == {m \in layer \cap Existing(p) : n \in Links(p, m)}

\* Mutant: the Syntheses that rest on a changed Concept are left out.
ConceptAlone(p, c) == {c} \cap Existing(p)

ConceptScope(p, c) == ({c} \cap Existing(p)) \cup Downstream(p, c, Syntheses)

AtomScope(p, a) == UNION {ConceptScope(p, c) : c \in Downstream(p, a, Concepts)}

\* _logical_scope_for_nodes: what must be verified again when n changed.
LogicalScope(p, n) ==
    CASE n \in Syntheses -> {n} \cap Existing(p)
      [] n \in Concepts  -> ConceptScope(p, n)
      [] n \in Atoms     -> AtomScope(p, n)
      [] n \in Contexts  -> UNION {AtomScope(p, a) : a \in Downstream(p, n, Atoms)}

\* scan_for_changes: the modified and the new pages.
Dirty == {n \in Existing(page) : hash[n] /= page[n]}

\* Mutant: whatever the body links is written, page or not.
RepairAnyAtoms(p, c) == BodyAtoms(p, c)

\* repair_structural_gaps: a Concept without Relations gets the atoms of its
\* body that have a page, in a section at the end.  No gap asks for the repair
\* of a Synthesis: run_mode_a reports none without concept_ids.
RepairAtoms(p, c) == BodyAtoms(p, c) \cap Existing(p)

Repairable(p, gaps) ==
    {c \in Concepts \cap Existing(p) :
        [node |-> c, why |-> "empty"] \in gaps /\ RepairAtoms(p, c) /= {}}

\* Mutant: the links go to the frontmatter, as for a Synthesis.
RepairedFrontmatter(p, gaps) ==
    [n \in Nodes |->
        IF n \in Repairable(p, gaps) THEN [p[n] EXCEPT !.refs = RepairAtoms(p, n)] ELSE p[n]]

Repaired(p, gaps) ==
    [n \in Nodes |->
        IF n \in Repairable(p, gaps)
        THEN [p[n] EXCEPT !.relations = Append(@, RepairAtoms(p, n))]
        ELSE p[n]]

-----------------------------------------------------------------------------
(* The layer status of the sources *)

\* Mutant: status and error change places.
SetLayerSwapped(st, ss, layer, to, error) ==
    [s \in Sources |-> IF s \in ss THEN [st[s] EXCEPT ![layer] = error, !.error = to] ELSE st[s]]

\* set_sources_layer_status and its error argument; "keep" is UNSET.
SetLayer(st, ss, layer, to, error) ==
    [s \in Sources |->
        IF s \in ss
        THEN [st[s] EXCEPT ![layer] = to,
                           !.error = IF error = "keep" THEN @ ELSE error]
        ELSE st[s]]

\* Mutant: the write of l4 clears the reason the write of l3 left.
MarkGapsClearing(gaps) ==
    IF \E g \in gaps : g.node \in Concepts
    THEN LET done2 == {s \in Sources : status[s].l2 = "done"}
         IN  SetLayer(SetLayer(status, done2, "l3", "error", "gap"), done2, "l4", "pending", "none")
    ELSE status

\* _mark_layer_status_from_sync_gaps
MarkGaps(gaps) ==
    LET l3    == \E g \in gaps : g.node \in Concepts
        l4    == \E g \in gaps : g.node \in Syntheses
        done2 == {s \in Sources : status[s].l2 = "done"}
        st1   == IF l3 THEN SetLayer(SetLayer(status, done2, "l3", "error", "gap"),
                                     done2, "l4", "pending", "keep")
                 ELSE status
        done3 == {s \in Sources : st1[s].l3 = "done"}
    IN  IF l4 THEN SetLayer(st1, done3, "l4", "error", "gap") ELSE st1

\* _mark_clean_sync_status
MarkClean ==
    [s \in Sources |->
        IF status[s].l2 = "done" /\ status[s].l3 /= "error" /\ status[s].l4 /= "error"
        THEN [status[s] EXCEPT !.error = "none"]
        ELSE status[s]]

-----------------------------------------------------------------------------
NoSync == [pc |-> "idle", mode |-> "none", fix |-> FALSE, dry |-> FALSE,
           llm |-> FALSE, deep |-> FALSE, node |-> NoPage,
           dirty |-> {}, before |-> {}, gaps |-> {}, logic |-> {}]

\* The vault after a build: the pages and their hashes agree.
Init == /\ page = FirstPages
        /\ hash = FirstPages
        /\ status \in [Sources -> [l2 : {"done"}, l3 : {"done", "skipped"},
                                   l4 : {"done"}, error : {"none"}]]
        /\ sync = NoSync
        /\ edits = 0
        /\ owed = {}

\* A person saves, creates or deletes a page in the vault.
Edit(n) ==
    /\ edits < MaxEdits
    /\ \E draft \in Drafts[n] \ {page[n]} :
          /\ page' = [page EXCEPT ![n] = draft]
          /\ owed' = IF draft = NoPage THEN owed \ {n} ELSE owed \cup {n}
    /\ edits' = edits + 1
    /\ UNCHANGED <<hash, status, sync>>

\* The command starts: which pages changed since the last recorded hashes.  The
\* report after add and build ("report") repairs nothing without its client.
Start(mode, fix, dry, llm, deep, node) ==
    /\ sync.pc = "idle"
    /\ mode /= "full" => fix = llm /\ ~dry /\ ~deep /\ node = NoPage
    /\ mode = "incremental" => ~llm
    /\ sync' = [pc |-> IF mode = "incremental" THEN "record" ELSE "verify",
                mode |-> mode, fix |-> fix /\ ~dry, dry |-> dry, llm |-> llm,
                deep |-> deep, node |-> node, dirty |-> Dirty,
                before |-> owed, gaps |-> {}, logic |-> {}]
    /\ UNCHANGED <<page, hash, status, edits, owed>>

Verification == IF sync.node = NoPage THEN ModeA(page) ELSE ModeB(page, sync.node)

\* Step 1: the structural verification.
Verify ==
    /\ sync.pc = "verify"
    /\ sync' = [sync EXCEPT !.pc = "repair", !.gaps = Verification]
    /\ UNCHANGED <<page, hash, status, edits, owed>>

\* Step 2: the deterministic repairs, of the gaps found before.  A repair of the
\* lint (not modelled here) also calls for the second verification.
Repair ==
    /\ sync.pc = "repair"
    /\ sync.fix => \A c \in Repairable(page, sync.gaps) : Len(page[c].relations) < MaxSections
    /\ page' = IF sync.fix THEN Repaired(page, sync.gaps) ELSE page
    /\ \E pc \in IF page' /= page THEN {"reverify"}
                 ELSE IF sync.fix THEN {"reverify", "logic"} ELSE {"logic"} :
          sync' = [sync EXCEPT !.pc = pc]
    /\ UNCHANGED <<hash, status, edits, owed>>

\* The second structural verification, run when something was repaired.
Reverify ==
    /\ sync.pc = "reverify"
    /\ sync' = [sync EXCEPT !.pc = "logic", !.gaps = Verification]
    /\ UNCHANGED <<page, hash, status, edits, owed>>

Targets == IF sync.node = NoPage THEN sync.dirty ELSE {sync.node}

\* The pages Mode C asks the model about: those in the scope of the targets, or
\* all when it is given none, without the ones that lint or their own links put
\* out of reach.
InScope(targets, blocked) ==
    LET scope == IF targets = {} THEN Concepts \cup Syntheses
                 ELSE UNION {LogicalScope(page, n) : n \in targets}
    IN  {n \in scope \cap Existing(page) :
            /\ n \notin blocked
            /\ Links(page, n) \cap blocked = {}
            /\ Links(page, n) \cap Existing(page) /= {}}

\* Step 3: Mode C.  A page the model could not be asked about counts as sound.
ModeC(blocked, bad) ==
    LET targets == IF sync.deep THEN {} ELSE Targets
    IN  /\ sync.pc = "logic"
        /\ sync.llm
        /\ sync.mode = "report" \/ sync.deep \/ Targets /= {}
        /\ bad \subseteq InScope(targets, blocked)
        /\ sync' = [sync EXCEPT !.pc = "mark", !.logic = Gaps(bad, "logic")]
        /\ owed' = IF targets = {} THEN {} ELSE owed \ targets
        /\ UNCHANGED <<page, hash, status, edits>>

\* --no-deep, nothing changed, or a report whose client did not start.
SkipModeC ==
    /\ sync.pc = "logic"
    /\ ~sync.llm \/ sync.mode = "report" \/ (~sync.deep /\ Targets = {})
    /\ sync' = [sync EXCEPT !.pc = "mark"]
    /\ UNCHANGED <<page, hash, status, edits, owed>>

\* Mutant: the report after add and build records the hashes as well.
MarkAndRecord(issues) ==
    /\ sync.pc = "mark"
    /\ hash' = IF sync.mode = "report" THEN page ELSE hash
    /\ sync' = NoSync
    /\ UNCHANGED <<page, status, edits, owed>>

\* Step 4: the layer status.  Lint issues keep a run without gaps from clearing.
Mark(issues) ==
    /\ sync.pc = "mark"
    /\ status' = IF sync.dry THEN status
                 ELSE IF sync.gaps \cup sync.logic /= {} THEN MarkGaps(sync.gaps \cup sync.logic)
                 ELSE IF issues THEN status ELSE MarkClean
    /\ sync' = IF sync.dry \/ sync.mode = "report" THEN NoSync ELSE [sync EXCEPT !.pc = "record"]
    /\ UNCHANGED <<page, hash, edits, owed>>

\* Step 5: update_all_page_hashes, whatever the pages are by now.
Record ==
    /\ sync.pc = "record"
    /\ hash' = page
    /\ sync' = NoSync
    /\ UNCHANGED <<page, status, edits, owed>>

\* The process is killed, or the client raises out of the command.
Abort == /\ sync.pc /= "idle"
         /\ sync' = NoSync
         /\ UNCHANGED <<page, hash, status, edits, owed>>

\* compile_global_l3 (external to the sync) ends: the sources are served anew.
Recompile ==
    /\ \E s \in Sources : status[s].l3 /= "done" \/ status[s].l4 /= "done"
    /\ status' = [s \in Sources |-> [status[s] EXCEPT !.l3 = "done", !.l4 = "done", !.error = "none"]]
    /\ UNCHANGED <<page, hash, sync, edits, owed>>

Next ==
    \/ \E n \in Nodes : Edit(n)
    \/ \E mode \in Modes, fix, dry, llm, deep \in BOOLEAN, node \in Named \cup {NoPage} :
          Start(mode, fix, dry, llm, deep, node)
    \/ Verify \/ Repair \/ Reverify
    \/ \E blocked \in {b \in SUBSET (Atoms \cup Concepts) : Cardinality(b) <= 1} :
          \E bad \in SUBSET (Concepts \cup Syntheses) : ModeC(blocked, bad)
    \/ SkipModeC
    \/ \E issues \in BOOLEAN : Mark(issues)
    \/ Record \/ Abort \/ Recompile

Spec == Init /\ [][Next]_vars

-----------------------------------------------------------------------------
(* Properties *)

\* Pages hold pages, hashes are of pages, and gaps are about nodes: the shape of
\* what `wiki sync` keeps on disk, in the database and in memory.
TypeOK ==
    /\ page \in [Nodes -> Content \cup {NoPage}]
    /\ hash \in [Nodes -> Content \cup {NoPage}]
    /\ \A s \in Sources : /\ {status[s].l3, status[s].l4} \subseteq {"done", "skipped", "pending", "error"}
                          /\ status[s].error \in {"none", "gap"}
    /\ sync.pc \in {"idle", "verify", "repair", "reverify", "logic", "mark", "record"}
    /\ sync.dirty \cup sync.before \subseteq Nodes
    /\ {g.node : g \in sync.gaps \cup sync.logic} \subseteq Nodes
    /\ owed \subseteq Existing(page)

\* Every reference below a Synthesis can be followed to a page.
Intact(p) ==
    \A s \in Syntheses \cap Existing(p) : \A c \in Links(p, s) :
        /\ c \in Existing(p)
        /\ Links(p, c) /= {}
        /\ \A a \in Links(p, c) : a \in Existing(p) /\ Links(p, a) \subseteq Existing(p)

\* run_mode_a walks the layers one by one and stops at pages it cannot read: it
\* reports no gap exactly when every chain of references ends in pages.
GlobalWalkComplete == ModeA(page) = {} <=> Intact(page)

\* The targeted verification of the Syntheses finds what the global one finds,
\* except for the Concepts without Relations, which only run_mode_a names.
TargetedAgrees ==
    UNION {ModeB(page, s) : s \in Syntheses \cap Existing(page)}
        = {g \in ModeA(page) : g.why = "missing"}

\* m is n, refers to n, or refers to a page that depends on n.
DependsOn(p, m, n) ==
    \/ m = n
    \/ n \in Links(p, m)
    \/ \E k \in Links(p, m) \cap Existing(p) :
          n \in Links(p, k) \/ \E j \in Links(p, k) \cap Existing(p) : n \in Links(p, j)

\* Mode C looks again at every Concept and Synthesis that rests on a changed page,
\* however many layers lie between: no stale conclusion survives its evidence.
ScopeCoversDependents ==
    \A n \in Nodes : \A m \in (Concepts \cup Syntheses) \cap Existing(page) :
        DependsOn(page, m, n) => m \in LogicalScope(page, n)

\* A repair brings no broken reference into the graph: what it links has a page,
\* so the gaps it uncovers are one layer further up, in the atoms it linked.
RepairBreaksNothing ==
    LET p == Repaired(page, ModeA(page))
    IN  \A g \in ModeA(p) \ ModeA(page) : g.node \in Contexts

\* A Concept that had no Relations section needs no second repair.
RepairSettles ==
    LET p == Repaired(page, ModeA(page))
    IN  \A c \in Repairable(p, ModeA(p)) : page[c].relations /= <<>>

\* layer_error says why whenever sync left L3 or L4 of a source in error, through
\* later syncs, clean or not, and recompiles: no error without an explanation.
ErrorsExplained ==
    \A s \in Sources : "error" \in {status[s].l3, status[s].l4} => status[s].error /= "none"

\* A verification, global or of a scope, misses no broken or stale page.
VerifiesAll == TypeOK /\ GlobalWalkComplete /\ TargetedAgrees /\ ScopeCoversDependents

\* A repair settles what it repairs, and what stays broken is explained.
RepairsAndExplains == RepairBreaksNothing /\ RepairSettles /\ ErrorsExplained

\* What a person edited while no command was looking at it is still to be verified,
\* is seen as changed, or a command recorded its hash: a report, a dry run and a
\* killed command forget no edit.
OnlyRecordForgets ==
    [][\A n \in owed \cap owed' :
          n \in Dirty /\ page'[n] = page[n] /\ sync.pc /= "record" => n \in Dirty']_vars

\* The end of a repair is the end of repairing: what run_mode_a reports of a
\* repaired Concept, the next sync does not repair again.
RepairIsFinal ==
    LET p == Repaired(page, ModeA(page)) IN Repairable(p, ModeA(p)) = {}

\* `wiki sync --full` records, of a page that was edited before it started, what
\* Mode C had in its scope, and not an edit of that page that came later.
FullSyncVerifiesEdits ==
    sync.pc = "record" /\ sync.mode = "full" /\ sync.llm /\ sync.node = NoPage
        => sync.before \cap owed = {}
=============================================================================
