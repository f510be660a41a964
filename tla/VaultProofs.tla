---------------------------- MODULE VaultProofs ----------------------------
(***************************************************************************)
(* Proofs about what is kept beside the knowledge of a vault, for any      *)
(* numbers of pages, files, stubs and actors: the verification of pages,   *)
(* rows of one file under several spellings, stubs of documents outside,   *)
(* repairs of links, and what the commands set up.                         *)
(***************************************************************************)
EXTENDS PageSync, VaultSystem, FiniteSetTheorems, TLAPS

\* the pages on disk, each of its node's layer
Vault(p) == p \in [Nodes -> Content \cup {NoPage}] /\ \A n \in Nodes : p[n] \in Pages(n)

LEMMA PageIs ==
  ASSUME NEW p, Vault(p), NEW n \in Nodes
  PROVE  /\ n \in Existing(p) <=> p[n] # NoPage
         /\ n \in Existing(p) =>
              /\ p[n] \in Content /\ p[n].refs \subseteq Nodes /\ p[n].mentions \subseteq Atoms
              /\ p[n].relations \in Seq(SUBSET Atoms)
              /\ n \in Contexts => p[n].refs = {}
              /\ n \in Atoms => p[n].refs \subseteq Contexts
              /\ n \in Syntheses => p[n].refs \subseteq Concepts
  BY PagesAssumption DEF Vault, Existing, Pages, Content

(* A page refers to the layer above its own.                               *)
LEMMA LinksUp ==
  ASSUME NEW p, Vault(p), NEW n \in Existing(p)
  PROVE  /\ Links(p, n) \subseteq Nodes
         /\ n \in Contexts => Links(p, n) = {}
         /\ n \in Atoms => Links(p, n) \subseteq Contexts
         /\ n \in Concepts => Links(p, n) \subseteq Atoms
         /\ n \in Syntheses => Links(p, n) \subseteq Concepts
  <1>1. n \in Nodes
    BY DEF Existing
  <1>2. CASE n \in Concepts
    <2>1. p[n].relations \in Seq(SUBSET Atoms)
      BY <1>1, PageIs
    <2>2. p[n].relations # <<>> => Head(p[n].relations) \subseteq Atoms
      BY <2>1
    <2> QED
      BY <1>2, <2>2, LayersAssumption DEF Links, Nodes
  <1>3. CASE n \notin Concepts
    BY <1>1, <1>3, PageIs DEF Links
  <1> QED
    BY <1>2, <1>3

LEMMA LinksOfIs ==
  ASSUME NEW p, NEW ns
  PROVE  \A m : m \in LinksOf(p, ns) <=> \E n \in ns : n \in Existing(p) /\ m \in Links(p, n)
  BY DEF LinksOf

LEMMA GapsAre ==
  ASSUME NEW ns, NEW why
  PROVE  /\ \A g \in Gaps(ns, why) : g.node \in ns /\ g.why = why /\ g = [node |-> g.node, why |-> why]
         /\ \A n \in ns : [node |-> n, why |-> why] \in Gaps(ns, why)
         /\ Gaps(ns, why) = {} <=> ns = {}
  <1>1. \A g \in Gaps(ns, why) : g.node \in ns /\ g.why = why /\ g = [node |-> g.node, why |-> why]
    BY DEF Gaps
  <1>2. \A n \in ns : [node |-> n, why |-> why] \in Gaps(ns, why)
    BY DEF Gaps
  <1> QED
    BY <1>1, <1>2

(* What the walk from the Syntheses reaches, layer by layer.               *)
ConIds(p) == LinksOf(p, Syntheses)
AtmIds(p) == LinksOf(p, ConIds(p))
CtxIds(p) == LinksOf(p, AtmIds(p))

LEMMA WalkIs ==
  ASSUME NEW p, Vault(p)
  PROVE  /\ ConIds(p) \subseteq Concepts /\ AtmIds(p) \subseteq Atoms /\ CtxIds(p) \subseteq Contexts
         /\ ModeA(p) = Gaps((ConIds(p) \cup AtmIds(p) \cup CtxIds(p)) \ Existing(p), "missing")
                       \cup Gaps({c \in ConIds(p) \cap Existing(p) : Links(p, c) = {}}, "empty")
  <1>1. ConIds(p) \subseteq Concepts
    BY LinksOfIs, LinksUp DEF ConIds
  <1>2. AtmIds(p) \subseteq Atoms
    BY <1>1, LinksOfIs, LinksUp DEF AtmIds
  <1>3. CtxIds(p) \subseteq Contexts
    BY <1>2, LinksOfIs, LinksUp DEF CtxIds
  <1>4. ModeA(p) = Gaps((ConIds(p) \cup AtmIds(p) \cup CtxIds(p)) \ Existing(p), "missing")
                   \cup Gaps({c \in ConIds(p) \cap Existing(p) : Links(p, c) = {}}, "empty")
    BY DEF ModeA, ConIds, AtmIds, CtxIds
  <1> QED
    BY <1>1, <1>2, <1>3, <1>4

-----------------------------------------------------------------------------
(* Verification *)

(* The global walk names no gap exactly when every chain of references     *)
(* below a Synthesis ends in pages.                                        *)
LEMMA GlobalWalk ==
  ASSUME NEW p, Vault(p)
  PROVE  ModeA(p) = {} <=> Intact(p)
  <1> DEFINE reached == ConIds(p) \cup AtmIds(p) \cup CtxIds(p)
             bare == {c \in ConIds(p) \cap Existing(p) : Links(p, c) = {}}
  <1>1. ModeA(p) = {} <=> reached \subseteq Existing(p) /\ bare = {}
    <2>1. ModeA(p) = Gaps(reached \ Existing(p), "missing") \cup Gaps(bare, "empty")
      BY WalkIs
    <2> HIDE DEF reached, bare
    <2>2. Gaps(reached \ Existing(p), "missing") = {} <=> reached \ Existing(p) = {}
      BY GapsAre
    <2>3. Gaps(bare, "empty") = {} <=> bare = {}
      BY GapsAre
    <2> QED
      BY <2>1, <2>2, <2>3
  <1>2. \A c : c \in ConIds(p) <=> \E s \in Syntheses : s \in Existing(p) /\ c \in Links(p, s)
    BY LinksOfIs DEF ConIds
  <1>3. \A a : a \in AtmIds(p) <=> \E c \in ConIds(p) : c \in Existing(p) /\ a \in Links(p, c)
    BY LinksOfIs DEF AtmIds
  <1>4. \A x : x \in CtxIds(p) <=> \E a \in AtmIds(p) : a \in Existing(p) /\ x \in Links(p, a)
    BY LinksOfIs DEF CtxIds
  <1>5. ASSUME reached \subseteq Existing(p), bare = {} PROVE Intact(p)
    BY <1>2, <1>3, <1>4, <1>5 DEF Intact
  <1>6. ASSUME Intact(p) PROVE reached \subseteq Existing(p) /\ bare = {}
    <2>1. \A c \in ConIds(p) : c \in Existing(p) /\ Links(p, c) # {}
      BY <1>2, <1>6 DEF Intact
    <2>2. \A a \in AtmIds(p) : a \in Existing(p) /\ Links(p, a) \subseteq Existing(p)
      BY <1>2, <1>3, <1>6 DEF Intact
    <2>3. CtxIds(p) \subseteq Existing(p)
      BY <1>4, <2>2
    <2> QED
      BY <2>1, <2>2, <2>3
  <1> QED
    BY <1>1, <1>5, <1>6

(* Node n is missing and was reached from above.                           *)
LEMMA TargetedWalk ==
  ASSUME NEW p, Vault(p)
  PROVE  UNION {ModeB(p, s) : s \in Syntheses \cap Existing(p)} = {g \in ModeA(p) : g.why = "missing"}
  <1> DEFINE walked == UNION {ModeB(p, s) : s \in Syntheses \cap Existing(p)}
             reached == ConIds(p) \cup AtmIds(p) \cup CtxIds(p)
  <1>1. {g \in ModeA(p) : g.why = "missing"} = Gaps(reached \ Existing(p), "missing")
    <2> DEFINE bare == {c \in ConIds(p) \cap Existing(p) : Links(p, c) = {}}
    <2>1. ModeA(p) = Gaps(reached \ Existing(p), "missing") \cup Gaps(bare, "empty")
      BY WalkIs
    <2> HIDE DEF reached, bare
    <2>2. \A g \in Gaps(reached \ Existing(p), "missing") : g.why = "missing"
      BY GapsAre
    <2>3. \A g \in Gaps(bare, "empty") : g.why # "missing"
      BY GapsAre
    <2> QED
      BY <2>1, <2>2, <2>3
  <1>2. ASSUME NEW s \in Syntheses \cap Existing(p) PROVE ModeB(p, s) = UpSynthesis(p, s)
    BY LayersAssumption DEF ModeB
  <1>3. \A c : c \in ConIds(p) <=> \E s \in Syntheses : s \in Existing(p) /\ c \in Links(p, s)
    BY LinksOfIs DEF ConIds
  <1>4. \A a : a \in AtmIds(p) <=> \E c \in ConIds(p) : c \in Existing(p) /\ a \in Links(p, c)
    BY LinksOfIs DEF AtmIds
  <1>5. \A x : x \in CtxIds(p) <=> \E a \in AtmIds(p) : a \in Existing(p) /\ x \in Links(p, a)
    BY LinksOfIs DEF CtxIds
  <1>6. walked \subseteq Gaps(reached \ Existing(p), "missing")
    <2> SUFFICES ASSUME NEW s \in Syntheses \cap Existing(p), NEW g \in UpSynthesis(p, s)
                 PROVE  g \in Gaps(reached \ Existing(p), "missing")
      BY <1>2
    <2>1. CASE g \in Gaps(Links(p, s) \ Existing(p), "missing")
      <3>1. g.node \in Links(p, s) \ Existing(p) /\ g = [node |-> g.node, why |-> "missing"]
        BY <2>1, GapsAre
      <3>2. g.node \in reached \ Existing(p)
        BY <1>3, <3>1
      <3> HIDE DEF reached
      <3> QED
        BY <3>1, <3>2, GapsAre
    <2>2. ASSUME NEW c \in Links(p, s) \cap Existing(p), g \in Gaps(Links(p, c) \ Existing(p), "missing")
          PROVE  g \in Gaps(reached \ Existing(p), "missing")
      <3>1. g.node \in Links(p, c) \ Existing(p) /\ g = [node |-> g.node, why |-> "missing"]
        BY <2>2, GapsAre
      <3>2. g.node \in reached \ Existing(p)
        BY <1>3, <1>4, <3>1
      <3> HIDE DEF reached
      <3> QED
        BY <3>1, <3>2, GapsAre
    <2>3. ASSUME NEW c \in Links(p, s) \cap Existing(p), NEW a \in Links(p, c) \cap Existing(p),
                 g \in UpAtom(p, a)
          PROVE  g \in Gaps(reached \ Existing(p), "missing")
      <3>1. g.node \in Links(p, a) \ Existing(p) /\ g = [node |-> g.node, why |-> "missing"]
        BY <2>3, GapsAre DEF UpAtom
      <3>2. g.node \in reached \ Existing(p)
        BY <1>3, <1>4, <1>5, <3>1
      <3> HIDE DEF reached
      <3> QED
        BY <3>1, <3>2, GapsAre
    <2>4. \/ g \in Gaps(Links(p, s) \ Existing(p), "missing")
          \/ \E c \in Links(p, s) \cap Existing(p) : g \in UpConcept(p, c)
      BY DEF UpSynthesis
    <2>5. ASSUME NEW c \in Links(p, s) \cap Existing(p), g \in UpConcept(p, c)
          PROVE  g \in Gaps(reached \ Existing(p), "missing")
      <3>1. \/ g \in Gaps(Links(p, c) \ Existing(p), "missing")
            \/ \E a \in Links(p, c) \cap Existing(p) : g \in UpAtom(p, a)
        BY <2>5 DEF UpConcept
      <3> HIDE DEF reached
      <3> QED
        BY <3>1, <2>2, <2>3
    <2> HIDE DEF reached
    <2> QED
      BY <2>1, <2>4, <2>5
  <1>7. Gaps(reached \ Existing(p), "missing") \subseteq walked
    <2> SUFFICES ASSUME NEW g \in Gaps(reached \ Existing(p), "missing") PROVE g \in walked
      OBVIOUS
    <2>1. g.node \in reached \ Existing(p) /\ g = [node |-> g.node, why |-> "missing"]
      <3> HIDE DEF reached
      <3> QED
        BY GapsAre
    <2>2. \A ns : g.node \in ns => g \in Gaps(ns, "missing")
      BY <2>1, GapsAre
    <2>3. CASE g.node \in ConIds(p)
      <3>1. PICK s \in Syntheses : s \in Existing(p) /\ g.node \in Links(p, s)
        BY <1>3, <2>3
      <3>2. g \in UpSynthesis(p, s)
        BY <2>1, <2>2, <3>1 DEF UpSynthesis
      <3> QED
        BY <1>2, <3>1, <3>2
    <2>4. CASE g.node \in AtmIds(p)
      <3>1. PICK c \in ConIds(p) : c \in Existing(p) /\ g.node \in Links(p, c)
        BY <1>4, <2>4
      <3>2. PICK s \in Syntheses : s \in Existing(p) /\ c \in Links(p, s)
        BY <1>3
      <3>3. g \in UpConcept(p, c)
        BY <2>1, <2>2, <3>1 DEF UpConcept
      <3>4. g \in UpSynthesis(p, s)
        BY <3>1, <3>2, <3>3 DEF UpSynthesis
      <3> QED
        BY <1>2, <3>2, <3>4
    <2>5. CASE g.node \in CtxIds(p)
      <3>1. PICK a \in AtmIds(p) : a \in Existing(p) /\ g.node \in Links(p, a)
        BY <1>5, <2>5
      <3>2. PICK c \in ConIds(p) : c \in Existing(p) /\ a \in Links(p, c)
        BY <1>4
      <3>3. PICK s \in Syntheses : s \in Existing(p) /\ c \in Links(p, s)
        BY <1>3
      <3>4. g \in UpAtom(p, a)
        BY <2>1, <2>2, <3>1 DEF UpAtom
      <3>5. g \in UpConcept(p, c)
        BY <3>1, <3>2, <3>4 DEF UpConcept
      <3>6. g \in UpSynthesis(p, s)
        BY <3>2, <3>3, <3>5 DEF UpSynthesis
      <3> QED
        BY <1>2, <3>3, <3>6
    <2> QED
      BY <2>1, <2>3, <2>4, <2>5
  <1> QED
    BY <1>1, <1>6, <1>7

(* The scope of a changed page holds every Concept and Synthesis that      *)
(* rests on it.                                                            *)
LEMMA ScopeCovers ==
  ASSUME NEW p, Vault(p), NEW n \in Nodes, NEW m \in (Concepts \cup Syntheses) \cap Existing(p),
         DependsOn(p, m, n)
  PROVE  m \in LogicalScope(p, n)
  <1>1. /\ \A k \in Existing(p) : /\ Links(p, k) \subseteq Nodes
                                  /\ k \in Contexts => Links(p, k) = {}
                                  /\ k \in Atoms => Links(p, k) \subseteq Contexts
                                  /\ k \in Concepts => Links(p, k) \subseteq Atoms
                                  /\ k \in Syntheses => Links(p, k) \subseteq Concepts
    BY LinksUp
  <1>2. \A c \in Concepts : c \in Existing(p) => c \in ConceptScope(p, c)
    BY DEF ConceptScope
  <1>3. \A c, s : s \in Syntheses \cap Existing(p) /\ c \in Links(p, s) => s \in ConceptScope(p, c)
    BY DEF ConceptScope, Downstream
  <1>4. \A a, c : c \in Concepts \cap Existing(p) /\ a \in Links(p, c) => ConceptScope(p, c) \subseteq AtomScope(p, a)
    BY DEF AtomScope, Downstream
  <1>5. n \in Syntheses => LogicalScope(p, n) = {n} \cap Existing(p)
    BY LayersAssumption DEF LogicalScope
  <1>6. n \in Concepts => LogicalScope(p, n) = ConceptScope(p, n)
    BY LayersAssumption DEF LogicalScope
  <1>7. n \in Atoms => LogicalScope(p, n) = AtomScope(p, n)
    BY LayersAssumption DEF LogicalScope
  <1>8. n \in Contexts => \A a \in Atoms \cap Existing(p) :
           n \in Links(p, a) => AtomScope(p, a) \subseteq LogicalScope(p, n)
    BY LayersAssumption DEF LogicalScope, Downstream
  <1>9. CASE m = n
    BY <1>2, <1>5, <1>6, <1>9
  <1>10. CASE n \in Links(p, m)
    BY <1>1, <1>2, <1>3, <1>4, <1>6, <1>7, <1>10
  <1>11. ASSUME NEW k \in Links(p, m) \cap Existing(p), n \in Links(p, k) PROVE m \in LogicalScope(p, n)
    <2>1. CASE m \in Concepts
      BY <2>1, <1>1, <1>2, <1>4, <1>8, <1>11
    <2>2. CASE m \in Syntheses
      BY <2>2, <1>1, <1>3, <1>4, <1>7, <1>11
    <2> QED
      BY <2>1, <2>2
  <1>12. ASSUME NEW k \in Links(p, m) \cap Existing(p), NEW j \in Links(p, k) \cap Existing(p), n \in Links(p, j)
         PROVE  m \in LogicalScope(p, n)
    <2>1. m \in Syntheses /\ k \in Concepts /\ j \in Atoms /\ n \in Contexts
      BY <1>1, <1>12
    <2>2. m \in ConceptScope(p, k) /\ ConceptScope(p, k) \subseteq AtomScope(p, j)
      BY <2>1, <1>3, <1>4, <1>12
    <2> QED
      BY <2>1, <2>2, <1>8, <1>12
  <1> QED
    BY <1>9, <1>10, <1>11, <1>12 DEF DependsOn

-----------------------------------------------------------------------------
(* Repair *)

LEMMA GapIs ==
  ASSUME NEW p, Vault(p), NEW c
  PROVE  [node |-> c, why |-> "empty"] \in ModeA(p) <=>
             c \in ConIds(p) /\ c \in Existing(p) /\ Links(p, c) = {}
  <1> DEFINE reached == ConIds(p) \cup AtmIds(p) \cup CtxIds(p)
             bare == {k \in ConIds(p) \cap Existing(p) : Links(p, k) = {}}
             g == [node |-> c, why |-> "empty"]
  <1>1. ModeA(p) = Gaps(reached \ Existing(p), "missing") \cup Gaps(bare, "empty")
    BY WalkIs
  <1>2. g \in Gaps(bare, "empty") <=> c \in bare
    <2> HIDE DEF bare
    <2> QED
      BY GapsAre
  <1>3. g \notin Gaps(reached \ Existing(p), "missing")
    <2> HIDE DEF reached
    <2> QED
      BY GapsAre
  <1> QED
    BY <1>1, <1>2, <1>3

(* A repair leaves a vault of the same pages; only the Relations of the    *)
(* repaired Concepts change, by one section at their end.                  *)
LEMMA RepairedIs ==
  ASSUME NEW p, Vault(p), NEW gaps
  PROVE  /\ Vault(Repaired(p, gaps))
         /\ Existing(Repaired(p, gaps)) = Existing(p)
         /\ \A n \in Nodes \ Repairable(p, gaps) : Repaired(p, gaps)[n] = p[n]
         /\ \A c \in Repairable(p, gaps) :
               /\ c \in Concepts \cap Existing(p)
               /\ RepairAtoms(p, c) # {} /\ RepairAtoms(p, c) \subseteq Atoms \cap Existing(p)
               /\ Repaired(p, gaps)[c].relations = Append(p[c].relations, RepairAtoms(p, c))
  <1> DEFINE q == Repaired(p, gaps)
  <1>1. ASSUME NEW c \in Repairable(p, gaps)
        PROVE  /\ c \in Concepts \cap Existing(p) /\ c \in Nodes
               /\ RepairAtoms(p, c) # {} /\ RepairAtoms(p, c) \subseteq Atoms \cap Existing(p)
    <2>1. c \in Concepts \cap Existing(p) /\ c \in Nodes /\ RepairAtoms(p, c) # {}
      BY DEF Repairable, Nodes
    <2>2. p[c].mentions \subseteq Atoms /\ p[c].relations \in Seq(SUBSET Atoms)
      BY <2>1, PageIs
    <2>3. ToSet(p[c].relations) \subseteq SUBSET Atoms
      BY <2>2 DEF ToSet
    <2>4. BodyAtoms(p, c) \subseteq Atoms
      BY <2>2, <2>3 DEF BodyAtoms
    <2> QED
      BY <2>1, <2>4 DEF RepairAtoms
  <1>2. ASSUME NEW c \in Repairable(p, gaps)
        PROVE  /\ q[c] \in Content /\ q[c] \in Pages(c) /\ q[c].relations = Append(p[c].relations, RepairAtoms(p, c))
    <2>1. p[c] \in Content /\ p[c] \in Pages(c)
      BY <1>1, PageIs DEF Vault
    <2>2. q[c] = [p[c] EXCEPT !.relations = Append(p[c].relations, RepairAtoms(p, c))]
      BY <1>1 DEF Repaired
    <2>3. RepairAtoms(p, c) \in SUBSET Atoms
      BY <1>1
    <2> HIDE DEF q
    <2>4. p[c].relations \in Seq(SUBSET Atoms)
      BY <2>1 DEF Content
    <2>5. Append(p[c].relations, RepairAtoms(p, c)) \in Seq(SUBSET Atoms)
      BY <2>3, <2>4
    <2>6. q[c] \in Content /\ q[c].refs = p[c].refs
          /\ q[c].relations = Append(p[c].relations, RepairAtoms(p, c))
      BY <2>1, <2>2, <2>5 DEF Content
    <2>7. q[c] \in Pages(c)
      BY <2>1, <2>6, PagesAssumption DEF Pages
    <2> QED
      BY <2>6, <2>7
  <1>3. \A n \in Nodes \ Repairable(p, gaps) : q[n] = p[n]
    BY DEF Repaired
  <1>4. \A n \in Nodes : q[n] # NoPage <=> p[n] # NoPage
    <2>1. \A c \in Repairable(p, gaps) : q[c] # NoPage /\ p[c] # NoPage
      BY <1>1, <1>2, PagesAssumption DEF Existing
    <2> HIDE DEF q
    <2> QED
      BY <1>3, <2>1
  <1>5. Existing(q) = Existing(p)
    <2> HIDE DEF q
    <2> QED
      BY <1>4 DEF Existing
  <1>6. Vault(q)
    <2>1. \A n \in Nodes : q[n] \in Content \cup {NoPage} /\ q[n] \in Pages(n)
      <3> HIDE DEF q
      <3> QED
        BY <1>2, <1>3 DEF Vault
    <2>2. q = [n \in Nodes |-> q[n]]
      BY DEF Repaired
    <2> HIDE DEF q
    <2> QED
      BY <2>1, <2>2 DEF Vault
  <1> QED
    BY <1>1, <1>2, <1>3, <1>5, <1>6

(* What a repaired Concept links afterwards: the new section, unless an    *)
(* empty one stands before it.                                             *)
LEMMA RepairedLinks ==
  ASSUME NEW p, Vault(p)
  PROVE  LET q == Repaired(p, ModeA(p))
         IN  /\ \A n \in Existing(p) \ Repairable(p, ModeA(p)) : Links(q, n) = Links(p, n)
             /\ \A c \in Repairable(p, ModeA(p)) :
                   /\ Links(p, c) = {} /\ c \in ConIds(p)
                   /\ Links(q, c) = IF p[c].relations = <<>> THEN RepairAtoms(p, c) ELSE {}
             /\ ConIds(q) = ConIds(p)
  <1> DEFINE q == Repaired(p, ModeA(p))
             R == Repairable(p, ModeA(p))
  <1>1. ASSUME NEW n \in Existing(p) \ R PROVE Links(q, n) = Links(p, n)
    <2>1. q[n] = p[n]
      BY RepairedIs DEF Existing
    <2> QED
      BY <2>1 DEF Links
  <1>2. ASSUME NEW c \in R
        PROVE  /\ Links(p, c) = {} /\ c \in ConIds(p)
               /\ Links(q, c) = IF p[c].relations = <<>> THEN RepairAtoms(p, c) ELSE {}
    <2>1. Links(p, c) = {} /\ c \in ConIds(p) /\ c \in Concepts /\ c \in Existing(p) /\ c \in Nodes
      BY GapIs DEF Repairable, Nodes
    <2>2. p[c].relations \in Seq(SUBSET Atoms)
      BY <2>1, PageIs
    <2>3. RepairAtoms(p, c) \in SUBSET Atoms /\ q[c].relations = Append(p[c].relations, RepairAtoms(p, c))
      BY RepairedIs
    <2>4. Links(p, c) = IF p[c].relations = <<>> THEN {} ELSE Head(p[c].relations)
      BY <2>1 DEF Links
    <2>5. Links(q, c) = IF q[c].relations = <<>> THEN {} ELSE Head(q[c].relations)
      BY <2>1 DEF Links
    <2> DEFINE r == p[c].relations
               x == RepairAtoms(p, c)
    <2>6. q[c].relations # <<>> /\ Head(q[c].relations) = IF r = <<>> THEN x ELSE Head(r)
      <3>1. r \in Seq(SUBSET Atoms) /\ x \in SUBSET Atoms /\ q[c].relations = Append(r, x)
        BY <2>2, <2>3
      <3> HIDE DEF r, x, q
      <3>2. Append(r, x) # <<>> /\ Head(Append(r, x)) = IF r = <<>> THEN x ELSE Head(r)
        BY <3>1
      <3> QED
        BY <3>1, <3>2
    <2> QED
      BY <2>1, <2>4, <2>5, <2>6
  <1>3. ConIds(q) = ConIds(p)
    <2>1. Existing(q) = Existing(p)
      BY RepairedIs
    <2>2. \A s \in Syntheses : s \notin R
      BY LayersAssumption DEF Repairable
    <2>3. \A s \in Syntheses : s \in Existing(p) => Links(q, s) = Links(p, s)
      BY <1>1, <2>2
    <2> HIDE DEF q
    <2> QED
      BY <2>1, <2>3, LinksOfIs DEF ConIds
  <1> QED
    BY <1>1, <1>2, <1>3

LEMMA RepairBreaks ==
  ASSUME NEW p, Vault(p), NEW g \in ModeA(Repaired(p, ModeA(p))) \ ModeA(p)
  PROVE  g.node \in Contexts
  <1> DEFINE q == Repaired(p, ModeA(p))
             R == Repairable(p, ModeA(p))
             reached(v) == ConIds(v) \cup AtmIds(v) \cup CtxIds(v)
             bare(v) == {k \in ConIds(v) \cap Existing(v) : Links(v, k) = {}}
  <1>1. Vault(q) /\ Existing(q) = Existing(p) /\ ConIds(q) = ConIds(p)
    BY RepairedIs, RepairedLinks
  <1>2. bare(q) \subseteq bare(p)
    <2>1. \A k \in ConIds(p) \cap Existing(p) : Links(q, k) = {} => Links(p, k) = {}
      BY RepairedLinks
    <2> HIDE DEF q
    <2> QED
      BY <1>1, <2>1
  <1>3. AtmIds(q) \subseteq AtmIds(p) \cup Existing(p)
    <2>1. \A c \in Existing(p) : Links(q, c) \subseteq Links(p, c) \cup Existing(p)
      BY RepairedLinks, RepairedIs
    <2>2. \A a : a \in AtmIds(q) => \E c \in ConIds(p) : c \in Existing(p) /\ a \in Links(q, c)
      BY <1>1, LinksOfIs DEF AtmIds
    <2>3. \A a, c : c \in ConIds(p) /\ c \in Existing(p) /\ a \in Links(p, c) => a \in AtmIds(p)
      BY LinksOfIs DEF AtmIds
    <2> HIDE DEF q
    <2> QED
      BY <2>1, <2>2, <2>3
  <1>4. ModeA(q) = Gaps(reached(q) \ Existing(q), "missing") \cup Gaps(bare(q), "empty")
    BY <1>1, WalkIs
  <1>5. ModeA(p) = Gaps(reached(p) \ Existing(p), "missing") \cup Gaps(bare(p), "empty")
    BY WalkIs
  <1>6. \A ns, ms, why : ns \subseteq ms => Gaps(ns, why) \subseteq Gaps(ms, why)
    BY DEF Gaps
  <1>7. g \in Gaps(reached(q) \ Existing(q), "missing") /\ g \notin Gaps(reached(p) \ Existing(p), "missing")
    <2>1. Gaps(bare(q), "empty") \subseteq Gaps(bare(p), "empty")
      <3> HIDE DEF bare
      <3> QED
        BY <1>2, <1>6
    <2> HIDE DEF bare, reached, q
    <2>2. g \in ModeA(q) /\ g \notin ModeA(p)
      BY DEF q
    <2> QED
      BY <1>4, <1>5, <2>1, <2>2
  <1>8. g.node \in reached(q) \ Existing(q) /\ g.node \notin reached(p) \ Existing(p)
    <2> HIDE DEF reached, q
    <2>1. g.node \in reached(q) \ Existing(q) /\ g = [node |-> g.node, why |-> "missing"]
      BY <1>7, GapsAre
    <2> QED
      BY <1>7, <2>1, GapsAre
  <1>9. g.node \in CtxIds(q)
    <2> HIDE DEF q
    <2> QED
      BY <1>1, <1>3, <1>8
  <1> QED
    BY <1>1, <1>9, WalkIs

LEMMA RepairEnds ==
  ASSUME NEW p, Vault(p),
         NEW c \in Repairable(Repaired(p, ModeA(p)), ModeA(Repaired(p, ModeA(p))))
  PROVE  p[c].relations # <<>>
  <1> DEFINE q == Repaired(p, ModeA(p))
             R == Repairable(p, ModeA(p))
  <1>1. Vault(q) /\ Existing(q) = Existing(p) /\ ConIds(q) = ConIds(p)
    BY RepairedIs, RepairedLinks
  <1>2. /\ c \in Concepts /\ c \in Existing(q) /\ RepairAtoms(q, c) # {}
        /\ [node |-> c, why |-> "empty"] \in ModeA(q)
    BY DEF Repairable
  <1>3. c \in ConIds(q) /\ Links(q, c) = {}
    <2> HIDE DEF q
    <2> QED
      BY <1>1, <1>2, GapIs
  <1>4. CASE c \in R
    <2>1. Links(q, c) = IF p[c].relations = <<>> THEN RepairAtoms(p, c) ELSE {}
      BY <1>4, RepairedLinks
    <2>2. RepairAtoms(p, c) # {}
      BY <1>4, RepairedIs
    <2> HIDE DEF q, R
    <2> QED
      BY <2>1, <2>2, <1>3
  <1>5. CASE c \notin R
    <2>1. c \in Nodes /\ c \in Existing(p)
      BY <1>1, <1>2 DEF Existing
    <2>2. q[c] = p[c] /\ Links(q, c) = Links(p, c)
      BY <1>5, <2>1, RepairedIs, RepairedLinks
    <2>3. RepairAtoms(q, c) = RepairAtoms(p, c)
      BY <1>1, <2>2 DEF RepairAtoms, BodyAtoms
    <2>4. [node |-> c, why |-> "empty"] \in ModeA(p)
      <3> HIDE DEF q, R
      <3> QED
        BY <1>1, <1>3, <2>1, <2>2, GapIs
    <2>5. c \in R
      BY <1>2, <2>1, <2>3, <2>4 DEF Repairable
    <2> QED
      BY <1>5, <2>5
  <1> QED
    BY <1>4, <1>5

-----------------------------------------------------------------------------
(* The invariant: what the pages, the tables and the running sync hold.    *)

GapsOf == SUBSET [node : Nodes, why : {"missing", "empty", "logic"}]

Syncs == [pc : {"idle", "verify", "repair", "reverify", "logic", "mark", "record"},
          mode : Modes \cup {"none"}, fix : BOOLEAN, dry : BOOLEAN, llm : BOOLEAN, deep : BOOLEAN,
          node : Named \cup {NoPage}, dirty : SUBSET Nodes, before : SUBSET Nodes,
          gaps : GapsOf, logic : GapsOf]

Statuses == [l2 : {"done"}, l3 : {"done", "skipped", "pending", "error"},
             l4 : {"done", "skipped", "pending", "error"}, error : {"none", "gap"}]

\* an error of L3 or L4 keeps its reason
Explained(st) == \A s \in Sources : "error" \in {st[s].l3, st[s].l4} => st[s].error = "gap"

SyncInv == /\ Vault(page)
           /\ hash \in [Nodes -> Content \cup {NoPage}]
           /\ status \in [Sources -> Statuses] /\ Explained(status)
           /\ sync \in Syncs
           /\ owed \subseteq Existing(page)

LEMMA GapsKept ==
  ASSUME NEW ns \in SUBSET Nodes, NEW why \in {"missing", "empty", "logic"}
  PROVE  Gaps(ns, why) \in GapsOf
  BY DEF Gaps, GapsOf

LEMMA VerificationIs ==
  ASSUME Vault(page), sync \in Syncs
  PROVE  Verification \in GapsOf
  <1>1. ModeA(page) \in GapsOf
    <2> DEFINE reached == ConIds(page) \cup AtmIds(page) \cup CtxIds(page)
               bare == {c \in ConIds(page) \cap Existing(page) : Links(page, c) = {}}
    <2>1. reached \subseteq Nodes /\ bare \subseteq Nodes
      BY WalkIs DEF Nodes
    <2>2. ModeA(page) = Gaps(reached \ Existing(page), "missing") \cup Gaps(bare, "empty")
      BY WalkIs
    <2> HIDE DEF reached, bare
    <2>3. Gaps(reached \ Existing(page), "missing") \in GapsOf /\ Gaps(bare, "empty") \in GapsOf
      BY <2>1, GapsKept
    <2> QED
      BY <2>2, <2>3 DEF GapsOf
  <1>2. \A n \in Existing(page) : Gaps(Links(page, n) \ Existing(page), "missing") \in GapsOf
    BY LinksUp, GapsKept
  <1>3. \A n \in Existing(page) : UpAtom(page, n) \in GapsOf
    BY <1>2 DEF UpAtom
  <1>4. \A n \in Existing(page) : UpConcept(page, n) \in GapsOf
    BY <1>2, <1>3 DEF UpConcept, GapsOf
  <1>5. \A n \in Existing(page) : UpSynthesis(page, n) \in GapsOf
    BY <1>2, <1>4 DEF UpSynthesis, GapsOf
  <1>6. ASSUME NEW n \in Nodes PROVE ModeB(page, n) \in GapsOf
    <2>1. Gaps({n}, "missing") \in GapsOf /\ {} \in GapsOf
      BY GapsKept DEF GapsOf
    <2>2. n \notin Existing(page) => ModeB(page, n) = Gaps({n}, "missing")
      BY DEF ModeB
    <2>3. n \in Existing(page) =>
            /\ n \in Contexts => ModeB(page, n) = {}
            /\ n \in Atoms => ModeB(page, n) = UpAtom(page, n)
            /\ n \in Concepts => ModeB(page, n) = UpConcept(page, n)
            /\ n \in Syntheses => ModeB(page, n) = UpSynthesis(page, n)
      BY LayersAssumption DEF ModeB
    <2> QED
      BY <2>1, <2>2, <2>3, <1>3, <1>4, <1>5 DEF Nodes
  <1>7. sync.node = NoPage \/ sync.node \in Nodes
    BY PagesAssumption DEF Syncs
  <1> QED
    BY <1>1, <1>6, <1>7 DEF Verification

LEMMA SetLayerIs ==
  ASSUME NEW st \in [Sources -> Statuses], NEW ss \in SUBSET Sources, NEW layer \in {"l3", "l4"},
         NEW to \in {"done", "skipped", "pending", "error"}, NEW error \in {"none", "gap", "keep"}
  PROVE  /\ SetLayer(st, ss, layer, to, error) \in [Sources -> Statuses]
         /\ \A s \in Sources \ ss : SetLayer(st, ss, layer, to, error)[s] = st[s]
         /\ \A s \in ss :
               LET r == SetLayer(st, ss, layer, to, error)[s]
               IN  /\ r.error = IF error = "keep" THEN st[s].error ELSE error
                   /\ layer = "l3" => r.l3 = to /\ r.l4 = st[s].l4
                   /\ layer = "l4" => r.l4 = to /\ r.l3 = st[s].l3
  <1>1. CASE layer = "l3"
    BY <1>1 DEF SetLayer, Statuses
  <1>2. CASE layer = "l4"
    BY ZenonT(60), <1>2 DEF SetLayer, Statuses
  <1> QED
    BY <1>1, <1>2

(* Whatever the gaps, a source put in error says why.                      *)
LEMMA MarkedIs ==
  ASSUME status \in [Sources -> Statuses], Explained(status), NEW gaps
  PROVE  MarkGaps(gaps) \in [Sources -> Statuses] /\ Explained(MarkGaps(gaps))
  <1> DEFINE l3 == \E g \in gaps : g.node \in Concepts
             l4 == \E g \in gaps : g.node \in Syntheses
             done2 == {s \in Sources : status[s].l2 = "done"}
             stA == SetLayer(status, done2, "l3", "error", "gap")
             stB == SetLayer(stA, done2, "l4", "pending", "keep")
             st1 == IF l3 THEN stB ELSE status
             done3 == {s \in Sources : st1[s].l3 = "done"}
             st2 == SetLayer(st1, done3, "l4", "error", "gap")
  <1>1. done2 = Sources
    BY DEF Statuses
  <1>2. /\ stA \in [Sources -> Statuses]
        /\ \A s \in Sources : stA[s].error = "gap"
    <2> HIDE DEF done2
    <2> QED
      BY <1>1, SetLayerIs
  <1>3. /\ stB \in [Sources -> Statuses]
        /\ \A s \in Sources : stB[s].error = "gap"
    <2> HIDE DEF done2, stA
    <2>1. stB \in [Sources -> Statuses]
      BY <1>1, <1>2, SetLayerIs
    <2>2. \A s \in done2 : stB[s].error = IF "keep" = "keep" THEN stA[s].error ELSE "keep"
      BY <1>1, <1>2, SetLayerIs
    <2> QED
      BY <1>1, <1>2, <2>1, <2>2
  <1>4. st1 \in [Sources -> Statuses] /\ Explained(st1)
    <2> HIDE DEF stB, l3
    <2> QED
      BY <1>3 DEF Explained
  <1>5. st2 \in [Sources -> Statuses] /\ Explained(st2)
    <2>1. done3 \in SUBSET Sources
      OBVIOUS
    <2> HIDE DEF st1, done3
    <2>2. /\ st2 \in [Sources -> Statuses]
          /\ \A s \in Sources \ done3 : st2[s] = st1[s]
          /\ \A s \in done3 : st2[s].error = "gap"
      BY <1>4, <2>1, SetLayerIs
    <2> QED
      BY <1>4, <2>2 DEF Explained
  <1>6. MarkGaps(gaps) = IF l4 THEN st2 ELSE st1
    BY DEF MarkGaps
  <1> HIDE DEF l4, st1, st2
  <1> QED
    BY <1>4, <1>5, <1>6

LEMMA CleanIs ==
  ASSUME status \in [Sources -> Statuses], Explained(status)
  PROVE  MarkClean \in [Sources -> Statuses] /\ Explained(MarkClean)
  BY DEF MarkClean, Statuses, Explained

LEMMA Starts == Init => SyncInv
  <1> SUFFICES ASSUME Init PROVE SyncInv
    OBVIOUS
  <1>1. Vault(page) /\ hash \in [Nodes -> Content \cup {NoPage}]
    BY PagesAssumption DEF Init, Vault
  <1>2. status \in [Sources -> Statuses] /\ Explained(status)
    BY DEF Init, Statuses, Explained
  <1>3. sync \in Syncs /\ owed \subseteq Existing(page)
    BY DEF Init, NoSync, Syncs, GapsOf
  <1> QED
    BY <1>1, <1>2, <1>3 DEF SyncInv

LEMMA Keeps == SyncInv /\ [Next]_vars => SyncInv'
  <1> USE DEF SyncInv
  <1> SUFFICES ASSUME SyncInv, [Next]_vars PROVE SyncInv'
    OBVIOUS
  <1>1. ASSUME NEW n \in Nodes, Edit(n) PROVE SyncInv'
    <2>1. PICK draft \in Drafts[n] \ {page[n]} :
            /\ page' = [page EXCEPT ![n] = draft]
            /\ owed' = IF draft = NoPage THEN owed \ {n} ELSE owed \cup {n}
      BY <1>1 DEF Edit
    <2>2. draft \in Pages(n) /\ draft \in Content \cup {NoPage}
      BY PagesAssumption DEF Pages
    <2>3. page'[n] = draft /\ \A m \in Nodes \ {n} : page'[m] = page[m]
      BY <2>1 DEF Vault
    <2>4. Vault(page)'
      BY <2>1, <2>2, <2>3 DEF Vault
    <2>5. (owed \subseteq Existing(page))'
      BY <2>1, <2>3 DEF Existing
    <2> QED
      BY <1>1, <2>4, <2>5 DEF Edit
  <1>2. ASSUME NEW mode \in Modes, NEW fix \in BOOLEAN, NEW dry \in BOOLEAN, NEW llm \in BOOLEAN,
               NEW deep \in BOOLEAN, NEW node \in Named \cup {NoPage}, Start(mode, fix, dry, llm, deep, node)
        PROVE  SyncInv'
    <2>1. Dirty \subseteq Nodes /\ owed \subseteq Nodes
      BY DEF Dirty, Existing
    <2>2. sync' \in Syncs
      BY <1>2, <2>1 DEF Start, Syncs, GapsOf
    <2> QED
      BY <1>2, <2>2 DEF Start
  <1>3. CASE Verify
    <2>1. sync' \in Syncs
      BY <1>3, VerificationIs DEF Verify, Syncs
    <2> QED
      BY <1>3, <2>1 DEF Verify
  <1>4. CASE Repair
    <2>1. Vault(page)' /\ Existing(page)' = Existing(page)
      BY <1>4, RepairedIs DEF Repair
    <2>2. sync' \in Syncs
      BY <1>4 DEF Repair, Syncs
    <2> QED
      BY <1>4, <2>1, <2>2 DEF Repair
  <1>5. CASE Reverify
    <2>1. sync' \in Syncs
      BY <1>5, VerificationIs DEF Reverify, Syncs
    <2> QED
      BY <1>5, <2>1 DEF Reverify
  <1>6. ASSUME NEW blocked, NEW bad \in SUBSET (Concepts \cup Syntheses), ModeC(blocked, bad) PROVE SyncInv'
    <2>1. Gaps(bad, "logic") \in GapsOf
      BY GapsKept DEF Nodes
    <2>2. sync' \in Syncs
      BY <1>6, <2>1 DEF ModeC, Syncs
    <2>3. owed' \subseteq owed
      BY <1>6 DEF ModeC
    <2> QED
      BY <1>6, <2>2, <2>3 DEF ModeC
  <1>7. CASE SkipModeC
    <2>1. sync' \in Syncs
      BY <1>7 DEF SkipModeC, Syncs
    <2> QED
      BY <1>7, <2>1 DEF SkipModeC
  <1>8. ASSUME NEW issues \in BOOLEAN, Mark(issues) PROVE SyncInv'
    <2>1. status' \in [Sources -> Statuses] /\ Explained(status')
      BY <1>8, MarkedIs, CleanIs DEF Mark
    <2>2. sync' \in Syncs
      BY <1>8 DEF Mark, NoSync, Syncs, GapsOf
    <2> QED
      BY <1>8, <2>1, <2>2 DEF Mark
  <1>9. CASE Record
    <2>1. sync' \in Syncs
      BY <1>9 DEF Record, NoSync, Syncs, GapsOf
    <2> QED
      BY <1>9, <2>1 DEF Record, Vault
  <1>10. CASE Abort
    <2>1. sync' \in Syncs
      BY <1>10 DEF Abort, NoSync, Syncs, GapsOf
    <2> QED
      BY <1>10, <2>1 DEF Abort
  <1>11. CASE Recompile
    <2>1. status' \in [Sources -> Statuses] /\ Explained(status')
      BY ZenonT(60), <1>11 DEF Recompile, Statuses, Explained
    <2> QED
      BY <1>11, <2>1 DEF Recompile
  <1>12. CASE UNCHANGED vars
    BY <1>12 DEF vars
  <1> QED
    BY <1>1, <1>2, <1>3, <1>4, <1>5, <1>6, <1>7, <1>8, <1>9, <1>10, <1>11, <1>12 DEF Next

THEOREM AlwaysTidy == Spec => []SyncInv
  BY Starts, Keeps, PTL DEF Spec

-----------------------------------------------------------------------------
(* Theorems *)

(* `wiki sync` verifies the whole of what it is asked about: run_mode_a    *)
(* reports nothing exactly when no chain below a Synthesis breaks, the     *)
(* targeted walk names the same missing pages, and the scope of a changed  *)
(* page holds all that rests on it, whatever people do to the pages.       *)
THEOREM VerificationIsComplete == Spec => []VerifiesAll
  <1>1. SyncInv => VerifiesAll
    <2> SUFFICES ASSUME SyncInv PROVE VerifiesAll
      OBVIOUS
    <2>1. TypeOK
      <3>1. {g.node : g \in sync.gaps \cup sync.logic} \subseteq Nodes
        BY DEF SyncInv, Syncs, GapsOf
      <3>2. sync.dirty \cup sync.before \subseteq Nodes
        BY DEF SyncInv, Syncs
      <3>3. sync.pc \in {"idle", "verify", "repair", "reverify", "logic", "mark", "record"}
        BY DEF SyncInv, Syncs
      <3>4. \A s \in Sources : /\ {status[s].l3, status[s].l4} \subseteq {"done", "skipped", "pending", "error"}
                               /\ status[s].error \in {"none", "gap"}
        BY DEF SyncInv, Statuses
      <3> QED
        BY <3>1, <3>2, <3>3, <3>4 DEF TypeOK, SyncInv, Vault
    <2>2. Vault(page)
      BY DEF SyncInv
    <2>3. GlobalWalkComplete
      BY <2>2, GlobalWalk DEF GlobalWalkComplete
    <2>4. TargetedAgrees
      BY <2>2, TargetedWalk DEF TargetedAgrees
    <2>5. ScopeCoversDependents
      BY <2>2, ScopeCovers DEF ScopeCoversDependents
    <2> QED
      BY <2>1, <2>3, <2>4, <2>5 DEF VerifiesAll
  <1> QED
    BY <1>1, AlwaysTidy, PTL

(* A repair links nothing that has no page and settles every Concept that  *)
(* had no Relations section; a source never shows an error of L3 or L4     *)
(* whose reason a later sync or recompile wiped out.                       *)
THEOREM RepairsAreSound == Spec => []RepairsAndExplains
  <1>1. SyncInv => RepairsAndExplains
    <2> SUFFICES ASSUME SyncInv PROVE RepairsAndExplains
      OBVIOUS
    <2>1. Vault(page)
      BY DEF SyncInv
    <2>2. RepairBreaksNothing
      BY <2>1, RepairBreaks DEF RepairBreaksNothing
    <2>3. RepairSettles
      BY <2>1, RepairEnds DEF RepairSettles
    <2>4. ErrorsExplained
      BY DEF SyncInv, Explained, ErrorsExplained
    <2> QED
      BY <2>2, <2>3, <2>4 DEF RepairsAndExplains
  <1> QED
    BY <1>1, AlwaysTidy, PTL

(* A page that counts as changed stays so until it is edited again or a    *)
(* command records its hash: no report, dry run or kill forgets an edit.   *)
THEOREM EditsAreRemembered == Spec => OnlyRecordForgets
  <1>1. ASSUME [Next]_vars
        PROVE  [\A n \in owed \cap owed' :
                  n \in Dirty /\ page'[n] = page[n] /\ sync.pc /= "record" => n \in Dirty']_vars
    <2>1. sync.pc # "record" => hash' = hash
      BY ZenonT(60), <1>1
         DEF Next, vars, Edit, Start, Verify, Repair, Reverify, ModeC, SkipModeC, Mark, Record, Abort,
             Recompile
    <2>2. \A n : n \in Dirty /\ page'[n] = page[n] /\ hash' = hash => n \in Dirty'
      BY DEF Dirty, Existing
    <2> QED
      BY <2>1, <2>2
  <1> QED
    BY <1>1, PTL DEF Spec, OnlyRecordForgets

-----------------------------------------------------------------------------
(* Numbers *)

(* A number of a bounded set of numbers is the least.                       *)
LEMMA LeastOf ==
  ASSUME NEW top \in Nat, NEW S \in SUBSET (1..top), S # {}
  PROVE  \E n \in S : \A k \in S : n <= k
<1> DEFINE Bad == {X \in SUBSET (1..top) : X # {} /\ \A x \in X : \E y \in X : ~ (x <= y)}
<1>1. ASSUME Bad # {} PROVE FALSE
  <2>1. IsFiniteSet(1..top)
    BY FS_Interval
  <2>2. Bad \subseteq FiniteSubsetsOf(1..top)
    BY <2>1, FS_Subset DEF FiniteSubsetsOf
  <2>3. IsWellFoundedOn(StrictSubsetOrdering(1..top), FiniteSubsetsOf(1..top))
    BY FS_StrictSubsetOrderingWellFounded
  <2> HIDE DEF Bad
  <2>4. PICK X \in Bad : \A Y \in Bad : ~ (<<Y, X>> \in StrictSubsetOrdering(1..top))
    BY <1>1, <2>2, <2>3, WFMin
  <2> USE DEF Bad
  <2>5. X \in SUBSET (1..top) /\ X # {} /\ \A x \in X : \E y \in X : ~ (x <= y)
    OBVIOUS
  <2>6. PICK x \in X : TRUE
    BY <2>5
  <2>7. X \ {x} # {}
    BY <2>5, <2>6
  <2>8. X \ {x} \notin Bad
    BY <2>4, <2>5, <2>6 DEF StrictSubsetOrdering
  <2>9. PICK m \in X \ {x} : \A y \in X \ {x} : m <= y
    BY <2>5, <2>7, <2>8
  <2>10. PICK y \in X : ~ (m <= y)
    BY <2>5, <2>9
  <2>11. y = x /\ \A z \in X : z \in Int
    BY <2>5, <2>9, <2>10
  <2>12. \A z \in X : x <= z
    BY <2>9, <2>10, <2>11
  <2> QED
    BY <2>5, <2>6, <2>12
<1> QED
  BY <1>1

(* The modules count alike.                                                 *)
LEMMA CountsAgree ==
  ASSUME NEW S
  PROVE  Paths!Cardinality(S) = Cardinality(S) /\ Refs!Cardinality(S) = Cardinality(S) /\ Fix!Cardinality(S) = Cardinality(S)
BY DEF Cardinality, Paths!Cardinality, Refs!Cardinality, Fix!Cardinality


-----------------------------------------------------------------------------
(* Rows of one file *)

IsRow(r) == r = [file |-> r.file, spelling |-> r.spelling, hash |-> r.hash]

(* Every file with a row has one with the canonical spelling. *)
Spelled == \A i \in DOMAIN ids : \E j \in DOMAIN ids : ids[j].file = ids[i].file /\ ids[j].spelling = Canonical

PathInv ==
    /\ last \in Nat /\ DOMAIN ids \subseteq 1..last
    /\ ids = [i \in DOMAIN ids |-> ids[i]] /\ \A i \in DOMAIN ids : IsRow(ids[i])
    /\ \A p \in pages : p = [owner |-> p.owner, text |-> p.text]
    /\ Paths!NamesExist
    /\ opened \in BOOLEAN /\ (opened => Spelled)

-----------------------------------------------------------------------------
LEMMA LeastRow ==
  ASSUME PathInv, NEW S \in SUBSET DOMAIN ids, S # {}
  PROVE  Paths!Least(S) \in S /\ \A k \in S : Paths!Least(S) <= k
<1>1. last \in Nat /\ S \in SUBSET (1..last)
  BY DEF PathInv
<1>2. \E n \in S : \A k \in S : n <= k
  BY <1>1, LeastOf
<1> QED
  BY <1>2 DEF Paths!Least

LEMMA RowsAreFinite ==
  ASSUME PathInv, NEW f
  PROVE  IsFiniteSet(Paths!RowsOf(f)) /\ Paths!RowsOf(f) \subseteq DOMAIN ids
<1>1. IsFiniteSet(1..last) /\ Paths!RowsOf(f) \subseteq 1..last
  BY FS_Interval DEF PathInv, Paths!RowsOf
<1> QED
  BY <1>1, FS_Subset DEF Paths!RowsOf

(* The row that others are merged into is one of them, and stays. *)
LEMMA SurvivorIs ==
  ASSUME PathInv, NEW i \in DOMAIN ids
  PROVE  /\ Paths!Survivor(i) \in DOMAIN ids /\ ids[Paths!Survivor(i)].file = ids[i].file
         /\ Paths!Survivor(Paths!Survivor(i)) = Paths!Survivor(i)
<1>1. CASE ~Paths!Merges(ids[i].file)
  BY <1>1 DEF Paths!Survivor
<1>2. CASE Paths!Merges(ids[i].file)
  <2>1. PICK f : f = ids[i].file
    OBVIOUS
  <2>2. PICK S : S = Paths!RowsOf(f)
    OBVIOUS
  <2>3. S \in SUBSET DOMAIN ids /\ S # {}
    BY <2>1, <2>2 DEF Paths!RowsOf
  <2>4. Paths!Least(S) \in S
    BY <2>3, LeastRow
  <2>5. Paths!Survivor(i) = Paths!Least(S)
    BY <1>2, <2>1, <2>2 DEF Paths!Survivor
  <2>6. Paths!Least(S) \in DOMAIN ids /\ ids[Paths!Least(S)].file = f
    BY <2>2, <2>4 DEF Paths!RowsOf
  <2>7. Paths!Survivor(Paths!Least(S)) = Paths!Least(S)
    BY <1>2, <2>1, <2>2, <2>6 DEF Paths!Survivor
  <2> QED
    BY <2>1, <2>5, <2>6, <2>7
<1> QED
  BY <1>1, <1>2

-----------------------------------------------------------------------------
LEMMA PathsStart == Paths!Init => PathInv
<1> SUFFICES ASSUME Paths!Init PROVE PathInv
  OBVIOUS
<1>0. PICK n \in 1..(MaxId - 1) : \E made \in SUBSET [maker : 1..n, text : Readings] :
        /\ ids \in [1..n -> [file : Files, spelling : Spellings, hash : Hashes]]
        /\ named \in {{i, n} : i \in 1..n}
        /\ pages = {[owner |-> u.maker, text |-> u.text] : u \in made}
        /\ last = n /\ opened = FALSE
  BY DEF Paths!Init
<1>1. PICK made \in SUBSET [maker : 1..n, text : Readings] :
        /\ ids \in [1..n -> [file : Files, spelling : Spellings, hash : Hashes]]
        /\ named \in {{i, n} : i \in 1..n}
        /\ pages = {[owner |-> u.maker, text |-> u.text] : u \in made}
        /\ last = n /\ opened = FALSE
  BY <1>0
<1>2. n \in Nat /\ DOMAIN ids = 1..n /\ ids = [i \in DOMAIN ids |-> ids[i]]
  BY <1>1, IdsAreNumbers
<1>3. \A i \in DOMAIN ids : IsRow(ids[i])
  BY <1>1 DEF IsRow
<1>4. \A p \in pages : p = [owner |-> p.owner, text |-> p.text]
  BY <1>1
<1>5. Paths!NamesExist
  BY <1>1, <1>2 DEF Paths!NamesExist
<1> QED
  BY <1>1, <1>2, <1>3, <1>4, <1>5 DEF PathInv

LEMMA CanonicaliseKeeps ==
  ASSUME PathInv, Paths!Canonicalise
  PROVE  PathInv' /\ Paths!Merging
<1>1. ids' = [i \in DOMAIN ids |-> IF Paths!Folds(i) THEN [ids[i] EXCEPT !.spelling = Canonical] ELSE ids[i]]
  BY DEF Paths!Canonicalise
<1>2. ASSUME NEW i \in DOMAIN ids
      PROVE  IsRow(ids'[i]) /\ ids'[i].file = ids[i].file /\ (IF Paths!Folds(i) THEN ids'[i].spelling = Canonical ELSE ids'[i] = ids[i])
  <2>1. IsRow(ids[i])
    BY DEF PathInv
  <2>2. CASE Paths!Folds(i)
    <3>1. ids'[i] = [ids[i] EXCEPT !.spelling = Canonical]
      BY <1>1, <2>2
    <3> QED
      BY <2>1, <2>2, <3>1 DEF IsRow
  <2>3. CASE ~Paths!Folds(i)
    BY <1>1, <2>1, <2>3
  <2> QED
    BY <2>2, <2>3
<1>3. DOMAIN ids' = DOMAIN ids /\ ids' = [i \in DOMAIN ids' |-> ids'[i]]
  BY <1>1
<1>4. \A f : Paths!RowsOf(f)' = Paths!RowsOf(f)
  BY <1>2, <1>3 DEF Paths!RowsOf
<1>5. Spelled'
  <2> SUFFICES ASSUME NEW i \in DOMAIN ids
               PROVE  \E j \in DOMAIN ids : ids'[j].file = ids'[i].file /\ ids'[j].spelling = Canonical
    BY <1>3 DEF Spelled
  <2>1. PICK S : S = Paths!RowsOf(ids[i].file)
    OBVIOUS
  <2>2. S \in SUBSET DOMAIN ids /\ i \in S /\ \A j \in S : ids[j].file = ids[i].file
    BY <2>1 DEF Paths!RowsOf
  <2>3. CASE \E j \in S : ids[j].spelling = Canonical
    <3>1. PICK j \in S : ids[j].spelling = Canonical
      BY <2>3
    <3>2. ids'[j].spelling = Canonical
      BY <1>2, <2>2, <3>1
    <3> QED
      BY <1>2, <2>2, <3>1, <3>2
  <2>4. CASE \A j \in S : ids[j].spelling # Canonical
    <3>1. Paths!Least(S) \in S /\ \A k \in S : Paths!Least(S) <= k
      BY <2>2, LeastRow
    <3>2. Paths!RowsOf(ids[Paths!Least(S)].file) = S
      BY <2>1, <2>2, <3>1
    <3>3. Paths!Folds(Paths!Least(S))
      BY <2>4, <3>1, <3>2 DEF Paths!Folds
    <3> QED
      BY <1>2, <2>2, <3>1, <3>3
  <2> QED
    BY <2>3, <2>4
<1>6. last' = last /\ pages' = pages /\ named' = named /\ opened' = TRUE
  BY DEF Paths!Canonicalise
<1>7. Paths!NamesExist'
  BY <1>3, <1>6 DEF PathInv, Paths!NamesExist
<1>8. PathInv'
  BY <1>2, <1>3, <1>5, <1>6, <1>7 DEF PathInv
<1>9. Paths!NoNewTwin
  <2> SUFFICES ASSUME NEW f \in Files PROVE Cardinality(Paths!RowsOf(f)') <= Cardinality(Paths!RowsOf(f))
    BY CountsAgree DEF Paths!NoNewTwin
  <2>1. Cardinality(Paths!RowsOf(f)) \in Nat
    BY RowsAreFinite, FS_CardinalityType
  <2> QED
    BY <1>4, <2>1
<1>10. Paths!PagesKept
  BY <1>4, <1>6 DEF Paths!PagesKept, Paths!PagesOf
<1> QED
  BY <1>7, <1>8, <1>9, <1>10 DEF Paths!Merging

LEMMA RegisterKeeps ==
  ASSUME PathInv, NEW f \in Files, NEW spelling \in Spellings, NEW content \in Hashes, Paths!Register(f, spelling, content)
  PROVE  PathInv' /\ Paths!Merging
<1>1. opened /\ Spelled /\ pages' = pages /\ named' = named /\ opened' = opened
  BY DEF Paths!Register, PathInv
<1>2. CASE \E i \in Paths!Found(f, spelling) : ids' = [ids EXCEPT ![i].hash = content] /\ last' = last
  <2>1. PICK i \in Paths!Found(f, spelling) : ids' = [ids EXCEPT ![i].hash = content] /\ last' = last
    BY <1>2
  <2>2. i \in DOMAIN ids
    BY DEF Paths!Found
  <2>3. PICK old : old = ids[i]
    OBVIOUS
  <2>4. PICK r : r = [old EXCEPT !.hash = content]
    OBVIOUS
  <2>5. IsRow(old) /\ ids = [j \in DOMAIN ids |-> ids[j]] /\ \A j \in DOMAIN ids : IsRow(ids[j])
    BY <2>2, <2>3 DEF PathInv
  <2>6. ids' = [ids EXCEPT ![i] = r]
    BY <2>1, <2>3, <2>4
  <2>7. IsRow(r) /\ r.file = old.file /\ r.spelling = old.spelling
    BY <2>4, <2>5 DEF IsRow
  <2>8. DOMAIN ids' = DOMAIN ids /\ ids' = [j \in DOMAIN ids' |-> ids'[j]]
    BY <2>5, <2>6
  <2>9. \A j \in DOMAIN ids : IsRow(ids'[j]) /\ ids'[j].file = ids[j].file /\ ids'[j].spelling = ids[j].spelling
    BY <2>2, <2>3, <2>5, <2>6, <2>7
  <2>10. \A g : Paths!RowsOf(g)' = Paths!RowsOf(g)
    BY <2>8, <2>9 DEF Paths!RowsOf
  <2>11. Spelled' /\ Paths!NamesExist'
    BY <1>1, <2>8, <2>9 DEF Spelled, PathInv, Paths!NamesExist
  <2>12. PathInv'
    BY <1>1, <2>1, <2>8, <2>9, <2>11 DEF PathInv
  <2>13. Paths!NoNewTwin
    <3> SUFFICES ASSUME NEW g \in Files PROVE Cardinality(Paths!RowsOf(g)') <= Cardinality(Paths!RowsOf(g))
      BY CountsAgree DEF Paths!NoNewTwin
    <3>1. Cardinality(Paths!RowsOf(g)) \in Nat
      BY RowsAreFinite, FS_CardinalityType
    <3> QED
      BY <2>10, <3>1
  <2>14. Paths!PagesKept
    BY <1>1, <2>10 DEF Paths!PagesKept, Paths!PagesOf
  <2> QED
    BY <2>11, <2>12, <2>13, <2>14 DEF Paths!Merging
<1>3. CASE /\ Paths!Found(f, spelling) = {} /\ last' = last + 1
           /\ ids' = [i \in DOMAIN ids \cup {last + 1} |->
                          IF i = last + 1 THEN [file |-> f, spelling |-> Canonical, hash |-> content] ELSE ids[i]]
  <2>1. PICK new : new = last + 1
    OBVIOUS
  <2>2. PICK r : r = [file |-> f, spelling |-> Canonical, hash |-> content]
    OBVIOUS
  <2>3. /\ last \in Nat /\ DOMAIN ids \subseteq 1..last /\ ids = [j \in DOMAIN ids |-> ids[j]]
        /\ \A j \in DOMAIN ids : IsRow(ids[j])
    BY DEF PathInv
  <2>4. ids' = [i \in DOMAIN ids \cup {new} |-> IF i = new THEN r ELSE ids[i]] /\ last' = new
    BY <1>3, <2>1, <2>2
  <2>5. new \notin DOMAIN ids /\ new \in Nat /\ DOMAIN ids \cup {new} \subseteq 1..new
    BY <2>1, <2>3
  <2>6. IsRow(r) /\ r.file = f /\ r.spelling = Canonical
    BY <2>2 DEF IsRow
  <2>7. DOMAIN ids' = DOMAIN ids \cup {new} /\ ids' = [j \in DOMAIN ids' |-> ids'[j]]
    BY <2>4
  <2>8. ids'[new] = r /\ \A j \in DOMAIN ids : ids'[j] = ids[j]
    BY <2>4, <2>5
  <2>9. Paths!RowsOf(f) = {}
    <3>1. \A i \in DOMAIN ids : Paths!Relpath(i) # <<f, Canonical>>
      BY <1>3 DEF Paths!Found
    <3>2. \A i \in DOMAIN ids : ~(ids[i].file = f /\ ids[i].spelling = Canonical)
      BY <3>1 DEF Paths!Relpath
    <3> QED
      BY <1>1, <3>2 DEF Spelled, Paths!RowsOf
  <2>10. \A g \in Files \ {f} : Paths!RowsOf(g)' = Paths!RowsOf(g)
    BY <2>6, <2>7, <2>8 DEF Paths!RowsOf
  <2>11. Spelled' /\ Paths!NamesExist'
    BY <1>1, <2>6, <2>7, <2>8 DEF Spelled, PathInv, Paths!NamesExist
  <2>12. \A j \in DOMAIN ids' : IsRow(ids'[j])
    BY <2>3, <2>6, <2>7, <2>8
  <2>13. PathInv'
    BY <1>1, <2>4, <2>5, <2>7, <2>11, <2>12 DEF PathInv
  <2>14. Paths!NoNewTwin
    <3> SUFFICES ASSUME NEW g \in Files, Paths!RowsOf(g) # {} PROVE Cardinality(Paths!RowsOf(g)') <= Cardinality(Paths!RowsOf(g))
      BY CountsAgree DEF Paths!NoNewTwin
    <3>1. Cardinality(Paths!RowsOf(g)) \in Nat
      BY RowsAreFinite, FS_CardinalityType
    <3> QED
      BY <2>9, <2>10, <3>1
  <2>15. \A g \in Files : Paths!RowsOf(g) \subseteq Paths!RowsOf(g)'
    BY <2>9, <2>10
  <2>16. Paths!PagesKept
    BY <1>1, <2>15 DEF Paths!PagesKept, Paths!PagesOf
  <2> QED
    BY <2>11, <2>13, <2>14, <2>16 DEF Paths!Merging
<1> QED
  BY <1>2, <1>3 DEF Paths!Register

LEMMA DedupeKeeps ==
  ASSUME PathInv, Paths!Dedupe
  PROVE  PathInv' /\ Paths!Merging
<1>1. PICK kept : kept = {i \in DOMAIN ids : Paths!Survivor(i) = i}
  OBVIOUS
<1>2. /\ ids' = [i \in kept |-> IF Paths!Merges(ids[i].file) THEN [ids[i] EXCEPT !.spelling = Canonical] ELSE ids[i]]
      /\ pages' = Paths!PagesMoved /\ named' = Paths!NamedMoved /\ last' = last /\ opened' = opened
  BY <1>1 DEF Paths!Dedupe
<1>3. DOMAIN ids' = kept /\ ids' = [i \in DOMAIN ids' |-> ids'[i]] /\ kept \subseteq DOMAIN ids
  BY <1>1, <1>2
<1>4. ASSUME NEW i \in kept
      PROVE  /\ IsRow(ids'[i]) /\ ids'[i].file = ids[i].file
             /\ IF Paths!Merges(ids[i].file) THEN ids'[i].spelling = Canonical ELSE ids'[i] = ids[i]
  <2>1. IsRow(ids[i])
    BY <1>1 DEF PathInv
  <2>2. CASE Paths!Merges(ids[i].file)
    <3>1. ids'[i] = [ids[i] EXCEPT !.spelling = Canonical]
      BY <1>2, <2>2
    <3> QED
      BY <2>1, <2>2, <3>1 DEF IsRow
  <2>3. CASE ~Paths!Merges(ids[i].file)
    BY <1>2, <2>1, <2>3
  <2> QED
    BY <2>2, <2>3
<1>5. \A i \in DOMAIN ids : Paths!Survivor(i) \in kept /\ ids[Paths!Survivor(i)].file = ids[i].file
  BY <1>1, SurvivorIs
<1>6. \A f : Paths!RowsOf(f)' = Paths!RowsOf(f) \cap kept
  BY <1>3, <1>4 DEF Paths!RowsOf
<1>7. ASSUME Spelled PROVE Spelled'
  <2> SUFFICES ASSUME NEW i \in kept
               PROVE  \E j \in kept : ids'[j].file = ids'[i].file /\ ids'[j].spelling = Canonical
    BY <1>3 DEF Spelled
  <2>1. CASE Paths!Merges(ids[i].file)
    BY <1>4, <2>1
  <2>2. CASE ~Paths!Merges(ids[i].file)
    <3>1. PICK j \in DOMAIN ids : ids[j].file = ids[i].file /\ ids[j].spelling = Canonical
      BY <1>3, <1>7 DEF Spelled
    <3>2. j \in kept
      BY <1>1, <2>2, <3>1 DEF Paths!Survivor
    <3> QED
      BY <1>4, <2>2, <3>1, <3>2
  <2> QED
    BY <2>1, <2>2
<1>8. Paths!NamesExist'
  <2>1. named \subseteq DOMAIN ids
    BY DEF PathInv, Paths!NamesExist
  <2> QED
    BY <1>2, <1>3, <1>5, <2>1 DEF Paths!NamesExist, Paths!NamedMoved
<1>9. ASSUME NEW p \in pages
      PROVE  \E q \in pages' : q.owner = Paths!Survivor(p.owner) /\ q.text = p.text
  <2>1. p = [owner |-> p.owner, text |-> p.text]
    BY DEF PathInv
  <2>2. PICK q : q = [p EXCEPT !.owner = Paths!Survivor(p.owner)]
    OBVIOUS
  <2>3. q \in pages'
    BY <1>2, <2>2 DEF Paths!PagesMoved
  <2> QED
    BY <2>1, <2>2, <2>3
<1>10. \A q \in pages' : q = [owner |-> q.owner, text |-> q.text]
  <2> SUFFICES ASSUME NEW q \in pages' PROVE q = [owner |-> q.owner, text |-> q.text]
    OBVIOUS
  <2>1. PICK p \in pages : q = [p EXCEPT !.owner = Paths!Survivor(p.owner)]
    BY <1>2 DEF Paths!PagesMoved
  <2>2. p = [owner |-> p.owner, text |-> p.text]
    BY DEF PathInv
  <2> QED
    BY <2>1, <2>2
<1>11. PathInv'
  <2>1. last \in Nat /\ kept \subseteq 1..last /\ opened \in BOOLEAN /\ (opened => Spelled)
    BY <1>3 DEF PathInv
  <2> QED
    BY <1>2, <1>3, <1>4, <1>7, <1>8, <1>10, <2>1 DEF PathInv
<1>12. Paths!NoNewTwin
  <2> SUFFICES ASSUME NEW f \in Files PROVE Cardinality(Paths!RowsOf(f)') <= Cardinality(Paths!RowsOf(f))
    BY CountsAgree DEF Paths!NoNewTwin
  <2> QED
    BY <1>6, RowsAreFinite, FS_Subset
<1>13. Paths!PagesKept
  <2> SUFFICES ASSUME NEW f \in Files, NEW p \in pages, p.owner \in Paths!RowsOf(f)
               PROVE  \E q \in pages' : q.owner \in Paths!RowsOf(f)' /\ q.text = p.text
    BY DEF Paths!PagesKept, Paths!PagesOf
  <2>1. PICK q \in pages' : q.owner = Paths!Survivor(p.owner) /\ q.text = p.text
    BY <1>9
  <2>2. Paths!Survivor(p.owner) \in kept /\ Paths!Survivor(p.owner) \in Paths!RowsOf(f)
    BY <1>3, <1>5 DEF Paths!RowsOf
  <2> QED
    BY <1>6, <2>1, <2>2
<1> QED
  BY <1>8, <1>11, <1>12, <1>13 DEF Paths!Merging

LEMMA PathsStep == PathInv /\ [Paths!Next]_Paths!vars => PathInv' /\ [Paths!Merging]_Paths!vars
<1> SUFFICES ASSUME PathInv, [Paths!Next]_Paths!vars PROVE PathInv' /\ [Paths!Merging]_Paths!vars
  OBVIOUS
<1>1. CASE UNCHANGED Paths!vars
  BY <1>1 DEF Paths!vars, PathInv, Paths!NamesExist, Spelled
<1>2. CASE Paths!Next
  BY <1>2, CanonicaliseKeeps, RegisterKeeps, DedupeKeeps DEF Paths!Next
<1> QED
  BY <1>1, <1>2

(* Rows of one file under several spellings are merged with nothing lost,   *)
(* and no file that has a row gets a second one, for any files, spellings,  *)
(* readings and number of rows.                                             *)
THEOREM MergesAlwaysKeep == Paths!Spec => MergesKeep
BY PathsStart, PathsStep, PTL DEF Paths!Spec, MergesKeep

-----------------------------------------------------------------------------
(* Stubs of documents outside the vault *)

IsSource(r) ==
    /\ r = [here |-> r.here, hash |-> r.hash, at |-> r.at, logical |-> r.logical, pending |-> r.pending, pages |-> r.pages]
    /\ r.here \in BOOLEAN /\ r.pending \in BOOLEAN

IsImport(m) ==
    \/ m = Refs!Idle
    \/ /\ m = [step |-> m.step, n |-> m.n, logical |-> m.logical, p |-> m.p, text |-> m.text]
       /\ m.step \in {"write", "add", "stamp"} /\ m.n \in Refs!Names /\ m.logical \in Documents \cup {Key}
       /\ m.logical # Key => m.p = m.logical
       /\ m.text \in Texts \cup {none}

(* Only one import is under way; the stub it writes is the one of its       *)
(* document, if that has one.                                               *)
Alone ==
    /\ \A i, o \in Importers : i # o => import[i] = Refs!Idle \/ import[o] = Refs!Idle
    /\ \A i \in Importers :
           /\ import[i].step = "write" =>
                  /\ stubs[import[i].n] \in {none, import[i].logical}
                  /\ \A n \in Refs!Names \ {import[i].n} : stubs[n] # import[i].logical
           /\ import[i].step \in {"add", "stamp"} => stubs[import[i].n] = import[i].logical

(* No document has two stubs, and a row is about the document of its stub. *)
Single ==
    /\ \A m, n \in Refs!Names : m # n => stubs[m] = none \/ stubs[m] # stubs[n]
    /\ \A n \in Refs!Names : row[n].logical \in {none, stubs[n]} /\ row[n].at \in {none, stubs[n]}

RefInv ==
    /\ docs \in [Documents -> Texts \cup {none}] /\ zotero \in Documents
    /\ reach \in [Documents -> {"ok", "denied", "folder", "cloud"}]
    /\ stubs \in [Refs!Names -> Documents \cup {Key, none}]
    /\ row = [n \in Refs!Names |-> row[n]] /\ \A n \in Refs!Names : IsSource(row[n])
    /\ built = [n \in Refs!Names |-> built[n]]
    /\ import = [i \in Importers |-> import[i]] /\ \A i \in Importers : IsImport(import[i])
    /\ overlapped \in BOOLEAN /\ rebound \in BOOLEAN
    /\ Refs!InStep
    /\ ~overlapped /\ ~rebound => Alone /\ Single

-----------------------------------------------------------------------------
LEMMA LeastStub ==
  ASSUME NEW S \in SUBSET Refs!Names, S # {}
  PROVE  Refs!Least(S) \in S
<1>1. S \in SUBSET (1..MaxStubs)
  BY DEF Refs!Names
<1>2. \E n \in S : \A k \in S : n <= k
  BY <1>1, StubsAreNumbered, LeastOf
<1> QED
  BY <1>2 DEF Refs!Least

LEMMA OneOfEach ==
  ASSUME RefInv
  PROVE  Refs!OneStub
<1> SUFFICES ASSUME ~overlapped, ~rebound, NEW logical \in Documents \cup {Key}
             PROVE  Cardinality({n \in Refs!Names : stubs[n] = logical}) <= 1
  BY CountsAgree DEF Refs!OneStub
<1> DEFINE S == {n \in Refs!Names : stubs[n] = logical}
<1>1. \A m, n \in S : m = n
  BY KeyIsNoPlace DEF RefInv, Single
<1>2. CASE S = {}
  BY <1>2, FS_EmptySet
<1>3. CASE S # {}
  <2>1. PICK m \in S : TRUE
    BY <1>3
  <2>2. S = {m}
    BY <1>1, <2>1
  <2>3. Cardinality({m}) = 1
    BY FS_Singleton
  <2> QED
    BY <2>2, <2>3
<1> QED
  BY <1>2, <1>3

LEMMA RefsStart == Refs!Init => RefInv
<1> SUFFICES ASSUME Refs!Init PROVE RefInv
  OBVIOUS
<1>1. \A n \in Refs!Names : row[n] = Refs!Absent /\ stubs[n] = none
  BY DEF Refs!Init
<1>2. \A i \in Importers : import[i] = Refs!Idle /\ import[i].step = "none"
  BY DEF Refs!Init, Refs!Idle
<1>3. Refs!Absent.here = FALSE /\ IsSource(Refs!Absent) /\ Refs!Absent.logical = none /\ Refs!Absent.at = none
  BY DEF Refs!Absent, IsSource
<1>4. Refs!InStep
  BY <1>1, <1>3 DEF Refs!InStep
<1>5. Alone /\ Single
  BY <1>1, <1>2, <1>3 DEF Alone, Single
<1>6. \A i \in Importers : IsImport(import[i])
  BY <1>2 DEF IsImport
<1>7. /\ docs \in [Documents -> Texts \cup {none}] /\ zotero \in Documents
      /\ reach \in [Documents -> {"ok", "denied", "folder", "cloud"}]
      /\ stubs \in [Refs!Names -> Documents \cup {Key, none}]
      /\ row = [n \in Refs!Names |-> row[n]] /\ built = [n \in Refs!Names |-> built[n]]
      /\ import = [i \in Importers |-> import[i]] /\ overlapped \in BOOLEAN /\ rebound \in BOOLEAN
  BY DEF Refs!Init
<1> QED
  BY <1>1, <1>3, <1>4, <1>5, <1>6, <1>7 DEF RefInv

(* The text of a stub is that of a Zotero file, if that can be read. *)
LEMMA ZoteroText ==
  ASSUME RefInv, NEW n \in Refs!Names, stubs[n] = Key, Refs!Probe(zotero) # "missing"
  PROVE  Refs!Text(n) # stub
<1>1. Refs!Probe(zotero) \in {"ok", "denied", "folder", "cloud"}
  BY DEF RefInv, Refs!Probe
<1>2. CASE Refs!Refused(zotero)
  BY <1>2, StubIsNoText DEF Refs!Text
<1>3. CASE ~Refs!Refused(zotero)
  <2>1. Refs!Probe(zotero) = "ok"
    BY <1>1, <1>3 DEF Refs!Refused
  <2>2. Refs!Text(n) = docs[zotero]
    BY <1>3, <2>1 DEF Refs!Text
  <2>3. docs[zotero] \in Texts \cup {none}
    BY DEF RefInv
  <2> QED
    BY <2>2, <2>3, StubIsNoText
<1> QED
  BY <1>2, <1>3

(* What a scan leaves of the row of a stub. *)
LEMMA AddedIs ==
  ASSUME RefInv, NEW n \in Refs!Names, row' = Refs!Added(n)
  PROVE  /\ row' = [m \in Refs!Names |-> row'[m]] /\ \A m \in Refs!Names \ {n} : row'[m] = row[m]
         /\ IsSource(row'[n]) /\ row'[n].hash = Refs!Text(n)
         /\ ~row'[n].pending => row[n].here /\ ~row[n].pending /\ row[n].hash = Refs!Text(n)
         /\ row'[n].logical = row[n].logical /\ row'[n].at = row[n].at
<1>1. PICK text : text = Refs!Text(n)
  OBVIOUS
<1>2. row = [m \in Refs!Names |-> row[m]] /\ IsSource(row[n])
  BY DEF RefInv
<1>3. PICK old : old = row[n]
  OBVIOUS
<1>4. PICK r : r = [here |-> TRUE, hash |-> text, at |-> old.at, logical |-> old.logical,
                    pending |-> (~old.here \/ old.pending \/ old.hash # text), pages |-> text]
  OBVIOUS
<1>5. row' = [row EXCEPT ![n] = r]
  BY <1>1, <1>3, <1>4 DEF Refs!Added
<1>6. /\ r.here = TRUE /\ r.hash = text /\ r.at = old.at /\ r.logical = old.logical
      /\ r.pending = (~old.here \/ old.pending \/ old.hash # text) /\ r.pages = text
  BY <1>4
<1>7. IsSource(r)
  <2>1. r = [here |-> r.here, hash |-> r.hash, at |-> r.at, logical |-> r.logical, pending |-> r.pending, pages |-> r.pages]
    BY <1>4, <1>6, Zenon
  <2> QED
    BY <2>1, <1>6 DEF IsSource
<1>8. row'[n] = r /\ row' = [m \in Refs!Names |-> row'[m]] /\ \A m \in Refs!Names \ {n} : row'[m] = row[m]
  BY <1>2, <1>5
<1> QED
  BY <1>1, <1>2, <1>3, <1>6, <1>7, <1>8 DEF IsSource

(* A change of one row, by anyone.                                          *)
LEMMA RowSets ==
  ASSUME RefInv, NEW n \in Refs!Names, row' = [m \in Refs!Names |-> row'[m]], \A m \in Refs!Names \ {n} : row'[m] = row[m],
         IsSource(row'[n]), UNCHANGED <<docs, reach, zotero, stubs, overlapped>>,
         built' = [m \in Refs!Names |-> built'[m]], \A m \in Refs!Names \ {n} : built'[m] = built[m],
         row'[n].here /\ ~row'[n].pending => built'[n].hash = row'[n].hash,
         import' = [i \in Importers |-> import'[i]], \A i \in Importers : IsImport(import'[i]),
         rebound' \in BOOLEAN, rebound => rebound',
         ~overlapped /\ ~rebound' => /\ row'[n].logical \in {none, stubs[n]} /\ row'[n].at \in {none, stubs[n]}
                                     /\ Alone'
  PROVE  RefInv'
<1>1. \A m \in Refs!Names : IsSource(row'[m])
  BY DEF RefInv
<1>2. Refs!InStep'
  BY DEF RefInv, Refs!InStep
<1>3. ASSUME ~overlapped, ~rebound' PROVE Single'
  BY <1>3 DEF RefInv, Single
<1> QED
  BY <1>1, <1>2, <1>3 DEF RefInv

(*XX*)
LEMMA OnlyWorld ==
  ASSUME RefInv, UNCHANGED <<row, stubs, built, import, overlapped, rebound>>,
         docs' \in [Documents -> Texts \cup {none}], zotero' \in Documents,
         reach' \in [Documents -> {"ok", "denied", "folder", "cloud"}]
  PROVE  RefInv' /\ Refs!NotItsStub
<1>1. Refs!NotItsStub
  BY DEF Refs!NotItsStub
<1>2. Refs!InStep' /\ (~overlapped /\ ~rebound => Alone' /\ Single')
  BY DEF RefInv, Refs!InStep, Alone, Single
<1> QED
  BY <1>1, <1>2 DEF RefInv

LEMMA WorldKeeps ==
  ASSUME RefInv,
         \/ \E p \in Documents, text \in Texts \cup {none} : Refs!Edit(p, text)
         \/ \E p \in Documents, why \in {"ok", "denied", "folder", "cloud"} : Refs!Reach(p, why)
         \/ \E p, q \in Documents : Refs!Move(p, q)
         \/ Refs!Lost
  PROVE  RefInv' /\ Refs!NotItsStub
<1>1. ASSUME NEW p \in Documents, NEW text \in Texts \cup {none}, Refs!Edit(p, text) PROVE RefInv' /\ Refs!NotItsStub
  <2>1. docs' = [docs EXCEPT ![p] = text] /\ UNCHANGED <<reach, zotero, row, stubs, built, import, overlapped, rebound>>
    BY <1>1 DEF Refs!Edit, Refs!Event
  <2>2. docs' \in [Documents -> Texts \cup {none}] /\ zotero' \in Documents /\ reach' \in [Documents -> {"ok", "denied", "folder", "cloud"}]
    BY <2>1 DEF RefInv
  <2> QED
    BY <2>1, <2>2, OnlyWorld
<1>2. ASSUME NEW p \in Documents, NEW why \in {"ok", "denied", "folder", "cloud"}, Refs!Reach(p, why) PROVE RefInv' /\ Refs!NotItsStub
  <2>1. reach' = [reach EXCEPT ![p] = why] /\ UNCHANGED <<docs, zotero, row, stubs, built, import, overlapped, rebound>>
    BY <1>2 DEF Refs!Reach, Refs!Event
  <2>2. docs' \in [Documents -> Texts \cup {none}] /\ zotero' \in Documents /\ reach' \in [Documents -> {"ok", "denied", "folder", "cloud"}]
    BY <2>1 DEF RefInv
  <2> QED
    BY <2>1, <2>2, OnlyWorld
<1>3. ASSUME NEW p \in Documents, NEW q \in Documents, Refs!Move(p, q) PROVE RefInv' /\ Refs!NotItsStub
  <2>1. /\ docs' = [docs EXCEPT ![q] = docs[p], ![p] = none] /\ zotero' \in {zotero, q}
        /\ UNCHANGED <<reach, row, stubs, built, import, overlapped, rebound>>
    BY <1>3 DEF Refs!Move, Refs!Event
  <2>2. docs' \in [Documents -> Texts \cup {none}] /\ zotero' \in Documents /\ reach' \in [Documents -> {"ok", "denied", "folder", "cloud"}]
    BY <2>1 DEF RefInv
  <2> QED
    BY <2>1, <2>2, OnlyWorld
<1>4. ASSUME Refs!Lost PROVE RefInv' /\ Refs!NotItsStub
  <2>1. row' = [n \in Refs!Names |-> Refs!Absent] /\ UNCHANGED <<docs, reach, zotero, stubs, built, import, overlapped, rebound>>
    BY <1>4 DEF Refs!Lost, Refs!Event
  <2>2. \A n \in Refs!Names : row'[n] = Refs!Absent
    BY <2>1
  <2>3. Refs!Absent.here = FALSE /\ IsSource(Refs!Absent) /\ Refs!Absent.logical = none /\ Refs!Absent.at = none /\ Refs!Absent.hash = none
    BY DEF Refs!Absent, IsSource
  <2>4. Refs!InStep'
    BY <2>2, <2>3 DEF Refs!InStep
  <2>5. ~overlapped /\ ~rebound => Alone' /\ Single'
    BY <2>1, <2>2, <2>3 DEF RefInv, Alone, Single
  <2>6. Refs!NotItsStub
    BY <2>1, <2>2, <2>3, StubIsNoText DEF Refs!NotItsStub
  <2>7. row' = [n \in Refs!Names |-> row'[n]] /\ \A n \in Refs!Names : IsSource(row'[n])
    BY <2>1, <2>2, <2>3
  <2>8. /\ docs' \in [Documents -> Texts \cup {none}] /\ zotero' \in Documents
        /\ reach' \in [Documents -> {"ok", "denied", "folder", "cloud"}] /\ stubs' \in [Refs!Names -> Documents \cup {Key, none}]
        /\ built' = [n \in Refs!Names |-> built'[n]]
        /\ import' = [i \in Importers |-> import'[i]] /\ (\A i \in Importers : IsImport(import'[i]))
        /\ overlapped' \in BOOLEAN /\ rebound' \in BOOLEAN
    BY <2>1 DEF RefInv
  <2> QED
    BY <2>1, <2>4, <2>5, <2>6, <2>7, <2>8 DEF RefInv
<1> QED
  BY <1>1, <1>2, <1>3, <1>4

(* A stub keeps what it is about, as long as its row is not changed to that *)
(* of another document; nobody imports.                                     *)
LEMMA ScanKeeps ==
  ASSUME RefInv, NEW n \in Refs!Names, Refs!Scan(n)
  PROVE  RefInv' /\ Refs!NotItsStub
<1>1. row' = Refs!Added(n) /\ UNCHANGED <<docs, reach, zotero, stubs, built, import, overlapped, rebound>>
  BY DEF Refs!Scan
<1>2. /\ row' = [m \in Refs!Names |-> row'[m]] /\ \A m \in Refs!Names \ {n} : row'[m] = row[m]
      /\ IsSource(row'[n]) /\ row'[n].hash = Refs!Text(n)
      /\ ~row'[n].pending => row[n].here /\ ~row[n].pending /\ row[n].hash = Refs!Text(n)
      /\ row'[n].logical = row[n].logical /\ row'[n].at = row[n].at
  BY <1>1, AddedIs
<1>3. ~row'[n].pending => built[n].hash = row'[n].hash
  BY <1>2 DEF RefInv, Refs!InStep
<1>4. ~overlapped /\ ~rebound => row'[n].logical \in {none, stubs[n]} /\ row'[n].at \in {none, stubs[n]} /\ Alone'
  BY <1>1, <1>2 DEF RefInv, Alone, Single
<1>5. /\ built' = [m \in Refs!Names |-> built'[m]] /\ import' = [i \in Importers |-> import'[i]]
      /\ \A i \in Importers : IsImport(import'[i])
  BY <1>1 DEF RefInv
<1>6. rebound' \in BOOLEAN /\ rebound' = rebound
  BY <1>1 DEF RefInv
<1>7. RefInv'
  BY <1>1, <1>2, <1>3, <1>4, <1>5, <1>6, RowSets
<1>8. Refs!NotItsStub
  BY <1>1, <1>2, ZoteroText DEF Refs!NotItsStub
<1> QED
  BY <1>7, <1>8

LEMMA BuildKeeps ==
  ASSUME RefInv, NEW n \in Refs!Names, Refs!Build(n)
  PROVE  RefInv' /\ Refs!NotItsStub
<1>1. PICK old : old = row[n]
  OBVIOUS
<1>2. PICK text : text = Refs!Text(n)
  OBVIOUS
<1>3. PICK b : b = [text |-> text, hash |-> old.hash]
  OBVIOUS
<1>4. PICK r : r = [old EXCEPT !.pending = FALSE, !.pages = text]
  OBVIOUS
<1>5. built' = [built EXCEPT ![n] = b] /\ row' = [row EXCEPT ![n] = r]
      /\ UNCHANGED <<docs, reach, zotero, stubs, import, overlapped, rebound>>
  BY <1>1, <1>2, <1>3, <1>4 DEF Refs!Build
<1>6. IsSource(old) /\ row = [m \in Refs!Names |-> row[m]] /\ built = [m \in Refs!Names |-> built[m]]
  BY <1>1 DEF RefInv
<1>7. IsSource(r) /\ r.hash = old.hash /\ r.at = old.at /\ r.logical = old.logical
  BY <1>4, <1>6 DEF IsSource
<1>8. /\ row' = [m \in Refs!Names |-> row'[m]] /\ \A m \in Refs!Names \ {n} : row'[m] = row[m]
      /\ built' = [m \in Refs!Names |-> built'[m]] /\ \A m \in Refs!Names \ {n} : built'[m] = built[m]
      /\ row'[n] = r /\ built'[n] = b
  BY <1>5, <1>6
<1>9. b.text = text /\ b.hash = r.hash
  BY <1>3, <1>7
<1>10. ~overlapped /\ ~rebound => r.logical \in {none, stubs[n]} /\ r.at \in {none, stubs[n]} /\ Alone'
  BY <1>1, <1>5, <1>7 DEF RefInv, Alone, Single
<1>11. import' = [i \in Importers |-> import'[i]] /\ \A i \in Importers : IsImport(import'[i])
  BY <1>5 DEF RefInv
<1>12. rebound' \in BOOLEAN /\ rebound' = rebound
  BY <1>5 DEF RefInv
<1>13. RefInv'
  <2>1. IsSource(row'[n]) /\ (row'[n].here /\ ~row'[n].pending => built'[n].hash = row'[n].hash)
    BY <1>7, <1>8, <1>9
  <2>2. ~overlapped /\ ~rebound' => row'[n].logical \in {none, stubs[n]} /\ row'[n].at \in {none, stubs[n]} /\ Alone'
    BY <1>8, <1>10, <1>12
  <2>3. rebound => rebound'
    BY <1>12
  <2> QED
    BY <1>5, <1>8, <1>11, <1>12, <2>1, <2>2, <2>3, RowSets
<1>14. Refs!NotItsStub
  BY <1>1, <1>2, <1>7, <1>8, <1>9, ZoteroText DEF Refs!NotItsStub
<1> QED
  BY <1>13, <1>14

LEMMA RebindKeeps ==
  ASSUME RefInv, NEW n \in Refs!Names, NEW p \in Documents, NEW updateHash \in BOOLEAN, Refs!Rebind(n, p, updateHash)
  PROVE  RefInv' /\ Refs!NotItsStub
<1>1. PICK old : old = row[n]
  OBVIOUS
<1>2. PICK content : content = IF updateHash THEN docs[p] ELSE old.hash
  OBVIOUS
<1>3. PICK pending : pending = IF updateHash THEN Refs!Again(n, docs[p]) ELSE old.pending
  OBVIOUS
<1>4. PICK r : r = [old EXCEPT !.at = p, !.pages = none, !.hash = content, !.pending = pending]
  OBVIOUS
<1>5. row' = [row EXCEPT ![n] = r] /\ rebound' = (rebound \/ p # stubs[n])
      /\ UNCHANGED <<docs, reach, zotero, stubs, built, import, overlapped>>
  BY <1>1, <1>2, <1>3, <1>4 DEF Refs!Rebind
<1>6. IsSource(old) /\ row = [m \in Refs!Names |-> row[m]] /\ built = [m \in Refs!Names |-> built[m]] /\ rebound \in BOOLEAN
      /\ docs[p] \in Texts \cup {none}
  BY <1>1 DEF RefInv
<1>7. pending \in BOOLEAN /\ (~pending => ~old.pending /\ content = old.hash)
  BY <1>1, <1>2, <1>3, <1>6 DEF Refs!Again, IsSource
<1>8. IsSource(r) /\ r.here = old.here /\ r.hash = content /\ r.pending = pending /\ r.at = p /\ r.logical = old.logical
  BY <1>4, <1>6, <1>7 DEF IsSource
<1>9. /\ row' = [m \in Refs!Names |-> row'[m]] /\ \A m \in Refs!Names \ {n} : row'[m] = row[m]
      /\ row'[n] = r
  BY <1>5, <1>6
<1>10. r.here /\ ~r.pending => built[n].hash = r.hash
  BY <1>1, <1>7, <1>8 DEF RefInv, Refs!InStep
<1>11. ~overlapped /\ ~rebound' => r.logical \in {none, stubs[n]} /\ r.at \in {none, stubs[n]} /\ Alone'
  BY <1>1, <1>5, <1>6, <1>8 DEF RefInv, Alone, Single
<1>12. /\ built' = [m \in Refs!Names |-> built'[m]] /\ import' = [i \in Importers |-> import'[i]]
       /\ \A i \in Importers : IsImport(import'[i])
  BY <1>5 DEF RefInv
<1>13. rebound' \in BOOLEAN /\ (rebound => rebound')
  BY <1>5, <1>6
<1>14. RefInv'
  <2>1. IsSource(row'[n]) /\ (row'[n].here /\ ~row'[n].pending => built'[n].hash = row'[n].hash)
    BY <1>5, <1>8, <1>9, <1>10
  <2>2. ~overlapped /\ ~rebound' => row'[n].logical \in {none, stubs[n]} /\ row'[n].at \in {none, stubs[n]} /\ Alone'
    BY <1>9, <1>11
  <2>3. \A m \in Refs!Names \ {n} : built'[m] = built[m]
    BY <1>5
  <2> QED
    BY <1>5, <1>9, <1>12, <1>13, <2>1, <2>2, <2>3, RowSets
<1>15. content = stub => old.hash = stub
  BY <1>2, <1>6, StubIsNoText
<1>16. Refs!NotItsStub
  BY <1>1, <1>5, <1>8, <1>9, <1>15 DEF Refs!NotItsStub
<1> QED
  BY <1>14, <1>16

-----------------------------------------------------------------------------
(* Imports. *)
LEMMA AloneSets ==
  ASSUME NEW i \in Importers, import' = [import EXCEPT ![i] = import'[i]], import = [o \in Importers |-> import[o]],
         \A o \in Importers \ {i} : import[o] = Refs!Idle,
         import'[i].step = "write" =>
             /\ stubs'[import'[i].n] \in {none, import'[i].logical}
             /\ \A n \in Refs!Names \ {import'[i].n} : stubs'[n] # import'[i].logical,
         import'[i].step \in {"add", "stamp"} => stubs'[import'[i].n] = import'[i].logical
  PROVE  Alone'
<1>1. \A o \in Importers \ {i} : import'[o] = Refs!Idle /\ import'[o].step = "none"
  BY DEF Refs!Idle
<1>2. \A o, k \in Importers : o # k => import'[o] = Refs!Idle \/ import'[k] = Refs!Idle
  BY <1>1
<1> QED
  BY <1>1, <1>2 DEF Alone

LEMMA ImportSets ==
  ASSUME RefInv, NEW i \in Importers, import' = [import EXCEPT ![i] = import'[i]], IsImport(import'[i]),
         UNCHANGED <<docs, reach, zotero, row, built, rebound>>,
         stubs' \in [Refs!Names -> Documents \cup {Key, none}], overlapped' \in BOOLEAN,
         ~overlapped' /\ ~rebound => Alone' /\ Single'
  PROVE  RefInv' /\ Refs!NotItsStub
<1>1. import' = [o \in Importers |-> import'[o]] /\ \A o \in Importers : IsImport(import'[o])
  BY DEF RefInv
<1>2. Refs!InStep'
  BY DEF RefInv, Refs!InStep
<1>3. Refs!NotItsStub
  BY DEF Refs!NotItsStub
<1> QED
  BY <1>1, <1>2, <1>3 DEF RefInv

(* The stub that an import will write is that of its document, if the       *)
(* document has one.                                                        *)
LEMMA NameIs ==
  ASSUME RefInv, Single, NEW logical \in Documents \cup {Key}, NEW p, logical # Key => p = logical,
         NEW n \in Refs!NameFor(logical, p)
  PROVE  n \in Refs!Names /\ stubs[n] \in {none, logical} /\ \A m \in Refs!Names \ {n} : stubs[m] # logical
<1>1. logical # none
  BY KeyIsNoPlace
<1>2. \A m, k \in Refs!Names : stubs[m] = logical /\ stubs[k] = logical => m = k
  BY <1>1 DEF Single
<1> DEFINE Rows == {m \in Refs!Names : row[m].here /\ (row[m].logical = logical \/ (logical # Key /\ row[m].at = p))}
<1>3. CASE n \in Rows
  <2>1. stubs[n] = logical
    BY <1>1, <1>3 DEF Single
  <2> QED
    BY <1>2, <1>3, <2>1
<1>4. CASE n \notin Rows /\ Refs!StubsOf(logical) # {}
  <2>1. n = Refs!Least(Refs!StubsOf(logical))
    BY <1>4 DEF Refs!NameFor
  <2>2. n \in Refs!StubsOf(logical)
    BY <1>4, <2>1, LeastStub DEF Refs!StubsOf
  <2> QED
    BY <1>2, <2>2 DEF Refs!StubsOf
<1>5. CASE n \notin Rows /\ Refs!StubsOf(logical) = {}
  <2>1. n = Refs!Least(Refs!Free) /\ Refs!Free # {}
    BY <1>5 DEF Refs!NameFor
  <2>2. n \in Refs!Free
    BY <2>1, LeastStub DEF Refs!Free
  <2> QED
    BY <1>5, <2>2 DEF Refs!StubsOf, Refs!Free
<1> QED
  BY <1>3, <1>4, <1>5

LEMMA NameIsOne ==
  ASSUME NEW logical, NEW p
  PROVE  Refs!NameFor(logical, p) \subseteq Refs!Names
<1>1. Refs!StubsOf(logical) # {} => Refs!Least(Refs!StubsOf(logical)) \in Refs!Names
  BY LeastStub DEF Refs!StubsOf
<1>2. Refs!Free # {} => Refs!Least(Refs!Free) \in Refs!Names
  BY LeastStub DEF Refs!Free
<1> QED
  BY <1>1, <1>2 DEF Refs!NameFor

LEMMA PlanKeeps ==
  ASSUME RefInv, NEW i \in Importers, NEW logical \in Documents \cup {Key}, Refs!Plan(i, logical)
  PROVE  RefInv' /\ Refs!NotItsStub
<1>1. PICK p : p = IF logical = Key THEN zotero ELSE logical
  OBVIOUS
<1>2. p \in Documents /\ docs[p] \in Texts \cup {none}
  BY <1>1 DEF RefInv
<1>3. PICK n \in Refs!NameFor(logical, p) :
          import' = [import EXCEPT ![i] = [step |-> "write", n |-> n, logical |-> logical, p |-> p, text |-> docs[p]]]
  BY <1>1 DEF Refs!Plan
<1>4. PICK m : m = [step |-> "write", n |-> n, logical |-> logical, p |-> p, text |-> docs[p]]
  OBVIOUS
<1>5. m.step = "write" /\ m.n = n /\ m.logical = logical /\ m.p = p /\ m.text = docs[p]
  BY <1>4
<1>6. n \in Refs!Names
  BY <1>3, NameIsOne
<1>7. IsImport(m)
  <2>1. m = [step |-> m.step, n |-> m.n, logical |-> m.logical, p |-> m.p, text |-> m.text]
    BY <1>4, <1>5, Zenon
  <2>2. m.logical # Key => m.p = m.logical
    BY <1>1, <1>5
  <2> QED
    BY <1>2, <1>5, <1>6, <2>1, <2>2 DEF IsImport
<1>8. /\ import' = [import EXCEPT ![i] = m] /\ import = [o \in Importers |-> import[o]]
      /\ overlapped' = (overlapped \/ \E o \in Importers : import[o] # Refs!Idle)
      /\ UNCHANGED <<docs, reach, zotero, stubs, row, built, rebound>>
  BY <1>1, <1>3, <1>4 DEF Refs!Plan, Refs!Mine, RefInv
<1>9. import'[i] = m /\ import' = [import EXCEPT ![i] = import'[i]]
  BY <1>8
<1>10. ASSUME ~overlapped', ~rebound PROVE Alone' /\ Single'
  <2>1. Single /\ \A o \in Importers : import[o] = Refs!Idle
    BY <1>8, <1>10 DEF RefInv
  <2>2. stubs[n] \in {none, logical} /\ \A k \in Refs!Names \ {n} : stubs[k] # logical
    BY <1>1, <1>3, <2>1, NameIs
  <2>3. Alone'
    BY <1>5, <1>8, <1>9, <2>1, <2>2, AloneSets
  <2> QED
    BY <1>8, <2>1, <2>3 DEF Single
<1>11. stubs' \in [Refs!Names -> Documents \cup {Key, none}] /\ overlapped' \in BOOLEAN
  BY <1>8 DEF RefInv
<1> QED
  BY <1>7, <1>8, <1>9, <1>10, <1>11, ImportSets

(* An import that is under way. *)
LEMMA ImportIs ==
  ASSUME RefInv, NEW i \in Importers, import[i] # Refs!Idle
  PROVE  /\ import[i] = [step |-> import[i].step, n |-> import[i].n, logical |-> import[i].logical,
                         p |-> import[i].p, text |-> import[i].text]
         /\ import[i].n \in Refs!Names /\ import[i].logical \in Documents \cup {Key} /\ import[i].text \in Texts \cup {none}
         /\ import[i].logical # Key => import[i].p = import[i].logical
         /\ ~overlapped /\ ~rebound => \A o \in Importers \ {i} : import[o] = Refs!Idle
<1>1. IsImport(import[i])
  BY DEF RefInv
<1>2. ~overlapped /\ ~rebound => \A o \in Importers \ {i} : import[o] = Refs!Idle
  BY DEF RefInv, Alone
<1> QED
  BY <1>1, <1>2 DEF IsImport

(* Its next step. *)
LEMMA NextIs ==
  ASSUME RefInv, NEW i \in Importers, import[i] # Refs!Idle, NEW step \in {"add", "stamp"},
         import' = [import EXCEPT ![i].step = step]
  PROVE  /\ import' = [import EXCEPT ![i] = import'[i]] /\ IsImport(import'[i])
         /\ import'[i].step = step /\ import'[i].n = import[i].n /\ import'[i].logical = import[i].logical
<1>1. PICK m : m = import[i]
  OBVIOUS
<1>2. m = [step |-> m.step, n |-> m.n, logical |-> m.logical, p |-> m.p, text |-> m.text]
      /\ m.n \in Refs!Names /\ m.logical \in Documents \cup {Key} /\ m.text \in Texts \cup {none}
      /\ (m.logical # Key => m.p = m.logical)
  BY <1>1, ImportIs
<1>3. PICK k : k = [m EXCEPT !.step = step]
  OBVIOUS
<1>4. import' = [import EXCEPT ![i] = k] /\ import = [o \in Importers |-> import[o]]
  BY <1>1, <1>3 DEF RefInv
<1>5. k.step = step /\ k.n = m.n /\ k.logical = m.logical /\ k.p = m.p /\ k.text = m.text
      /\ k = [step |-> k.step, n |-> k.n, logical |-> k.logical, p |-> k.p, text |-> k.text]
  BY <1>2, <1>3
<1>6. IsImport(k)
  BY <1>2, <1>5 DEF IsImport
<1>7. import'[i] = k /\ import' = [import EXCEPT ![i] = import'[i]]
  BY <1>4
<1> QED
  BY <1>1, <1>5, <1>6, <1>7

LEMMA ImportIdleIs == Refs!Idle.step = "none" /\ IsImport(Refs!Idle)
BY DEF Refs!Idle, IsImport

LEMMA WriteStubKeeps ==
  ASSUME RefInv, NEW i \in Importers, Refs!WriteStub(i)
  PROVE  RefInv' /\ Refs!NotItsStub
<1>1. PICK n : n = import[i].n
  OBVIOUS
<1>2. PICK logical : logical = import[i].logical
  OBVIOUS
<1>3. /\ import[i].step = "write" /\ stubs' = [stubs EXCEPT ![n] = logical] /\ import' = [import EXCEPT ![i].step = "add"]
      /\ UNCHANGED <<docs, reach, zotero, row, built, overlapped, rebound>>
  BY <1>1, <1>2 DEF Refs!WriteStub, Refs!Mine
<1>4. import[i] # Refs!Idle
  BY <1>3, ImportIdleIs
<1>5. n \in Refs!Names /\ logical \in Documents \cup {Key} /\ (~overlapped /\ ~rebound => \A o \in Importers \ {i} : import[o] = Refs!Idle)
  BY <1>1, <1>2, <1>4, ImportIs
<1>6. /\ import' = [import EXCEPT ![i] = import'[i]] /\ IsImport(import'[i])
      /\ import'[i].step = "add" /\ import'[i].n = n /\ import'[i].logical = logical
  BY <1>1, <1>2, <1>3, <1>4, NextIs
<1>7. /\ stubs \in [Refs!Names -> Documents \cup {Key, none}] /\ stubs' \in [Refs!Names -> Documents \cup {Key, none}]
      /\ overlapped' \in BOOLEAN /\ import = [o \in Importers |-> import[o]]
  BY <1>3, <1>5 DEF RefInv
<1>8. ASSUME ~overlapped', ~rebound PROVE Alone' /\ Single'
  <2>1. ~overlapped /\ Alone /\ Single
    BY <1>3, <1>8 DEF RefInv
  <2>2. stubs'[n] = logical /\ \A m \in Refs!Names \ {n} : stubs'[m] = stubs[m]
    BY <1>3, <1>5, <1>7
  <2>3. Alone'
    BY <1>5, <1>6, <1>7, <1>8, <2>1, <2>2, AloneSets
  <2>4. stubs[n] \in {none, logical} /\ \A m \in Refs!Names \ {n} : stubs[m] # logical
    BY <1>1, <1>2, <1>3, <2>1 DEF Alone
  <2>5. \A m \in Refs!Names : row[m].logical \in {none, stubs'[m]} /\ row[m].at \in {none, stubs'[m]}
    BY <2>1, <2>2, <2>4, <1>5 DEF Single
  <2>6. \A m, k \in Refs!Names : m # k => stubs'[m] = none \/ stubs'[m] # stubs'[k]
    BY <2>1, <2>2, <2>4, <1>5 DEF Single
  <2>7. Single'
    BY <1>3, <2>5, <2>6 DEF Single
  <2> QED
    BY <2>3, <2>7
<1> QED
  BY <1>3, <1>6, <1>7, <1>8, ImportSets

LEMMA ImportEnds ==
  ASSUME RefInv, NEW i \in Importers, import[i] # Refs!Idle, import' = [import EXCEPT ![i] = Refs!Idle],
         UNCHANGED <<docs, reach, zotero, row, stubs, built, overlapped, rebound>>
  PROVE  RefInv' /\ Refs!NotItsStub
<1>1. import = [o \in Importers |-> import[o]] /\ stubs' \in [Refs!Names -> Documents \cup {Key, none}] /\ overlapped' \in BOOLEAN
  BY DEF RefInv
<1>2. import'[i] = Refs!Idle /\ import' = [import EXCEPT ![i] = import'[i]]
  BY <1>1
<1>3. ASSUME ~overlapped', ~rebound PROVE Alone' /\ Single'
  <2>1. Alone /\ Single /\ \A o \in Importers \ {i} : import[o] = Refs!Idle
    BY <1>3, ImportIs DEF RefInv
  <2>2. Alone'
    BY <1>1, <1>2, <2>1, ImportIdleIs, AloneSets
  <2> QED
    BY <2>1, <2>2 DEF Single
<1> QED
  BY <1>1, <1>2, <1>3, ImportIdleIs, ImportSets

LEMMA AddStubKeeps ==
  ASSUME RefInv, NEW i \in Importers, Refs!AddStub(i)
  PROVE  RefInv' /\ Refs!NotItsStub
<1>1. PICK n : n = import[i].n
  OBVIOUS
<1>2. import[i].step = "add" /\ UNCHANGED <<docs, reach, zotero, stubs, built, overlapped, rebound>>
  BY DEF Refs!AddStub, Refs!Mine
<1>3. import[i] # Refs!Idle
  BY <1>2, ImportIdleIs
<1>4. n \in Refs!Names /\ (~overlapped /\ ~rebound => \A o \in Importers \ {i} : import[o] = Refs!Idle)
  BY <1>1, <1>3, ImportIs
<1>5. CASE Refs!Text(n) = none
  <2>1. import' = [import EXCEPT ![i] = Refs!Idle] /\ UNCHANGED row
    BY <1>1, <1>5 DEF Refs!AddStub, Refs!Mine
  <2> QED
    BY <1>2, <1>3, <2>1, ImportEnds
<1>6. CASE Refs!Text(n) # none
  <2>1. import' = [import EXCEPT ![i].step = "stamp"] /\ row' = Refs!Added(n)
    BY <1>1, <1>6 DEF Refs!AddStub, Refs!Mine
  <2>2. /\ import' = [import EXCEPT ![i] = import'[i]] /\ IsImport(import'[i])
        /\ import'[i].step = "stamp" /\ import'[i].n = n /\ import'[i].logical = import[i].logical
    BY <1>1, <1>3, <2>1, NextIs
  <2>3. /\ row' = [m \in Refs!Names |-> row'[m]] /\ \A m \in Refs!Names \ {n} : row'[m] = row[m]
        /\ IsSource(row'[n]) /\ row'[n].hash = Refs!Text(n)
        /\ ~row'[n].pending => row[n].here /\ ~row[n].pending /\ row[n].hash = Refs!Text(n)
        /\ row'[n].logical = row[n].logical /\ row'[n].at = row[n].at
    BY <1>4, <2>1, AddedIs
  <2>4. ~row'[n].pending => built[n].hash = row'[n].hash
    BY <1>4, <2>3 DEF RefInv, Refs!InStep
  <2>5. /\ import = [o \in Importers |-> import[o]] /\ built' = [m \in Refs!Names |-> built'[m]]
        /\ import' = [o \in Importers |-> import'[o]] /\ \A o \in Importers : IsImport(import'[o])
    BY <1>2, <2>2 DEF RefInv
  <2>6. ASSUME ~overlapped, ~rebound'
        PROVE  row'[n].logical \in {none, stubs[n]} /\ row'[n].at \in {none, stubs[n]} /\ Alone'
    <3>1. Alone /\ Single
      BY <1>2, <2>6 DEF RefInv
    <3>2. stubs'[n] = import[i].logical
      BY <1>1, <1>2, <3>1 DEF Alone
    <3>3. Alone'
      BY <1>2, <1>4, <2>2, <2>5, <2>6, <3>2, AloneSets
    <3> QED
      BY <1>4, <2>3, <3>1, <3>3 DEF Single
  <2>7. rebound' \in BOOLEAN /\ rebound' = rebound
    BY <1>2 DEF RefInv
  <2>8. RefInv'
    BY <1>2, <1>4, <2>3, <2>4, <2>5, <2>6, <2>7, RowSets
  <2>9. Refs!NotItsStub
    BY <1>2, <1>4, <2>3, ZoteroText DEF Refs!NotItsStub
  <2> QED
    BY <2>8, <2>9
<1> QED
  BY <1>5, <1>6

LEMMA StampKeeps ==
  ASSUME RefInv, NEW i \in Importers, Refs!Stamp(i)
  PROVE  RefInv' /\ Refs!NotItsStub
<1>1. PICK m : m = import[i]
  OBVIOUS
<1>2. PICK n : n = m.n
  OBVIOUS
<1>3. PICK old : old = row[n]
  OBVIOUS
<1>4. PICK at : at = IF m.logical = Key THEN none ELSE m.p
  OBVIOUS
<1>5. PICK r : r = [here |-> TRUE, hash |-> m.text, logical |-> m.logical, pages |-> m.text, at |-> at,
                    pending |-> (~(old.here /\ old.hash = m.text) \/ old.pending)]
  OBVIOUS
<1>6. /\ m.step = "stamp" /\ row' = [row EXCEPT ![n] = r] /\ import' = [import EXCEPT ![i] = Refs!Idle]
      /\ UNCHANGED <<docs, reach, zotero, stubs, built, overlapped, rebound>>
  BY <1>1, <1>2, <1>3, <1>4, <1>5 DEF Refs!Stamp, Refs!Mine
<1>7. m # Refs!Idle
  BY <1>6, ImportIdleIs
<1>8. /\ n \in Refs!Names /\ m.text \in Texts \cup {none} /\ (m.logical # Key => m.p = m.logical)
      /\ (~overlapped /\ ~rebound => \A o \in Importers \ {i} : import[o] = Refs!Idle)
  BY <1>1, <1>2, <1>7, ImportIs
<1>9. IsSource(old) /\ row = [k \in Refs!Names |-> row[k]] /\ import = [o \in Importers |-> import[o]]
  BY <1>3, <1>8 DEF RefInv
<1>10. /\ r.here = TRUE /\ r.hash = m.text /\ r.logical = m.logical /\ r.pages = m.text /\ r.at = at
       /\ r.pending = (~(old.here /\ old.hash = m.text) \/ old.pending)
  BY <1>5
<1>11. IsSource(r)
  <2>1. r = [here |-> r.here, hash |-> r.hash, at |-> r.at, logical |-> r.logical, pending |-> r.pending, pages |-> r.pages]
    BY <1>5, <1>10, Zenon
  <2> QED
    BY <1>9, <1>10, <2>1 DEF IsSource
<1>12. row'[n] = r /\ row' = [k \in Refs!Names |-> row'[k]] /\ \A k \in Refs!Names \ {n} : row'[k] = row[k]
  BY <1>6, <1>8, <1>9
<1>13. r.here /\ ~r.pending => built[n].hash = r.hash
  BY <1>3, <1>8, <1>9, <1>10 DEF RefInv, Refs!InStep, IsSource
<1>14. import'[i] = Refs!Idle /\ import' = [import EXCEPT ![i] = import'[i]] /\ import' = [o \in Importers |-> import'[o]]
       /\ \A o \in Importers \ {i} : import'[o] = import[o]
  BY <1>6, <1>9
<1>15. \A o \in Importers : IsImport(import'[o])
  BY <1>14, ImportIdleIs DEF RefInv
<1>16. ASSUME ~overlapped, ~rebound' PROVE r.logical \in {none, stubs[n]} /\ r.at \in {none, stubs[n]} /\ Alone'
  <2>1. Alone /\ Single
    BY <1>6, <1>16 DEF RefInv
  <2>2. stubs[n] = m.logical
    BY <1>1, <1>2, <1>6, <2>1 DEF Alone
  <2>3. Alone'
    BY <1>6, <1>8, <1>9, <1>14, <1>16, ImportIdleIs, AloneSets
  <2> QED
    BY <1>4, <1>8, <1>10, <2>2, <2>3
<1>17. rebound' \in BOOLEAN /\ rebound' = rebound /\ built' = [k \in Refs!Names |-> built'[k]]
  BY <1>6 DEF RefInv
<1>18. RefInv'
  <2>1. IsSource(row'[n]) /\ (row'[n].here /\ ~row'[n].pending => built'[n].hash = row'[n].hash)
    BY <1>6, <1>11, <1>12, <1>13
  <2>2. ~overlapped /\ ~rebound' => row'[n].logical \in {none, stubs[n]} /\ row'[n].at \in {none, stubs[n]} /\ Alone'
    BY <1>12, <1>16
  <2>3. \A k \in Refs!Names \ {n} : built'[k] = built[k]
    BY <1>6
  <2>4. rebound' \in BOOLEAN /\ (rebound => rebound') /\ UNCHANGED <<docs, reach, zotero, stubs, overlapped>>
    BY <1>6, <1>17
  <2>5. n \in Refs!Names /\ row' = [k \in Refs!Names |-> row'[k]] /\ \A k \in Refs!Names \ {n} : row'[k] = row[k]
    BY <1>8, <1>12
  <2> QED
    BY <1>14, <1>15, <1>17, <2>1, <2>2, <2>3, <2>4, <2>5, RowSets
<1>19. Refs!NotItsStub
  BY <1>6, <1>8, <1>10, <1>12, StubIsNoText DEF Refs!NotItsStub
<1> QED
  BY <1>18, <1>19

LEMMA RefsStep == RefInv /\ [Refs!Next]_Refs!vars => RefInv' /\ (Refs!NotItsStub \/ UNCHANGED Refs!vars)
<1> SUFFICES ASSUME RefInv, [Refs!Next]_Refs!vars PROVE RefInv' /\ (Refs!NotItsStub \/ UNCHANGED Refs!vars)
  OBVIOUS
<1>1. CASE UNCHANGED Refs!vars
  BY <1>1 DEF Refs!vars, RefInv, Refs!InStep, Alone, Single
<1>2. CASE \/ \E p \in Documents, text \in Texts \cup {none} : Refs!Edit(p, text)
           \/ \E p \in Documents, why \in {"ok", "denied", "folder", "cloud"} : Refs!Reach(p, why)
           \/ \E p, q \in Documents : Refs!Move(p, q)
           \/ Refs!Lost
  BY <1>2, WorldKeeps
<1>3. ASSUME NEW n \in Refs!Names, Refs!Scan(n) \/ Refs!Build(n) PROVE RefInv' /\ Refs!NotItsStub
  BY <1>3, ScanKeeps, BuildKeeps
<1>4. ASSUME NEW n \in Refs!Names, NEW p \in Documents, NEW updateHash \in BOOLEAN, Refs!Rebind(n, p, updateHash) PROVE RefInv' /\ Refs!NotItsStub
  BY <1>4, RebindKeeps
<1>5. ASSUME NEW i \in Importers, NEW logical \in Documents \cup {Key}, Refs!Plan(i, logical) PROVE RefInv' /\ Refs!NotItsStub
  BY <1>5, PlanKeeps
<1>6. ASSUME NEW i \in Importers, Refs!WriteStub(i) \/ Refs!AddStub(i) \/ Refs!Stamp(i) PROVE RefInv' /\ Refs!NotItsStub
  BY <1>6, WriteStubKeeps, AddStubKeeps, StampKeeps
<1>7. ASSUME NEW i \in Importers, Refs!Die(i) PROVE RefInv' /\ Refs!NotItsStub
  BY <1>7, ImportEnds DEF Refs!Die, Refs!Mine
<1> QED
  BY <1>1, <1>2, <1>3, <1>4, <1>5, <1>6, <1>7 DEF Refs!Next

(* A stub is taken for its document and never for itself, a document has    *)
(* one stub while imports do not overlap and none is rebound, and a source  *)
(* that claims to be built was built for its hash, for any documents,       *)
(* importers and events.                                                    *)
THEOREM StubsStayTruthful == Refs!Spec => StubsTruthful
<1>1. RefInv /\ [Refs!Next]_Refs!vars => [Refs!Resolving]_Refs!vars
  <2> SUFFICES ASSUME RefInv, Refs!Next PROVE Refs!Resolving \/ UNCHANGED Refs!vars
    BY RefsStep DEF RefInv
  <2>1. RefInv' /\ (Refs!NotItsStub \/ UNCHANGED Refs!vars)
    BY RefsStep
  <2>2. Refs!OneStub'
    BY <2>1, OneOfEach, PTL
  <2> QED
    BY <2>1, <2>2 DEF Refs!Resolving, RefInv
<1>2. RefInv /\ [Refs!Next]_Refs!vars => RefInv'
  BY RefsStep
<1> QED
  BY RefsStart, <1>1, <1>2, PTL DEF Refs!Spec, StubsTruthful

-----------------------------------------------------------------------------
(* Repairs of links *)

IsLink(l) ==
    /\ l = [at |-> l.at, to |-> l.to, form |-> l.form]
    /\ l.at \in {"body", "meta"} /\ l.form \in {"plain", "dotted", "blank"}

IsPage(p) ==
    /\ p = [links |-> p.links, wrapped |-> p.wrapped, path |-> p.path]
    /\ p.wrapped \in BOOLEAN /\ \A l \in p.links : IsLink(l)

(* A link of the body that a repair is promised for. *)
Namesakes(name) == {n \in others : n[2] = name[2]}
Promised(l) ==
    /\ l.at = "body" /\ l.form = "plain" /\ l.to \notin others
    /\ l.to = Fix!Empty \/ Fix!Cardinality(Namesakes(l.to)) = 1

(* What one round leaves of a page, and what a second one leaves.           *)
Once(p) ==
    /\ ~p.wrapped /\ (p.path \in files \cap Raw \/ registered \notin files \cap Raw)
    /\ \A l \in p.links : l.at = "body" => l.form # "dotted"

Twice(p) ==
    /\ Once(p)
    /\ \A l \in p.links : l.form # "dotted" /\ ~Promised(l)

Has(links, link) == \E l \in links : l.at = link.at /\ l.to = link.to

(* What a command that nobody disturbed has seen and done.                  *)
Undisturbed ==
    /\ stage \in {"ask", "answer", "fix", "end"} => seen = Fix!View
    /\ stage = "answer" => read = note
    /\ round >= 1 => Once(note)
    /\ round >= 2 => Twice(note)
    /\ Fix!FixSettles

FixInv ==
    /\ IsPage(note) /\ IsPage(read) /\ seen = [page |-> seen.page, there |-> seen.there, files |-> seen.files]
    /\ others \subseteq Others /\ seen.there \subseteq Others /\ registered \in Places
    /\ fixEdits \in Nat /\ round \in Nat /\ (stage \in {"lint", "ask", "answer"} => round = 0)
    /\ stage = "answer" => read.links \subseteq note.links
    /\ \A a \in added :
           /\ a = [link |-> a.link, calm |-> a.calm]
           /\ a.calm /\ a.link.to \in others =>
                  a.link.to \in seen.there /\ Has(note.links, a.link) /\ (stage = "answer" => Has(read.links, a.link))
    /\ fixEdits = 0 => Undisturbed

-----------------------------------------------------------------------------
(* What lint reports, by kind. *)
LEMMA IssueIs ==
  ASSUME NEW view, NEW i \in Fix!Issues(view)
  PROVE  /\ i.kind \in {"empty", "moved", "ask"} => i.old \notin view.there
         /\ i.kind \in {"empty", "moved"} => i.at = "body"
         /\ i.kind = "empty" => i.old = Fix!Empty
         /\ i.kind = "moved" => i.new = Fix!Candidates(view, i.old) /\ Fix!Cardinality(i.new) = 1
         /\ i.kind = "malformed" => \E l \in Fix!Known(view.page) : l.form = "dotted" /\ i.old = l.to /\ i.at = l.at
         /\ i.kind = "path" => /\ view.page.path \notin view.files \cap Raw /\ registered \in view.files
                               /\ i.new = {registered}
         /\ i.kind = "wrapped" => view.page.wrapped
<1>1. CASE i \in Fix!Broken(view)
  <2>1. PICK l \in Fix!Known(view.page) :
            /\ l.to \notin view.there
            /\ i = [kind |-> IF l.to = Fix!Empty THEN "empty" ELSE IF Fix!Cardinality(Fix!Candidates(view, l.to)) = 1 THEN "moved" ELSE "ask",
                    old |-> l.to, new |-> Fix!Candidates(view, l.to), at |-> "body"]
    BY <1>1 DEF Fix!Broken
  <2>2. i.old = l.to /\ i.new = Fix!Candidates(view, l.to) /\ i.at = "body"
        /\ i.kind = IF l.to = Fix!Empty THEN "empty" ELSE IF Fix!Cardinality(Fix!Candidates(view, l.to)) = 1 THEN "moved" ELSE "ask"
    BY <2>1
  <2> QED
    BY <2>1, <2>2
<1>2. CASE i \in Fix!Stale(view)
  <2>1. PICK l : l.to \notin view.there /\ i = [kind |-> "ask", old |-> l.to, new |-> {}, at |-> "meta"]
    BY <1>2 DEF Fix!Stale
  <2> QED
    BY <2>1
<1>3. CASE i \in Fix!Malformed(view)
  <2>1. PICK l \in Fix!Known(view.page) : l.form = "dotted" /\ i = [kind |-> "malformed", old |-> l.to, new |-> {}, at |-> l.at]
    BY <1>3 DEF Fix!Malformed
  <2> QED
    BY <2>1
<1>4. CASE i \in Fix!DeadPath(view)
  <2>1. /\ i = [kind |-> "path", old |-> Fix!Empty, new |-> {registered}, at |-> "meta"]
        /\ view.page.path \notin view.files \cap Raw /\ registered \in view.files
    BY <1>4 DEF Fix!DeadPath
  <2> QED
    BY <2>1
<1>5. CASE i \in Fix!Wrapped(view)
  <2>1. i = [kind |-> "wrapped", old |-> Fix!Empty, new |-> {}, at |-> "meta"] /\ view.page.wrapped
    BY <1>5 DEF Fix!Wrapped
  <2> QED
    BY <2>1
<1> QED
  BY <1>1, <1>2, <1>3, <1>4, <1>5 DEF Fix!Issues

(* What lint reports of a link, of a path and of a fence. *)
LEMMA IsReported ==
  ASSUME NEW view
  PROVE  /\ \A l \in Fix!Known(view.page) : l.form = "dotted" =>
                \E i \in Fix!Issues(view) : i.kind = "malformed" /\ i.old = l.to /\ i.at = l.at
         /\ \A l \in Fix!Known(view.page) : l.to \notin view.there /\ l.to = Fix!Empty =>
                \E i \in Fix!Issues(view) : i.kind = "empty" /\ i.old = l.to /\ i.at = "body"
         /\ \A l \in Fix!Known(view.page) : l.to \notin view.there /\ l.to # Fix!Empty /\ Fix!Cardinality(Fix!Candidates(view, l.to)) = 1 =>
                \E i \in Fix!Issues(view) : i.kind = "moved" /\ i.old = l.to /\ i.at = "body"
         /\ view.page.wrapped => \E i \in Fix!Issues(view) : i.kind = "wrapped"
         /\ view.page.path \notin view.files \cap Raw /\ registered \in view.files => \E i \in Fix!Issues(view) : i.kind = "path"
<1>1. ASSUME NEW l \in Fix!Known(view.page), l.form = "dotted"
      PROVE  \E i \in Fix!Issues(view) : i.kind = "malformed" /\ i.old = l.to /\ i.at = l.at
  <2>1. PICK i : i = [kind |-> "malformed", old |-> l.to, new |-> {}, at |-> l.at]
    OBVIOUS
  <2>2. i \in Fix!Malformed(view)
    BY <1>1, <2>1 DEF Fix!Malformed
  <2> QED
    BY <2>1, <2>2 DEF Fix!Issues
<1>2. ASSUME NEW l \in Fix!Known(view.page), l.to \notin view.there
      PROVE  \E i \in Fix!Issues(view) :
                /\ i.old = l.to /\ i.at = "body"
                /\ i.kind = IF l.to = Fix!Empty THEN "empty" ELSE IF Fix!Cardinality(Fix!Candidates(view, l.to)) = 1 THEN "moved" ELSE "ask"
  <2>1. PICK i : i = [kind |-> IF l.to = Fix!Empty THEN "empty" ELSE IF Fix!Cardinality(Fix!Candidates(view, l.to)) = 1 THEN "moved" ELSE "ask",
                      old |-> l.to, new |-> Fix!Candidates(view, l.to), at |-> "body"]
    OBVIOUS
  <2>2. i \in Fix!Broken(view)
    BY <1>2, <2>1 DEF Fix!Broken
  <2> QED
    BY <2>1, <2>2 DEF Fix!Issues
<1>3. ASSUME view.page.wrapped PROVE \E i \in Fix!Issues(view) : i.kind = "wrapped"
  <2>1. PICK i : i = [kind |-> "wrapped", old |-> Fix!Empty, new |-> {}, at |-> "meta"]
    OBVIOUS
  <2>2. i \in Fix!Wrapped(view)
    BY <1>3, <2>1 DEF Fix!Wrapped
  <2> QED
    BY <2>1, <2>2 DEF Fix!Issues
<1>4. ASSUME view.page.path \notin view.files \cap Raw, registered \in view.files PROVE \E i \in Fix!Issues(view) : i.kind = "path"
  <2>1. PICK i : i = [kind |-> "path", old |-> Fix!Empty, new |-> {registered}, at |-> "meta"]
    OBVIOUS
  <2>2. i \in Fix!DeadPath(view)
    BY <1>4, <2>1 DEF Fix!DeadPath
  <2> QED
    BY <2>1, <2>2 DEF Fix!Issues
<1> QED
  BY <1>1, <1>2, <1>3, <1>4

(* What a repair makes of a link. *)
LEMMA RepairIs ==
  ASSUME NEW view, view.there \subseteq Others, NEW l, IsLink(l)
  PROVE  LET r == Fix!Repair(l, Fix!Issues(view)) IN
         /\ IsLink(r) /\ r.at = l.at
         /\ \/ /\ l.at = "body" /\ l.form = "plain" /\ l.to \notin view.there
               /\ r.form = "plain" /\ r.to \in view.there
            \/ l.form = "dotted" /\ r.form = "plain" /\ r.to = l.to
            \/ /\ r = l
               /\ \A i \in Fix!Issues(view) : /\ ~(i.kind = "moved" /\ Fix!Written(l, i, "plain"))
                                          /\ ~(i.kind = "malformed" /\ Fix!Written(l, i, "dotted"))
<1>1. PICK I : I = Fix!Issues(view)
  OBVIOUS
<1>2. PICK r : r = Fix!Repair(l, I)
  OBVIOUS
<1>3. CASE \E i \in I : i.kind = "moved" /\ Fix!Written(l, i, "plain")
  <2>1. PICK i \in I : i.kind = "moved" /\ Fix!Written(l, i, "plain")
    BY <1>3
  <2>2. PICK n : n = CHOOSE m \in Others : \E j \in I : j.kind = "moved" /\ Fix!Matched(l, j, "plain") /\ j.new = {m}
    OBVIOUS
  <2>3. PICK C : C = Fix!Candidates(view, l.to)
    OBVIOUS
  <2>4. \A j \in I : j.kind = "moved" /\ Fix!Written(l, j, "plain") => j.new = C /\ Fix!Cardinality(C) = 1
    BY <1>1, <2>3, IssueIs DEF Fix!Written
  <2>5. C \subseteq view.there /\ IsFiniteSet(C)
    <3>1. C \subseteq view.there
      BY <2>3 DEF Fix!Candidates
    <3> QED
      BY <3>1, PagesAreFinite, FS_Subset
  <2>6. PICK c : C = {c}
    BY <2>1, <2>4, <2>5, CountsAgree, FS_Singleton
  <2>7. c \in Others
    BY <2>5, <2>6
  <2>8. n \in Others /\ \E j \in I : j.kind = "moved" /\ Fix!Matched(l, j, "plain") /\ j.new = {n}
    BY <2>1, <2>2, <2>4, <2>6, <2>7 DEF Fix!Matched
  <2>9. n \in view.there
    BY <2>4, <2>5, <2>8 DEF Fix!Matched
  <2>10. r = [l EXCEPT !.to = n]
    BY <1>2, <2>1, <2>2 DEF Fix!Repair, Fix!Matched
  <2>11. l.at = "body" /\ l.form = "plain" /\ l.to \notin view.there
    BY <1>1, <2>1, IssueIs DEF Fix!Written
  <2>12. IsLink(r) /\ r.at = l.at /\ r.form = "plain" /\ r.to = n
    BY <2>10, <2>11 DEF IsLink
  <2> QED
    BY <1>1, <1>2, <2>9, <2>11, <2>12
<1>4. CASE (\A i \in I : ~(i.kind = "moved" /\ Fix!Written(l, i, "plain"))) /\ \E i \in I : i.kind = "malformed" /\ Fix!Written(l, i, "dotted")
  <2>1. r = [l EXCEPT !.form = "plain"]
    BY <1>2, <1>4 DEF Fix!Repair, Fix!Matched
  <2>2. IsLink(r) /\ r.at = l.at /\ r.form = "plain" /\ r.to = l.to
    BY <2>1 DEF IsLink
  <2>3. l.form = "dotted"
    BY <1>4 DEF Fix!Written
  <2> QED
    BY <1>1, <1>2, <2>2, <2>3
<1>5. CASE \A i \in I : ~(i.kind = "moved" /\ Fix!Written(l, i, "plain")) /\ ~(i.kind = "malformed" /\ Fix!Written(l, i, "dotted"))
  <2>1. r = l
    BY <1>2, <1>5 DEF Fix!Repair, Fix!Matched
  <2> QED
    BY <1>1, <1>2, <1>5, <2>1
<1> QED
  BY <1>3, <1>4, <1>5

(* What a round of repairs makes of a page. *)
LEMMA MendedIs ==
  ASSUME NEW view, view.there \subseteq Others, NEW p, IsPage(p)
  PROVE  LET q == Fix!Repaired(p, Fix!Issues(view)) IN
         /\ IsPage(q)
         /\ \A r \in q.links : \E l \in p.links : r = Fix!Repair(l, Fix!Issues(view)) /\ ~Fix!Removed(l, Fix!Issues(view))
         /\ \A l \in p.links : ~Fix!Removed(l, Fix!Issues(view)) => Fix!Repair(l, Fix!Issues(view)) \in q.links
         /\ q.wrapped = Fix!Unwrapped(p, Fix!Issues(view)) /\ q.path = Fix!Placed(p, Fix!Issues(view))
<1>1. PICK I : I = Fix!Issues(view)
  OBVIOUS
<1>2. PICK links : links = {Fix!Repair(l, I) : l \in {k \in p.links : ~Fix!Removed(k, I)}}
  OBVIOUS
<1>3. PICK wrapped : wrapped = Fix!Unwrapped(p, I)
  OBVIOUS
<1>4. PICK path : path = Fix!Placed(p, I)
  OBVIOUS
<1>5. PICK q : q = [links |-> links, wrapped |-> wrapped, path |-> path]
  OBVIOUS
<1>6. Fix!Repaired(p, I) = q
  BY <1>2, <1>3, <1>4, <1>5 DEF Fix!Repaired
<1>7. q.links = links /\ q.wrapped = wrapped /\ q.path = path /\ q = [links |-> q.links, wrapped |-> q.wrapped, path |-> q.path]
  BY <1>5
<1>8. wrapped \in BOOLEAN
  BY <1>3 DEF Fix!Unwrapped, IsPage
<1>9. \A r \in links : \E l \in p.links : r = Fix!Repair(l, I) /\ ~Fix!Removed(l, I)
  BY <1>2
<1>10. \A r \in links : IsLink(r)
  BY <1>1, <1>9, RepairIs DEF IsPage
<1>11. IsPage(q)
  BY <1>7, <1>8, <1>10 DEF IsPage
<1>12. \A l \in p.links : ~Fix!Removed(l, I) => Fix!Repair(l, I) \in links
  BY <1>2
<1> QED
  BY <1>1, <1>3, <1>4, <1>6, <1>7, <1>9, <1>11, <1>12

(* Repairs keep the links to pages that are there, and make none to others. *)
LEMMA RepairsKeepLinks ==
  ASSUME NEW view, view.there \subseteq Others, NEW p, IsPage(p)
  PROVE  LET q == Fix!Repaired(p, Fix!Issues(view)) IN
         /\ \A l \in p.links : l.to \in view.there => Has(q.links, l)
         /\ \A r \in q.links : r.to \in view.there \/ \E l \in p.links : l.at = r.at /\ l.to = r.to
<1>1. PICK q : q = Fix!Repaired(p, Fix!Issues(view))
  OBVIOUS
<1>2. ASSUME NEW l \in p.links, l.to \in view.there PROVE Has(q.links, l)
  <2>1. ~Fix!Removed(l, Fix!Issues(view))
    BY <1>2, IssueIs DEF Fix!Removed, Fix!Matched, Fix!Written
  <2>2. PICK r : r = Fix!Repair(l, Fix!Issues(view))
    OBVIOUS
  <2>3. r \in q.links
    BY <1>1, <2>1, <2>2, MendedIs
  <2>4. IsLink(l)
    BY DEF IsPage
  <2>5. r.at = l.at /\ r.to = l.to
    BY <1>2, <2>2, <2>4, RepairIs
  <2> QED
    BY <2>3, <2>5 DEF Has
<1>3. ASSUME NEW r \in q.links PROVE r.to \in view.there \/ \E l \in p.links : l.at = r.at /\ l.to = r.to
  <2>1. PICK l \in p.links : r = Fix!Repair(l, Fix!Issues(view))
    BY <1>1, MendedIs
  <2>2. IsLink(l)
    BY DEF IsPage
  <2> QED
    BY <2>1, <2>2, RepairIs
<1> QED
  BY <1>1, <1>2, <1>3

-----------------------------------------------------------------------------
(* The first round of repairs, and any later one, of a page that was seen   *)
(* as it is.                                                                *)
LEMMA RoundOnce ==
  ASSUME FixInv, NEW p, p = note
  PROVE  Once(Fix!Repaired(p, Fix!Issues(Fix!View)))
<1>1. PICK I : I = Fix!Issues(Fix!View)
  OBVIOUS
<1>2. Fix!View.page = p /\ Fix!View.there = others /\ Fix!View.files = files /\ others \subseteq Others /\ IsPage(p) /\ registered \in Places
  BY DEF Fix!View, FixInv
<1>3. PICK q : q = Fix!Repaired(p, I)
  OBVIOUS
<1>4. q.wrapped = Fix!Unwrapped(p, I) /\ q.path = Fix!Placed(p, I)
  BY <1>1, <1>2, <1>3, MendedIs
<1>5. ~q.wrapped
  <2>1. PICK view : view = Fix!View
    OBVIOUS
  <2>2. view.page.wrapped => \E i \in Fix!Issues(view) : i.kind = "wrapped"
    BY IsReported
  <2>3. p.wrapped => \E i \in I : i.kind = "wrapped"
    BY <1>1, <1>2, <2>1, <2>2
  <2> QED
    BY <1>4, <2>3 DEF Fix!Unwrapped
<1>6. q.path \in files \cap Raw \/ registered \notin files \cap Raw
  <2>1. CASE \E i \in I : i.kind = "path"
    <3>1. \A i \in I : i.kind = "path" => i.new = {registered}
      BY <1>1, IssueIs
    <3>2. PICK r : r = CHOOSE m \in Places : \E i \in I : i.kind = "path" /\ i.new = {m}
      OBVIOUS
    <3>3. \E i \in I : i.kind = "path" /\ i.new = {r}
      BY <1>2, <2>1, <3>1, <3>2
    <3>4. r = registered
      BY <3>1, <3>3
    <3>5. q.path = registered
      BY <1>4, <2>1, <3>2, <3>4 DEF Fix!Placed
    <3> QED
      BY <3>5
  <2>2. CASE ~ \E i \in I : i.kind = "path"
    <3>1. p.path \in files \cap Raw \/ registered \notin files
      BY <1>1, <1>2, <2>2, IsReported
    <3>2. q.path = p.path
      BY <1>4, <2>2 DEF Fix!Placed
    <3> QED
      BY <3>1, <3>2
  <2> QED
    BY <2>1, <2>2
<1>7. ASSUME NEW r \in q.links, r.at = "body", r.form = "dotted" PROVE FALSE
  <2>1. PICK l \in p.links : r = Fix!Repair(l, I)
    BY <1>1, <1>2, <1>3, MendedIs
  <2>2. IsLink(l)
    BY <1>2 DEF IsPage
  <2>3. r = l /\ \A i \in I : ~(i.kind = "malformed" /\ Fix!Written(l, i, "dotted"))
    BY <1>1, <1>2, <1>7, <2>1, <2>2, RepairIs
  <2>4. l \in Fix!Known(p)
    BY <1>7, <2>3 DEF Fix!Known
  <2>5. \E i \in I : i.kind = "malformed" /\ i.old = l.to /\ i.at = l.at
    BY <1>1, <1>2, <1>7, <2>3, <2>4, IsReported
  <2> QED
    BY <1>7, <2>3, <2>5 DEF Fix!Written
<1> QED
  BY <1>1, <1>3, <1>5, <1>6, <1>7 DEF Once

LEMMA RoundTwice ==
  ASSUME FixInv, NEW p, p = note, Once(p)
  PROVE  Twice(Fix!Repaired(p, Fix!Issues(Fix!View)))
<1>1. PICK I : I = Fix!Issues(Fix!View)
  OBVIOUS
<1>2. Fix!View.page = p /\ Fix!View.there = others /\ others \subseteq Others /\ IsPage(p)
  BY DEF Fix!View, FixInv
<1>3. PICK q : q = Fix!Repaired(p, I)
  OBVIOUS
<1>4. Once(q)
  BY <1>1, <1>3, RoundOnce
<1>0. \A l : Fix!Candidates(Fix!View, l.to) = Namesakes(l.to)
  BY <1>2 DEF Fix!Candidates, Namesakes
<1>5. Fix!Known(p) = p.links
  BY DEF Fix!Known, Once
<1>6. ASSUME NEW r \in q.links PROVE r.form # "dotted" /\ ~Promised(r)
  <2>1. PICK l \in p.links : r = Fix!Repair(l, I) /\ ~Fix!Removed(l, I)
    BY <1>1, <1>2, <1>3, MendedIs
  <2>2. IsLink(l) /\ l \in Fix!Known(p)
    BY <1>2, <1>5 DEF IsPage
  <2>3. CASE r.form = "plain" /\ r.to \in others
    BY <1>2, <2>3 DEF Promised
  <2>4. CASE l.form = "dotted" /\ r.form = "plain" /\ r.at = l.at
    <3>1. l.at # "body"
      BY <2>4 DEF Once
    <3> QED
      BY <2>4, <3>1 DEF Promised
  <2>5. CASE /\ r = l
             /\ \A i \in I : ~(i.kind = "moved" /\ Fix!Written(l, i, "plain")) /\ ~(i.kind = "malformed" /\ Fix!Written(l, i, "dotted"))
    <3>1. l.form # "dotted"
      BY <1>1, <1>2, <2>2, <2>5, IsReported DEF Fix!Written
    <3>2. ASSUME Promised(l) PROVE FALSE
      <4>1. l.at = "body" /\ l.form = "plain" /\ l.to \notin others /\ (l.to = Fix!Empty \/ Fix!Cardinality(Fix!Candidates(Fix!View, l.to)) = 1)
        BY <1>0, <3>2 DEF Promised
      <4>2. CASE l.to = Fix!Empty
        <5>1. PICK i \in I : i.kind = "empty" /\ i.old = l.to /\ i.at = "body"
          BY <1>1, <1>2, <2>2, <4>1, <4>2, IsReported
        <5> QED
          BY <2>1, <4>1, <5>1 DEF Fix!Removed, Fix!Matched, Fix!Written
      <4>3. CASE l.to # Fix!Empty
        <5>1. PICK i \in I : i.kind = "moved" /\ i.old = l.to /\ i.at = "body"
          BY <1>1, <1>2, <2>2, <4>1, <4>3, IsReported
        <5> QED
          BY <2>5, <4>1, <5>1 DEF Fix!Written
      <4> QED
        BY <4>2, <4>3
    <3> QED
      BY <2>5, <3>1, <3>2
  <2> QED
    BY <1>1, <1>2, <2>1, <2>2, <2>3, <2>4, <2>5, RepairIs
<1> QED
  BY <1>1, <1>3, <1>4, <1>6 DEF Twice

(* Two rounds leave nothing that a repair is promised for. *)
LEMMA SettledByRounds ==
  ASSUME FixInv, Twice(note)
  PROVE  Fix!Settled
<1>1. Fix!View.page = note /\ Fix!View.there = others /\ Fix!View.files = files
  BY DEF Fix!View
<1>2. \A l \in note.links : IsLink(l) /\ l.form # "dotted" /\ ~Promised(l)
  BY DEF FixInv, IsPage, Twice
<1>3. ASSUME NEW i \in Fix!Issues(Fix!View), i.kind = "path" PROVE registered \notin Raw
  BY <1>1, <1>3, IssueIs DEF Twice, Once
<1>4. ASSUME NEW i \in Fix!Issues(Fix!View), i.kind \in {"empty", "moved", "malformed"},
             NEW l \in note.links, l.at = "body", l.to = i.old
      PROVE  l.form = "blank"
  <2>1. i.kind # "malformed"
    BY <1>1, <1>2, IssueIs DEF Fix!Known
  <2>2. l.to \notin others
    BY <1>1, <1>4, <2>1, IssueIs
  <2>3. l.to = Fix!Empty \/ Fix!Cardinality(Fix!Candidates(Fix!View, l.to)) = 1
    BY <1>4, <2>1, IssueIs
  <2>4. Fix!Candidates(Fix!View, l.to) = Namesakes(l.to)
    BY <1>1 DEF Fix!Candidates, Namesakes
  <2> QED
    BY <1>2, <1>4, <2>2, <2>3, <2>4 DEF Promised, IsLink
<1> QED
  BY <1>3, <1>4 DEF Fix!Settled, Twice, Once

(* A round that repairs nothing leaves nothing. *)
LEMMA SettledByRest ==
  ASSUME FixInv, ~Fix!Counts(note, Fix!Issues(Fix!View))
  PROVE  Fix!Settled
<1>1. PICK p : p = note
  OBVIOUS
<1>2. PICK I : I = Fix!Issues(Fix!View)
  OBVIOUS
<1>3. Fix!View.page = p /\ Fix!View.there = others /\ Fix!View.files = files /\ others \subseteq Others /\ IsPage(p)
  BY <1>1 DEF Fix!View, FixInv
<1>4. Fix!Repaired(p, I) = p /\ \A i \in I : i.at = "body" => i.kind \notin {"empty", "moved", "malformed"}
  BY <1>1, <1>2 DEF Fix!Counts
<1>5. Once(p)
  BY <1>1, <1>2, <1>4, RoundOnce
<1>6. \A r \in p.links : \E l \in p.links : r = Fix!Repair(l, I)
  BY <1>2, <1>3, <1>4, MendedIs
<1>7. ASSUME NEW i \in I, i.kind = "malformed" PROVE FALSE
  <2>1. PICK r \in Fix!Known(p) : r.form = "dotted" /\ i.old = r.to /\ i.at = r.at
    BY <1>2, <1>3, <1>7, IssueIs
  <2>2. r \in p.links
    BY <2>1 DEF Fix!Known
  <2>3. PICK l \in p.links : r = Fix!Repair(l, I)
    BY <1>6, <2>2
  <2>4. IsLink(l)
    BY <1>3 DEF IsPage
  <2>5. r = l /\ \A j \in I : ~(j.kind = "malformed" /\ Fix!Written(l, j, "dotted"))
    BY <1>2, <1>3, <2>1, <2>3, <2>4, RepairIs
  <2> QED
    BY <1>7, <2>1, <2>5 DEF Fix!Written
<1>8. \A i \in I : i.kind \notin {"empty", "moved", "malformed"}
  BY <1>2, <1>4, <1>7, IssueIs
<1>9. ASSUME NEW i \in I, i.kind = "path" PROVE registered \notin Raw
  BY <1>2, <1>3, <1>5, <1>9, IssueIs DEF Once
<1> QED
  BY <1>1, <1>2, <1>5, <1>8, <1>9 DEF Fix!Settled, Once

-----------------------------------------------------------------------------
(* The answer of a model is written over what was read: links to pages that *)
(* were there are not relinked.                                             *)
LEMMA RelinkedIs ==
  ASSUME FixInv, NEW i \in Fix!Asked, NEW name \in Fix!Answers, NEW p, p = [read EXCEPT !.links = Fix!Relinked(@, i, name)]
  PROVE  /\ IsPage(p)
         /\ \A l \in read.links : l.to \in seen.there => Has(p.links, l)
         /\ \A r \in p.links : r.to \in seen.there \/ r \in read.links
<1>1. i \in Fix!Issues(seen) /\ i.old \notin seen.there /\ name \in seen.there
  BY IssueIs DEF Fix!Asked, Fix!Answers
<1>2. PICK old : old = read
  OBVIOUS
<1>3. IsPage(old)
  BY <1>2 DEF FixInv
<1>4. PICK links : links = Fix!Relinked(old.links, i, name)
  OBVIOUS
<1>5. p = [old EXCEPT !.links = links]
  BY <1>2, <1>4
<1>6. p.links = links /\ p.wrapped = old.wrapped /\ p.path = old.path /\ p = [links |-> p.links, wrapped |-> p.wrapped, path |-> p.path]
  BY <1>3, <1>5 DEF IsPage
<1> DEFINE New(l) == IF Fix!Matched(l, i, "plain") \/ (i.at = "meta" /\ Fix!Matched(l, i, "dotted"))
                     THEN [l EXCEPT !.to = name, !.form = "plain"] ELSE l
<1>7. links = {New(l) : l \in old.links}
  BY <1>4 DEF Fix!Relinked
<1>8. ASSUME NEW l \in old.links PROVE IsLink(New(l)) /\ (New(l).to = name \/ New(l) = l)
  <2>1. IsLink(l)
    BY <1>3 DEF IsPage
  <2>2. CASE New(l) = l
    BY <2>1, <2>2
  <2>3. CASE New(l) = [l EXCEPT !.to = name, !.form = "plain"]
    <3>1. PICK r : r = New(l)
      OBVIOUS
    <3>2. r.at = l.at /\ r.to = name /\ r.form = "plain" /\ r = [at |-> r.at, to |-> r.to, form |-> r.form]
      BY <2>1, <2>3, <3>1 DEF IsLink
    <3> QED
      BY <2>1, <3>1, <3>2 DEF IsLink
  <2> QED
    BY <2>2, <2>3
<1>9. \A l \in old.links : l.to \in seen.there => New(l) = l
  BY <1>1 DEF Fix!Matched, Fix!Written
<1>10. \A l \in old.links : l.to \in seen.there => l \in links
  <2> SUFFICES ASSUME NEW l \in old.links, l.to \in seen.there PROVE l \in links
    OBVIOUS
  <2>1. New(l) \in links /\ New(l) = l
    BY <1>7, <1>9
  <2> QED
    BY <2>1
<1>11. \A r \in links : \E l \in old.links : r = New(l)
  BY <1>7
<1>12. \A r \in links : IsLink(r) /\ (r.to = name \/ r \in old.links)
  <2> HIDE DEF New
  <2> QED
    BY <1>8, <1>11
<1>13. IsPage(p)
  BY <1>3, <1>6, <1>12 DEF IsPage
<1> QED
  BY <1>1, <1>2, <1>6, <1>10, <1>12, <1>13 DEF Has

LEMMA FixStarts == Fix!Init => FixInv
<1> SUFFICES ASSUME Fix!Init PROVE FixInv
  OBVIOUS
<1>1. PICK l \in Fix!Links, m \in Fix!Links : note \in [links : {{l, m}}, wrapped : BOOLEAN, path : Places]
  BY DEF Fix!Init
<1>2. \A k \in {l, m} : IsLink(k)
  BY DEF Fix!Links, IsLink
<1>3. IsPage(note)
  BY <1>1, <1>2 DEF IsPage
<1>4. seen = Fix!View /\ seen.page = note /\ seen.there = others /\ seen.files = files
  BY DEF Fix!Init, Fix!View
<1>5. seen = [page |-> seen.page, there |-> seen.there, files |-> seen.files]
  BY <1>4 DEF Fix!View
<1>6. Undisturbed
  BY <1>4 DEF Fix!Init, Undisturbed, Fix!FixSettles
<1> QED
  BY <1>3, <1>4, <1>5, <1>6 DEF Fix!Init, FixInv

-----------------------------------------------------------------------------
(* The command, step by step. *)
LEMMA ViewIs ==
  ASSUME FixInv
  PROVE  /\ Fix!View.page = note /\ Fix!View.there = others /\ Fix!View.files = files
         /\ Fix!View = [page |-> Fix!View.page, there |-> Fix!View.there, files |-> Fix!View.files]
BY DEF Fix!View

(* What is reported does not change while the vault does not.               *)
LEMMA SameIssues ==
  ASSUME UNCHANGED <<note, others, files, registered>>
  PROVE  Fix!Settled' <=> Fix!Settled
<1>1. Fix!View' = Fix!View
  BY DEF Fix!View
<1>2. Fix!Known(Fix!View.page)' = Fix!Known(Fix!View.page)
  BY <1>1 DEF Fix!Known
<1>3. Fix!Broken(Fix!View)' = Fix!Broken(Fix!View)
  BY <1>1, <1>2, Zenon DEF Fix!Broken, Fix!Candidates
<1>4. Fix!Stale(Fix!View)' = Fix!Stale(Fix!View) /\ Fix!Malformed(Fix!View)' = Fix!Malformed(Fix!View)
  BY <1>1, <1>2, Zenon DEF Fix!Stale, Fix!Malformed
<1>5. Fix!DeadPath(Fix!View)' = Fix!DeadPath(Fix!View) /\ Fix!Wrapped(Fix!View)' = Fix!Wrapped(Fix!View)
  BY <1>1, Zenon DEF Fix!DeadPath, Fix!Wrapped
<1>6. Fix!Issues(Fix!View)' = Fix!Issues(Fix!View)
  BY <1>3, <1>4, <1>5 DEF Fix!Issues
<1> QED
  BY <1>6 DEF Fix!Settled

LEMMA LintKeeps ==
  ASSUME FixInv, Fix!Lint \/ Fix!Relint
  PROVE  FixInv'
<1>1. /\ stage \in {"lint", "relint"} /\ seen' = Fix!View /\ stage' \in {"ask", "fix"} /\ (stage' = "ask" => stage = "lint")
      /\ UNCHANGED <<note, others, files, registered, read, round, added, fixEdits>>
  BY DEF Fix!Lint, Fix!Relint, Fix!Go
<1>2. seen'.there = others /\ seen' = [page |-> seen'.page, there |-> seen'.there, files |-> seen'.files]
  BY <1>1, ViewIs
<1>3. seen' = Fix!View'
  BY <1>1 DEF Fix!View
<1>4. IsPage(note') /\ IsPage(read')
  BY <1>1 DEF FixInv
<1>5. \A a \in added' :
           /\ a = [link |-> a.link, calm |-> a.calm]
           /\ a.calm /\ a.link.to \in others' => a.link.to \in seen'.there /\ Has(note'.links, a.link)
  BY <1>1, <1>2 DEF FixInv
<1>6. fixEdits' = 0 => Undisturbed'
  <2> SUFFICES ASSUME fixEdits' = 0 PROVE Undisturbed'
    OBVIOUS
  <2>1. (round >= 1 => Once(note)) /\ (round >= 2 => Twice(note))
    BY <1>1 DEF FixInv, Undisturbed
  <2>2. (round' >= 1 => Once(note)') /\ (round' >= 2 => Twice(note)')
    BY <1>1, <2>1 DEF Once, Twice, Promised, Namesakes
  <2> QED
    BY <1>1, <1>3, <2>2 DEF Undisturbed, Fix!FixSettles
<1> QED
  BY <1>1, <1>2, <1>4, <1>5, <1>6 DEF FixInv

LEMMA AskKeeps ==
  ASSUME FixInv, Fix!AskModel
  PROVE  FixInv'
<1>1. /\ stage = "ask" /\ UNCHANGED <<note, others, files, registered, seen, round, added, fixEdits>>
      /\ (stage' = "fix" /\ read' = read) \/ (stage' = "answer" /\ read' = note)
  BY DEF Fix!AskModel, Fix!Go, Fix!PageRead
<1>2. IsPage(note') /\ IsPage(read')
  BY <1>1 DEF FixInv
<1>3. \A a \in added' :
           /\ a = [link |-> a.link, calm |-> a.calm]
           /\ a.calm /\ a.link.to \in others' =>
                  a.link.to \in seen'.there /\ Has(note'.links, a.link) /\ (stage' = "answer" => Has(read'.links, a.link))
  BY <1>1 DEF FixInv
<1>4. fixEdits' = 0 => Undisturbed'
  BY <1>1 DEF FixInv, Undisturbed, Fix!FixSettles, Fix!View
<1> QED
  BY <1>1, <1>2, <1>3, <1>4 DEF FixInv

(* What LinksKept says of a page that is written. *)
Linked(before, after) ==
    /\ \A l \in before : l.to \in seen.there => Has(after, l)
    /\ \A r \in after : r.to \in seen.there \/ Has(note.links, r) \/ \E k \in before : r.to = k.to

LEMMA AnswerKeeps ==
  ASSUME FixInv, Fix!Answer
  PROVE  FixInv' /\ Linked(read.links, note'.links)
<1>1. stage = "answer" /\ stage' = "fix" /\ round = 0 /\ UNCHANGED <<others, files, registered, read, round, added, fixEdits>>
  BY DEF Fix!Answer, Fix!Go, FixInv
<1>2. CASE UNCHANGED <<note, seen>>
  <2>1. read.links \subseteq note.links
    BY <1>1 DEF FixInv
  <2>2. IsPage(note') /\ IsPage(read')
    BY <1>1, <1>2 DEF FixInv
  <2>3. \A a \in added' :
           /\ a = [link |-> a.link, calm |-> a.calm]
           /\ a.calm /\ a.link.to \in others' => a.link.to \in seen'.there /\ Has(note'.links, a.link)
    BY <1>1, <1>2 DEF FixInv
  <2>4. fixEdits' = 0 => Undisturbed'
    BY <1>1, <1>2 DEF FixInv, Undisturbed, Fix!FixSettles, Fix!View
  <2>5. FixInv'
    BY <1>1, <1>2, <2>2, <2>3, <2>4 DEF FixInv
  <2>6. Linked(read.links, note'.links)
    <3>1. \A l \in read.links : Has(note'.links, l)
      BY <1>2, <2>1 DEF Has
    <3>2. \A r \in note'.links : Has(note.links, r)
      BY <1>2 DEF Has
    <3> QED
      BY <3>1, <3>2 DEF Linked
  <2> QED
    BY <2>5, <2>6
<1>3. CASE \E i \in Fix!Asked, name \in Fix!Answers : note' = [read EXCEPT !.links = Fix!Relinked(@, i, name)] /\ seen' = [Fix!View EXCEPT !.page = note']
  <2>1. PICK i \in Fix!Asked, name \in Fix!Answers : note' = [read EXCEPT !.links = Fix!Relinked(@, i, name)] /\ seen' = [Fix!View EXCEPT !.page = note']
    BY <1>3
  <2>2. PICK p : p = note'
    OBVIOUS
  <2>3. /\ IsPage(p) /\ \A l \in read.links : l.to \in seen.there => Has(p.links, l)
        /\ \A r \in p.links : r.to \in seen.there \/ r \in read.links
    BY <2>1, <2>2, RelinkedIs
  <2>4. seen' = Fix!View' /\ seen'.there = others /\ seen' = [page |-> seen'.page, there |-> seen'.there, files |-> seen'.files]
    BY <1>1, <2>1 DEF Fix!View
  <2>5. IsPage(read')
    BY <1>1 DEF FixInv
  <2>6. ASSUME NEW a \in added', a.calm, a.link.to \in others' PROVE Has(note'.links, a.link)
    <3>1. a.link.to \in seen.there /\ Has(read.links, a.link)
      BY <1>1, <2>6 DEF FixInv
    <3>2. PICK l \in read.links : l.at = a.link.at /\ l.to = a.link.to
      BY <3>1 DEF Has
    <3>3. Has(p.links, l)
      BY <2>3, <3>1, <3>2
    <3> QED
      BY <2>2, <3>2, <3>3 DEF Has
  <2>7. \A a \in added' :
           /\ a = [link |-> a.link, calm |-> a.calm]
           /\ a.calm /\ a.link.to \in others' => a.link.to \in seen'.there /\ Has(note'.links, a.link)
    BY <1>1, <2>4, <2>6 DEF FixInv
  <2>8. Undisturbed'
    BY <1>1, <2>4 DEF Undisturbed, Fix!FixSettles
  <2>9. FixInv'
    BY <1>1, <2>2, <2>3, <2>4, <2>5, <2>7, <2>8 DEF FixInv
  <2> QED
    BY <2>2, <2>3, <2>9 DEF Linked
<1> QED
  BY <1>2, <1>3 DEF Fix!Answer

LEMMA FixKeeps ==
  ASSUME FixInv, Fix!Fix
  PROVE  FixInv' /\ Linked(note.links, note'.links)
<1>1. stage = "fix" /\ UNCHANGED <<others, files, registered, seen, read, added, fixEdits>>
  BY DEF Fix!Fix
<1>2. PICK p : p = note
  OBVIOUS
<1>3. IsPage(p) /\ seen.there \subseteq Others /\ round \in Nat
  BY <1>2 DEF FixInv
<1>4. CASE note' = Fix!Repaired(note, Fix!Issues(seen)) /\ round' = round + 1 /\ stage' = "relint"
  <2>1. PICK q : q = Fix!Repaired(p, Fix!Issues(seen))
    OBVIOUS
  <2>2. note' = q
    BY <1>2, <1>4, <2>1
  <2>3. IsPage(q)
    BY <1>3, <2>1, MendedIs
  <2>4. /\ \A l \in p.links : l.to \in seen.there => Has(q.links, l)
        /\ \A r \in q.links : r.to \in seen.there \/ \E l \in p.links : l.at = r.at /\ l.to = r.to
    BY <1>3, <2>1, RepairsKeepLinks
  <2>5. ASSUME NEW a \in added', a.calm, a.link.to \in others' PROVE Has(note'.links, a.link)
    <3>1. a.link.to \in seen.there /\ Has(p.links, a.link)
      BY <1>1, <1>2, <2>5 DEF FixInv
    <3>2. PICK l \in p.links : l.at = a.link.at /\ l.to = a.link.to
      BY <3>1 DEF Has
    <3>3. Has(q.links, l)
      BY <2>4, <3>1, <3>2
    <3> QED
      BY <2>2, <3>2, <3>3 DEF Has
  <2>6. \A a \in added' :
           /\ a = [link |-> a.link, calm |-> a.calm]
           /\ a.calm /\ a.link.to \in others' => a.link.to \in seen'.there /\ Has(note'.links, a.link)
    BY <1>1, <2>5 DEF FixInv
  <2>7. ASSUME fixEdits' = 0 PROVE Undisturbed'
    <3>1. seen = Fix!View /\ (round >= 1 => Once(p))
      BY <1>1, <1>2, <2>7 DEF FixInv, Undisturbed
    <3>2. Once(q)
      BY <1>2, <2>1, <3>1, RoundOnce
    <3>3. round' >= 2 => Twice(q)
      BY <1>2, <1>3, <1>4, <2>1, <3>1, RoundTwice
    <3>4. Once(note)' /\ (round' >= 2 => Twice(note)')
      BY <1>1, <2>2, <3>2, <3>3 DEF Once, Twice, Promised, Namesakes
    <3> QED
      BY <1>4, <3>4 DEF Undisturbed, Fix!FixSettles
  <2>8. FixInv'
    <3>1. IsPage(note') /\ IsPage(read')
      BY <1>1, <2>2, <2>3 DEF FixInv
    <3>2. round' \in Nat
      BY <1>3, <1>4
    <3> QED
      BY <1>1, <1>4, <2>6, <2>7, <3>1, <3>2 DEF FixInv
  <2> QED
    BY <1>2, <2>2, <2>4, <2>8 DEF Linked
<1>5. CASE ~(round < Fix!Rounds /\ Fix!Counts(note, Fix!Issues(seen))) /\ stage' = "end" /\ UNCHANGED <<note, round>>
  <2>1. IsPage(note') /\ IsPage(read')
    BY <1>1, <1>5 DEF FixInv
  <2>2. \A a \in added' :
           /\ a = [link |-> a.link, calm |-> a.calm]
           /\ a.calm /\ a.link.to \in others' => a.link.to \in seen'.there /\ Has(note'.links, a.link)
    BY <1>1, <1>5 DEF FixInv
  <2>3. ASSUME fixEdits' = 0 PROVE Undisturbed'
    <3>1. Undisturbed /\ seen = Fix!View
      BY <1>1, <2>3 DEF FixInv, Undisturbed
    <3>2. Fix!Settled
      <4>1. CASE round >= 2
        BY <3>1, <4>1, SettledByRounds DEF Undisturbed
      <4>2. CASE ~(round >= 2)
        <5>1. ~Fix!Counts(note, Fix!Issues(Fix!View))
          BY <1>3, <1>5, <3>1, <4>2 DEF Fix!Rounds
        <5> QED
          BY <5>1, SettledByRest
      <4> QED
        BY <4>1, <4>2
    <3>3. Fix!Settled'
      BY <1>1, <1>5, <3>2, SameIssues
    <3>4. (round' >= 1 => Once(note)') /\ (round' >= 2 => Twice(note)')
      BY <1>1, <1>5, <3>1 DEF Undisturbed, Once, Twice, Promised, Namesakes
    <3>5. seen' = Fix!View'
      BY <1>1, <1>5, <3>1 DEF Fix!View
    <3> QED
      BY <1>5, <3>3, <3>4, <3>5 DEF Undisturbed, Fix!FixSettles
  <2>4. FixInv'
    BY <1>1, <1>5, <2>1, <2>2, <2>3 DEF FixInv
  <2>5. Linked(note.links, note'.links)
    BY <1>5 DEF Linked, Has
  <2> QED
    BY <2>4, <2>5
<1> QED
  BY <1>4, <1>5 DEF Fix!Fix, Fix!Go

-----------------------------------------------------------------------------
(* People. *)
LEMMA PeopleKeep ==
  ASSUME FixInv, \/ \E l \in Fix!Links : Fix!AddLink(l)
                 \/ \E n \in Others : Fix!CreateOrDelete(n)
                 \/ \E f \in Places : Fix!MoveFile(f)
  PROVE  FixInv'
<1>1. ASSUME NEW l \in Fix!Links, Fix!AddLink(l) PROVE FixInv'
  <2>1. PICK calm : calm = (stage # "answer" /\ l.to \in seen.there)
    OBVIOUS
  <2>2. PICK new : new = [link |-> l, calm |-> calm]
    OBVIOUS
  <2>3. /\ fixEdits' = fixEdits + 1 /\ added' = added \cup {new}
        /\ note' = [note EXCEPT !.links = @ \cup {l}]
        /\ UNCHANGED <<others, files, registered, stage, seen, read, round>>
    BY <1>1, <2>1, <2>2 DEF Fix!AddLink, Fix!Busy
  <2>4. PICK old : old = note
    OBVIOUS
  <2>5. PICK links : links = old.links \cup {l}
    OBVIOUS
  <2>6. note' = [old EXCEPT !.links = links] /\ IsPage(old)
    BY <2>3, <2>4, <2>5 DEF FixInv
  <2>7. note'.links = links /\ note'.wrapped = old.wrapped /\ note' = [links |-> note'.links, wrapped |-> note'.wrapped, path |-> note'.path]
    BY <2>6 DEF IsPage
  <2>8. IsLink(l)
    BY DEF Fix!Links, IsLink
  <2>9. IsPage(note') /\ IsPage(read')
    BY <2>3, <2>5, <2>6, <2>7, <2>8 DEF IsPage, FixInv
  <2>10. new.link = l /\ new.calm = calm /\ new = [link |-> new.link, calm |-> new.calm]
    BY <2>2
  <2>11. Has(note'.links, l) /\ \A k : Has(old.links, k) => Has(note'.links, k)
    BY <2>5, <2>7 DEF Has
  <2>12. ASSUME NEW a \in added'
         PROVE  /\ a = [link |-> a.link, calm |-> a.calm]
                /\ a.calm /\ a.link.to \in others' =>
                      a.link.to \in seen'.there /\ Has(note'.links, a.link) /\ (stage' = "answer" => Has(read'.links, a.link))
    <3>1. CASE a \in added
      BY <2>3, <2>4, <2>11, <3>1 DEF FixInv
    <3>2. CASE a = new
      BY <2>1, <2>3, <2>10, <2>11, <3>2
    <3> QED
      BY <2>3, <3>1, <3>2
  <2>13. stage' = "answer" => read'.links \subseteq note'.links
    BY <2>3, <2>4, <2>5, <2>7 DEF FixInv
  <2>14. fixEdits' \in Nat /\ fixEdits' # 0
    BY <2>3 DEF FixInv
  <2> QED
    BY <2>3, <2>9, <2>12, <2>13, <2>14 DEF FixInv
<1>2. ASSUME NEW n \in Others, Fix!CreateOrDelete(n) PROVE FixInv'
  <2>1. /\ fixEdits' = fixEdits + 1 /\ added' = {a \in added : a.link.to # n}
        /\ others' = IF n \in others THEN others \ {n} ELSE others \cup {n}
        /\ UNCHANGED <<note, files, registered, stage, seen, read, round>>
    BY <1>2 DEF Fix!CreateOrDelete, Fix!Busy
  <2>2. IsPage(note') /\ IsPage(read')
    BY <2>1 DEF FixInv
  <2>3. \A a \in added' : a \in added /\ (a.link.to \in others' => a.link.to \in others)
    BY <2>1
  <2>4. fixEdits' \in Nat /\ fixEdits' # 0 /\ others' \subseteq Others
    BY <2>1 DEF FixInv
  <2>5. \A a \in added' :
                /\ a = [link |-> a.link, calm |-> a.calm]
                /\ a.calm /\ a.link.to \in others' =>
                      a.link.to \in seen'.there /\ Has(note'.links, a.link) /\ (stage' = "answer" => Has(read'.links, a.link))
    BY <2>1, <2>3 DEF FixInv
  <2> QED
    BY <2>1, <2>2, <2>4, <2>5 DEF FixInv
<1>3. ASSUME NEW f \in Places, Fix!MoveFile(f) PROVE FixInv'
  <2>1. fixEdits' = fixEdits + 1 /\ UNCHANGED <<note, others, registered, stage, seen, read, round, added>>
    BY <1>3 DEF Fix!MoveFile, Fix!Busy
  <2>2. IsPage(note') /\ IsPage(read')
    BY <2>1 DEF FixInv
  <2>3. fixEdits' \in Nat /\ fixEdits' # 0
    BY <2>1 DEF FixInv
  <2>4. \A a \in added' :
                /\ a = [link |-> a.link, calm |-> a.calm]
                /\ a.calm /\ a.link.to \in others' =>
                      a.link.to \in seen'.there /\ Has(note'.links, a.link) /\ (stage' = "answer" => Has(read'.links, a.link))
    BY <2>1 DEF FixInv
  <2> QED
    BY <2>1, <2>2, <2>3, <2>4 DEF FixInv
<1> QED
  BY <1>1, <1>2, <1>3

LEMMA FixesKeepLinks ==
  ASSUME FixInv
  PROVE  Fix!LinksKept
<1> DEFINE Pairs(links) == {<<l.at, l.to>> : l \in links}
<1>1. ASSUME NEW before, NEW after, Linked(before, after)
      PROVE  /\ \A l \in before : l.to \in seen.there => <<l.at, l.to>> \in Pairs(after)
             /\ \A l \in Pairs(after) \ Pairs(note.links) : l[2] \in seen.there \/ \E k \in before : l[2] = k.to
  <2>1. ASSUME NEW l \in before, l.to \in seen.there PROVE <<l.at, l.to>> \in Pairs(after)
    <3>1. PICK r \in after : r.at = l.at /\ r.to = l.to
      BY <1>1, <2>1 DEF Linked, Has
    <3> QED
      BY <3>1
  <2>2. ASSUME NEW l \in Pairs(after) \ Pairs(note.links) PROVE l[2] \in seen.there \/ \E k \in before : l[2] = k.to
    <3>1. PICK r \in after : l = <<r.at, r.to>>
      OBVIOUS
    <3>2. l[2] = r.to
      BY <3>1
    <3>3. ~Has(note.links, r)
      BY <3>1 DEF Has
    <3> QED
      BY <1>1, <3>2, <3>3 DEF Linked
  <2> QED
    BY <2>1, <2>2
<1>2. PICK view : view = IF Fix!Answer THEN read.links ELSE note.links
  OBVIOUS
<1>3. CASE Fix!Answer \/ Fix!Fix
  <2>1. Linked(view, note'.links)
    BY <1>2, <1>3, AnswerKeeps, FixKeeps
  <2>2. /\ \A l \in view : l.to \in seen.there => <<l.at, l.to>> \in Pairs(note'.links)
        /\ \A l \in Pairs(note'.links) \ Pairs(note.links) : l[2] \in seen.there \/ \E k \in view : l[2] = k.to
    BY <1>1, <2>1
  <2> QED
    BY <1>2, <2>2, Zenon DEF Fix!LinksKept
<1>4. CASE ~(Fix!Answer \/ Fix!Fix)
  BY <1>4 DEF Fix!LinksKept
<1> QED
  BY <1>3, <1>4

LEMMA FixStep == FixInv /\ [Fix!Next]_Fix!vars => FixInv'
<1> SUFFICES ASSUME FixInv, [Fix!Next]_Fix!vars PROVE FixInv'
  OBVIOUS
<1>1. CASE UNCHANGED Fix!vars
  <2>1. IsPage(note') /\ IsPage(read')
    BY <1>1 DEF Fix!vars, FixInv
  <2>2. fixEdits' = 0 => Undisturbed'
    BY <1>1, SameIssues DEF Fix!vars, FixInv, Undisturbed, Fix!FixSettles, Once, Twice, Promised, Namesakes, Fix!View
  <2> QED
    BY <1>1, <2>1, <2>2 DEF Fix!vars, FixInv
<1>2. CASE Fix!Next
  BY <1>2, LintKeeps, AskKeeps, AnswerKeeps, FixKeeps, PeopleKeep DEF Fix!Next
<1> QED
  BY <1>1, <1>2

LEMMA FixShows == FixInv => Fix!FixSettles /\ Fix!EditsKept
<1> SUFFICES ASSUME FixInv PROVE Fix!FixSettles /\ Fix!EditsKept
  OBVIOUS
<1>1. Fix!FixSettles
  BY DEF FixInv, Undisturbed, Fix!FixSettles
<1>2. Fix!EditsKept
  BY DEF FixInv, Fix!EditsKept, Has
<1> QED
  BY <1>1, <1>2

(* Repairs that nobody disturbs mend what they promise; none takes a link   *)
(* from the user, but for the two cases that EditsKept names, for any       *)
(* pages, links, places of sources and number of edits.                     *)
THEOREM RepairsAlwaysHold == Fix!Spec => RepairsHold
<1>1. FixInv /\ [Fix!Next]_Fix!vars => [Fix!Repairing]_Fix!vars
  <2> SUFFICES ASSUME FixInv, [Fix!Next]_Fix!vars PROVE Fix!Repairing
    OBVIOUS
  <2>1. FixInv'
    BY FixStep
  <2>2. Fix!FixSettles' /\ Fix!EditsKept'
    BY <2>1, FixShows, PTL
  <2>3. Fix!LinksKept
    BY FixesKeepLinks
  <2> QED
    BY <2>2, <2>3 DEF Fix!Repairing
<1> QED
  BY FixStarts, FixStep, <1>1, PTL DEF Fix!Spec, RepairsHold

-----------------------------------------------------------------------------
(* What the commands set up *)

(* What is kept of a file, and what an actor does, have these fields.       *)
IsFile(c) == c = [st |-> c.st, user |-> c.user, parts |-> c.parts] /\ c.user \in Nat

IsRun(r) ==
    /\ r = [op |-> r.op, at |-> r.at, alone |-> r.alone, integrated |-> r.integrated, copy |-> r.copy]
    /\ r.alone \in BOOLEAN /\ r.integrated \in BOOLEAN

(* What is there has no text newer than the latest. *)
Fits(c, latest) == IsFile(c) /\ latest \in Nat /\ c.user <= latest

(* A file has no text newer than the latest; text is in a file that can be  *)
(* read, or in one that the user left unreadable.                           *)
Holds(f, c, latest) ==
    /\ Fits(c, latest) /\ c.st \in {"none", "ok", "torn"}
    /\ c.st = "none" \/ (c.st = "torn" /\ f \notin {"settings", "plugin"}) => c.user = 0

(* What was read before a model was asked was text of the file.             *)
Copied(r, contents, latest) ==
    /\ r.at = "integrate" => Fits(r.copy, latest["rule"]) /\ r.copy.st = "ok"
    /\ r.at = "ask persona" => contents["curate"].st # "none"
    /\ r.at = "write persona" => Fits(r.copy, latest["curate"]) /\ r.copy.st = "ok"

(* What a setup that is alone has behind it.                                *)
Behind(r, contents, ours) ==
    r.op = "workspace" /\ r.alone =>
        /\ r.at = "integrated" \/ (r.integrated /\ r.at # "end") => "hooks" \in contents["rule"].parts
        /\ r.at \in {"runtime", "workflows", "block", "persona", "settings"} => "shared" \in ours
        /\ r.at \in {"workflows", "block", "persona", "settings"} => "runtime" \in ours
        /\ r.at \in {"block", "persona", "settings"} => "workflows" \in ours
        /\ r.at \in {"shared", "runtime", "workflows", "block", "persona", "settings"} =>
              ("line" \in contents["curate"].parts => "here" \in contents["curate"].parts)
        /\ r.at \in {"persona", "settings"} => {"block", "hooks"} \cap contents["rule"].parts # {}

SetupInv ==
    /\ run = [a \in Actors |-> run[a]] /\ shared = [f \in Setup!Shared |-> shared[f]] /\ typed = [f \in Setup!Shared |-> typed[f]]
    /\ vault = [f \in Setup!ToSet(Setup!VaultFiles) |-> vault[f]] /\ vault["config"] # "edited"
    /\ typing \in Nat /\ \A f \in Setup!Shared : typed[f] \in Nat /\ typed[f] <= typing
    /\ \A f \in Setup!Shared : Holds(f, shared[f], typed[f])
    /\ Setup!TextKept
    /\ \A a \in Actors : IsRun(run[a]) /\ Copied(run[a], shared, typed) /\ Behind(run[a], shared, owned)
    /\ \A a, b \in Actors : a # b /\ run[a].alone /\ run[a].at # "end" => run[b].at = "end"

-----------------------------------------------------------------------------
LEMMA ActorIdleIs ==
  /\ IsFile(Setup!Missing) /\ Setup!Missing.st = "none" /\ Setup!Missing.user = 0 /\ Setup!Missing.parts = {}
  /\ IsRun(Setup!Idle) /\ Setup!Idle.op = "none" /\ Setup!Idle.at = "end" /\ Setup!Idle.alone = TRUE /\ Setup!Idle.integrated = FALSE
BY DEF Setup!Idle, Setup!Missing, IsFile, IsRun

LEMMA SetupStarts == Setup!Init => SetupInv
<1> SUFFICES ASSUME Setup!Init PROVE SetupInv
  OBVIOUS
<1>1. \A a \in Actors : run[a] = Setup!Idle
  BY DEF Setup!Init
<1>2. \A a \in Actors : IsRun(run[a]) /\ Copied(run[a], shared, typed) /\ Behind(run[a], shared, owned) /\ run[a].at = "end"
  BY <1>1, ActorIdleIs DEF Copied, Behind
<1>3. \A f \in Setup!Shared : typed[f] = 0 /\ (shared[f] = Setup!Missing \/ shared[f] = [Setup!Missing EXCEPT !.st = "ok"])
  BY DEF Setup!Init
<1>4. \A f \in Setup!Shared : Holds(f, shared[f], typed[f]) /\ shared[f].user = typed[f]
  BY <1>3 DEF Holds, Fits, IsFile, Setup!Missing
<1>5. Setup!TextKept
  BY <1>4 DEF Setup!TextKept, Setup!Init
<1>6. vault["config"] # "edited"
  <2>1. "config" \in Setup!ToSet(Setup!VaultFiles)
    BY DEF Setup!ToSet, Setup!VaultFiles
  <2> QED
    BY <2>1 DEF Setup!Init
<1>7. /\ run = [a \in Actors |-> run[a]] /\ shared = [f \in Setup!Shared |-> shared[f]] /\ typed = [f \in Setup!Shared |-> typed[f]]
      /\ vault = [f \in Setup!ToSet(Setup!VaultFiles) |-> vault[f]]
  BY DEF Setup!Init
<1>8. typing = 0 /\ \A f \in Setup!Shared : typed[f] \in Nat /\ typed[f] <= typing
  BY <1>3 DEF Setup!Init
<1>9. \A a, b \in Actors : a # b /\ run[a].alone /\ run[a].at # "end" => run[b].at = "end"
  BY <1>2
<1> QED
  BY <1>2, <1>9, <1>4, <1>5, <1>6, <1>7, <1>8 DEF SetupInv

(* Where an actor goes, what the others do stays.                           *)
LEMMA GoesTo ==
  ASSUME NEW a \in Actors, NEW at, SetupInv, Setup!Goto(a, at)
  PROVE  /\ run'[a] = [run[a] EXCEPT !.at = at] /\ IsRun(run'[a])
         /\ run'[a].op = run[a].op /\ run'[a].at = at /\ run'[a].alone = run[a].alone
         /\ run'[a].integrated = run[a].integrated /\ run'[a].copy = run[a].copy
         /\ run' = [run EXCEPT ![a] = run'[a]]
<1>1. IsRun(run[a]) /\ run = [b \in Actors |-> run[b]]
  BY DEF SetupInv
<1>2. run'[a] = [run[a] EXCEPT !.at = at] /\ run' = [run EXCEPT ![a] = run'[a]]
  BY <1>1 DEF Setup!Goto
<1> QED
  BY <1>1, <1>2 DEF IsRun

(* A step of one actor.  The actors that are alone are at their end, if it  *)
(* is not this one.                                                         *)
LEMMA OneSets ==
  ASSUME NEW a \in Actors, SetupInv, run' = [run EXCEPT ![a] = run'[a]], run[a].at # "end",
         IsRun(run'[a]), run'[a].alone => run[a].alone \/ run'[a].at = "end",
         Copied(run'[a], shared', typed'), Behind(run'[a], shared', owned'),
         owned \subseteq owned', typed' = typed, typing' = typing,
         shared' = [f \in Setup!Shared |-> shared'[f]], \A f \in Setup!Shared : Holds(f, shared'[f], typed[f]),
         shared["curate"].st # "none" => shared'["curate"].st # "none",
         vault' = [f \in Setup!ToSet(Setup!VaultFiles) |-> vault'[f]], vault'["config"] # "edited", Setup!TextKept'
  PROVE  SetupInv'
<1>1. \A b \in Actors \ {a} : run'[b] = run[b]
  BY DEF SetupInv
<1>2. run' = [b \in Actors |-> run'[b]]
  BY DEF SetupInv
<1>3. ASSUME NEW b \in Actors PROVE IsRun(run'[b]) /\ Copied(run'[b], shared', typed') /\ Behind(run'[b], shared', owned')
  <2>1. CASE b = a
    BY <2>1
  <2>2. CASE b # a
    <3>1. run'[b] = run[b] /\ IsRun(run[b]) /\ Copied(run[b], shared, typed)
      BY <1>1, <2>2 DEF SetupInv
    <3>2. Copied(run'[b], shared', typed')
      BY <3>1 DEF Copied
    <3>3. run[b].alone => run[b].at = "end"
      BY <2>2 DEF SetupInv
    <3>4. Behind(run'[b], shared', owned')
      BY <3>1, <3>3 DEF Behind
    <3> QED
      BY <3>1, <3>2, <3>4
  <2> QED
    BY <2>1, <2>2
<1>4. ASSUME NEW b \in Actors, NEW c \in Actors, b # c, run'[b].alone, run'[b].at # "end" PROVE run'[c].at = "end"
  <2>1. CASE b = a
    BY <1>1, <1>4, <2>1 DEF SetupInv
  <2>2. CASE b # a
    BY <1>1, <1>4, <2>2 DEF SetupInv
  <2> QED
    BY <2>1, <2>2
<1>5. typed' = [f \in Setup!Shared |-> typed'[f]] /\ typing' \in Nat /\ \A f \in Setup!Shared : typed'[f] \in Nat /\ typed'[f] <= typing'
  BY DEF SetupInv
<1>6. \A f \in Setup!Shared : Holds(f, shared'[f], typed'[f])
  OBVIOUS
<1> QED
  BY <1>2, <1>3, <1>4, <1>5, <1>6 DEF SetupInv

(* A write that takes text of the user has a reason.                        *)
Excused(r, f, new) == new.user >= shared[f].user \/ (f = "settings" /\ shared[f].st = "torn") \/ r.copy.st = "ok"

(* The text of the user is kept by what is written over it, or its loss has *)
(* a reason.                                                                *)
LEMMA WriteKeepsText ==
  ASSUME SetupInv, NEW a \in Actors, NEW f \in Setup!Shared \ {"plugin"}, NEW new, NEW at, Setup!Whole(a, f, new, at), UNCHANGED typed,
         Holds(f, new, typed[f]),
         Excused(run[a], f, new)
  PROVE  Setup!TextKept'
<1>1. shared'[f] = new /\ \A g \in Setup!Shared \ {f} : shared'[g] = shared[g]
  BY DEF SetupInv, Setup!Whole
<1>2. Holds(f, shared[f], typed[f]) /\ typed[f] \in Nat /\ Setup!TextKept
  BY DEF SetupInv
<1>3. CASE new.user >= shared[f].user
  <2>1. taken' = taken
    BY <1>3 DEF Setup!Whole
  <2>2. shared[f].user = typed[f] => new.user = typed[f]
    BY <1>2, <1>3 DEF Holds, Fits, IsFile
  <2> QED
    BY <1>1, <1>2, <2>1, <2>2 DEF Setup!TextKept
<1>4. CASE ~ (new.user >= shared[f].user)
  <2>1. PICK why : taken' = taken \cup {<<f, why>>}
                   /\ why = (CASE shared[f].st = "torn" -> "unread" [] run[a].copy.st = "ok" -> "overtaken" [] OTHER -> "replaced")
    BY <1>4 DEF Setup!Lose, Setup!Whole
  <2>2. shared[f].st = "torn" => f = "settings"
    BY <1>2, <1>4 DEF Holds, Fits, IsFile
  <2>3. (why = "unread" /\ f = "settings") \/ why = "overtaken"
    BY <2>1, <2>2, <1>4 DEF Excused
  <2> QED
    BY <1>1, <1>2, <2>1, <2>3 DEF Setup!TextKept
<1> QED
  BY <1>3, <1>4

LEMMA CutKeepsText ==
  ASSUME SetupInv, NEW a \in Actors, NEW f \in Setup!Shared \ {"plugin"}, Setup!CutShort(a, f), UNCHANGED typed
  PROVE  Setup!TextKept'
<1>1. \A g \in Setup!Shared \ {f} : shared'[g] = shared[g]
  BY DEF SetupInv, Setup!CutShort
<1>2. taken' = taken \cup {<<f, "cut">>} /\ Setup!TextKept
  BY DEF Setup!Lose, SetupInv, Setup!CutShort
<1> QED
  BY <1>1, <1>2 DEF Setup!TextKept

LEMMA FileIs ==
  ASSUME NEW st, NEW user \in Nat, NEW parts, NEW new, new = [st |-> st, user |-> user, parts |-> parts]
  PROVE  IsFile(new) /\ new.st = st /\ new.user = user /\ new.parts = parts
<1>1. new.st = st /\ new.user = user /\ new.parts = parts
  OBVIOUS
<1>2. new = [st |-> new.st, user |-> new.user, parts |-> new.parts]
  BY <1>1, Zenon
<1> QED
  BY <1>1, <1>2 DEF IsFile

(* A file with its text, and more of the program's in it. *)
LEMMA WithIs ==
  ASSUME NEW f, NEW latest, NEW c, Fits(c, latest), NEW part
  PROVE  /\ Setup!With(c, part).st = "ok" /\ Setup!With(c, part).user = c.user /\ Setup!With(c, part).parts = c.parts \cup {part}
         /\ Holds(f, Setup!With(c, part), latest)
<1>1. c.user \in Nat
  BY DEF IsFile, Fits
<1>2. IsFile(Setup!With(c, part)) /\ Setup!With(c, part).st = "ok" /\ Setup!With(c, part).user = c.user /\ Setup!With(c, part).parts = c.parts \cup {part}
  BY <1>1, FileIs DEF Setup!With
<1>3. Fits(Setup!With(c, part), latest)
  BY <1>2 DEF Fits
<1> QED
  BY <1>2, <1>3 DEF Holds

LEMMA TornIs == ASSUME NEW f, NEW latest \in Nat PROVE Setup!Torn.st = "torn" /\ Holds(f, Setup!Torn, latest)
<1>1. IsFile(Setup!Torn) /\ Setup!Torn.st = "torn" /\ Setup!Torn.user = 0
  BY DEF Setup!Torn, IsFile
<1> QED
  BY <1>1 DEF Holds, Fits

(* The files when one of them is written. *)
Put(f, new) == [shared EXCEPT ![f] = new]

(* A write in place, whole or cut short. *)
LEMMA WriteKeeps ==
  ASSUME SetupInv, NEW a \in Actors, run[a].at # "end", NEW f \in Setup!Shared \ {"plugin"}, NEW new, NEW at,
         Setup!Write(a, f, new, at), Holds(f, new, typed[f]), new.st = "ok",
         at \notin {"integrate", "ask persona", "write persona"},
         Excused(run[a], f, new),
         \A r : IsRun(r) /\ r.op = run[a].op /\ r.at = at /\ r.alone = run[a].alone /\ r.integrated = run[a].integrated
                => Behind(r, Put(f, new), owned)
  PROVE  SetupInv'
<1>1. /\ shared = [g \in Setup!Shared |-> shared[g]] /\ \A g \in Setup!Shared : Holds(g, shared[g], typed[g])
      /\ run = [b \in Actors |-> run[b]] /\ IsRun(run[a]) /\ typed[f] \in Nat
      /\ vault = [g \in Setup!ToSet(Setup!VaultFiles) |-> vault[g]] /\ vault["config"] # "edited"
  BY DEF SetupInv
<1>2. UNCHANGED <<vault, owned, typed, setups, typing>>
  BY DEF Setup!Write
<1>3. CASE Setup!Whole(a, f, new, at)
  <2>1. Setup!TextKept'
    BY <1>2, <1>3, WriteKeepsText
  <2>2. /\ run' = [run EXCEPT ![a] = run'[a]] /\ IsRun(run'[a]) /\ run'[a].op = run[a].op /\ run'[a].at = at
        /\ run'[a].alone = run[a].alone /\ run'[a].integrated = run[a].integrated
    BY <1>3, GoesTo DEF Setup!Whole
  <2>3. Behind(run'[a], shared', owned')
    BY <1>2, <1>3, <2>2 DEF Setup!Whole, Put
  <2>4. Copied(run'[a], shared', typed')
    BY <2>2 DEF Copied
  <2>5. shared' = [g \in Setup!Shared |-> shared'[g]] /\ (\A g \in Setup!Shared : Holds(g, shared'[g], typed[g]))
        /\ (shared["curate"].st # "none" => shared'["curate"].st # "none")
    BY <1>1, <1>3 DEF Setup!Whole, Setup!Shared
  <2> QED
    BY <1>1, <1>2, <2>1, <2>2, <2>3, <2>4, <2>5, OneSets
<1>4. CASE Setup!CutShort(a, f)
  <2>1. Setup!TextKept'
    BY <1>2, <1>4, CutKeepsText
  <2>3. Setup!Torn.st = "torn" /\ Holds(f, Setup!Torn, typed[f])
    BY <1>1, TornIs
  <2>4. shared' = [g \in Setup!Shared |-> shared'[g]] /\ (\A g \in Setup!Shared : Holds(g, shared'[g], typed[g]))
        /\ (shared["curate"].st # "none" => shared'["curate"].st # "none")
    BY <1>1, <1>4, <2>3 DEF Setup!CutShort, Setup!Shared
  <2>5. run'[a] = Setup!Idle /\ run' = [run EXCEPT ![a] = run'[a]]
    BY <1>1, <1>4 DEF Setup!CutShort
  <2>6. Behind(run'[a], shared', owned') /\ Copied(run'[a], shared', typed') /\ IsRun(run'[a]) /\ run'[a].at = "end"
    BY <2>5, ActorIdleIs DEF Behind, Copied
  <2> QED
    BY <1>1, <1>2, <2>1, <2>4, <2>5, <2>6, OneSets
<1> QED
  BY <1>3, <1>4 DEF Setup!Write

(* A step that touches no file of the user's. *)
LEMMA RestKeeps ==
  ASSUME SetupInv, NEW a \in Actors, run[a].at # "end", run' = [run EXCEPT ![a] = run'[a]],
         IsRun(run'[a]), run'[a].alone => run[a].alone \/ run'[a].at = "end",
         Copied(run'[a], shared, typed), Behind(run'[a], shared, owned'), owned \subseteq owned',
         UNCHANGED <<shared, typed, taken, typing>>,
         vault' = [f \in Setup!ToSet(Setup!VaultFiles) |-> vault'[f]], vault'["config"] # "edited"
  PROVE  SetupInv'
<1>1. shared' = [f \in Setup!Shared |-> shared'[f]] /\ \A f \in Setup!Shared : Holds(f, shared'[f], typed[f])
  BY DEF SetupInv
<1>2. Setup!TextKept'
  BY DEF SetupInv, Setup!TextKept
<1>3. Copied(run'[a], shared', typed') /\ Behind(run'[a], shared', owned') /\ shared' = shared
  OBVIOUS
<1> QED
  BY <1>1, <1>2, <1>3, OneSets

LEMMA SkipKeeps ==
  ASSUME SetupInv, NEW a \in Actors, NEW at, run[a].at # "end", Setup!Skip(a, at),
         at \notin {"integrate", "ask persona", "write persona"},
         \A r : IsRun(r) /\ r.op = run[a].op /\ r.at = at /\ r.alone = run[a].alone /\ r.integrated = run[a].integrated
                => Behind(r, shared, owned)
  PROVE  SetupInv'
<1>1. /\ run' = [run EXCEPT ![a] = run'[a]] /\ IsRun(run'[a]) /\ run'[a].op = run[a].op /\ run'[a].at = at
      /\ run'[a].alone = run[a].alone /\ run'[a].integrated = run[a].integrated
  BY GoesTo DEF Setup!Skip
<1>2. Copied(run'[a], shared, typed) /\ Behind(run'[a], shared, owned') /\ owned' = owned
  BY <1>1 DEF Copied, Setup!Skip
<1>3. vault' = [f \in Setup!ToSet(Setup!VaultFiles) |-> vault'[f]] /\ vault'["config"] # "edited"
  BY DEF Setup!Skip, SetupInv
<1> QED
  BY <1>1, <1>2, <1>3, RestKeeps DEF Setup!Skip

-----------------------------------------------------------------------------
(* The steps *)

LEMMA EditSetup == SetupInv /\ Setup!Edit => SetupInv'
<1> SUFFICES ASSUME SetupInv, Setup!Edit PROVE SetupInv'
  OBVIOUS
<1>1. PICK f \in Setup!Shared, st \in {"ok", "torn"} :
        /\ shared[f].st # "none" /\ (st = "torn" => f \in {"settings", "plugin"})
        /\ shared' = [shared EXCEPT ![f] = [st |-> st, user |-> typing', parts |-> IF f = "plugin" THEN {} ELSE @.parts]]
        /\ typed' = [typed EXCEPT ![f] = typing']
  BY DEF Setup!Edit
<1>2. typing' = typing + 1 /\ run' = Setup!Disturbed /\ UNCHANGED <<vault, owned, taken, setups>>
  BY DEF Setup!Edit
<1>3. PICK parts : parts = (IF f = "plugin" THEN {} ELSE shared[f].parts)
  OBVIOUS
<1>4. shared'[f] = [st |-> st, user |-> typing', parts |-> parts] /\ typed'[f] = typing'
  BY <1>1, <1>3 DEF SetupInv
<1>5. \A g \in Setup!Shared \ {f} : shared'[g] = shared[g] /\ typed'[g] = typed[g]
  BY <1>1 DEF SetupInv
<1>6. typing \in Nat /\ typing' \in Nat /\ typing < typing' /\ \A g \in Setup!Shared : typed[g] \in Nat /\ typed[g] <= typing
  BY <1>2 DEF SetupInv
<1>7. \A g \in Setup!Shared : typed'[g] \in Nat /\ typed'[g] <= typing' /\ typed[g] <= typed'[g]
  BY <1>4, <1>5, <1>6
<1>8. Holds(f, shared'[f], typed'[f]) /\ shared'[f].user = typed'[f] /\ shared'[f].st # "none"
  BY <1>1, <1>4, <1>6 DEF Holds, Fits, IsFile
<1>9. \A g \in Setup!Shared : Holds(g, shared'[g], typed'[g])
  BY <1>5, <1>8 DEF SetupInv
<1>10. Setup!TextKept'
  BY <1>2, <1>5, <1>8 DEF SetupInv, Setup!TextKept
<1>11. ASSUME NEW a \in Actors
       PROVE  /\ IsRun(run'[a]) /\ Copied(run'[a], shared', typed') /\ Behind(run'[a], shared', owned')
              /\ run'[a].alone => run'[a].at = "end"
  <2>1. IsRun(run[a]) /\ Copied(run[a], shared, typed)
    BY DEF SetupInv
  <2>2. run'[a] = [run[a] EXCEPT !.alone = run[a].at = "end"]
    BY <1>2 DEF Setup!Disturbed
  <2>3. IsRun(run'[a]) /\ run'[a].at = run[a].at /\ run'[a].copy = run[a].copy /\ (run'[a].alone <=> run[a].at = "end")
    BY <2>1, <2>2 DEF IsRun
  <2>4. "curate" \in Setup!Shared /\ "rule" \in Setup!Shared
    BY DEF Setup!Shared
  <2>5. shared["curate"].st # "none" => shared'["curate"].st # "none"
    BY <1>5, <1>8, <2>4
  <2>6. ASSUME NEW g \in Setup!Shared, Fits(run[a].copy, typed[g]) PROVE Fits(run[a].copy, typed'[g])
    BY <1>6, <1>7, <2>6 DEF Fits, IsFile
  <2>7. Copied(run'[a], shared', typed')
    BY <2>1, <2>3, <2>4, <2>5, <2>6 DEF Copied
  <2> QED
    BY <2>3, <2>7 DEF Behind
<1>12. run' = [a \in Actors |-> run'[a]]
  BY <1>2 DEF Setup!Disturbed
<1>13. shared' = [g \in Setup!Shared |-> shared'[g]] /\ typed' = [g \in Setup!Shared |-> typed'[g]]
  BY <1>1 DEF SetupInv
<1>14. vault' = [g \in Setup!ToSet(Setup!VaultFiles) |-> vault'[g]] /\ vault'["config"] # "edited"
  BY <1>2 DEF SetupInv
<1> QED
  BY <1>6, <1>7, <1>9, <1>10, <1>11, <1>12, <1>13, <1>14 DEF SetupInv

LEMMA EditVaultSetup == SetupInv /\ Setup!EditVault => SetupInv'
<1> SUFFICES ASSUME SetupInv, Setup!EditVault PROVE SetupInv'
  OBVIOUS
<1>1. typing' = typing + 1 /\ UNCHANGED <<owned, shared, typed, taken, run, setups>>
  BY DEF Setup!EditVault
<1>2. typing' \in Nat /\ \A f \in Setup!Shared : typed'[f] \in Nat /\ typed'[f] <= typing'
  BY <1>1 DEF SetupInv
<1>3. vault' = [f \in Setup!ToSet(Setup!VaultFiles) |-> vault'[f]] /\ vault'["config"] # "edited"
  BY DEF SetupInv, Setup!EditVault
<1>4. Setup!TextKept'
  BY <1>1 DEF SetupInv, Setup!TextKept
<1>5. \A a \in Actors : Copied(run'[a], shared', typed') /\ Behind(run'[a], shared', owned')
  BY <1>1 DEF SetupInv
<1> QED
  BY <1>1, <1>2, <1>3, <1>4, <1>5 DEF SetupInv

LEMMA MoveSetup == SetupInv /\ Setup!Move => SetupInv'
<1> SUFFICES ASSUME SetupInv, Setup!Move PROVE SetupInv'
  OBVIOUS
<1>1. typing' = typing + 1 /\ UNCHANGED <<vault, owned, typed, taken, run, setups>> /\ \A a \in Actors : run[a].at = "end"
  BY DEF Setup!Move
<1>2. typing' \in Nat /\ \A f \in Setup!Shared : typed'[f] \in Nat /\ typed'[f] <= typing'
  BY <1>1 DEF SetupInv
<1>3. ASSUME NEW f \in Setup!Shared
      PROVE  Holds(f, shared'[f], typed'[f]) /\ shared'[f].user = shared[f].user /\ shared'[f].st = shared[f].st
  <2>1. PICK parts : parts = shared[f].parts \ {"here"}
    OBVIOUS
  <2>2. shared'[f] = [shared[f] EXCEPT !.parts = parts] /\ Holds(f, shared[f], typed[f])
    BY <2>1 DEF Setup!Move, SetupInv
  <2> QED
    BY <1>1, <2>2 DEF Holds, Fits, IsFile
<1>4. Setup!TextKept'
  BY <1>1, <1>3 DEF SetupInv, Setup!TextKept
<1>5. \A a \in Actors : Copied(run'[a], shared', typed') /\ Behind(run'[a], shared', owned')
  BY <1>1 DEF Copied, Behind
<1>6. shared' = [f \in Setup!Shared |-> shared'[f]]
  BY DEF Setup!Move
<1>7. vault' = [f \in Setup!ToSet(Setup!VaultFiles) |-> vault'[f]] /\ vault'["config"] # "edited"
  BY <1>1 DEF SetupInv
<1> QED
  BY <1>1, <1>2, <1>3, <1>4, <1>5, <1>6, <1>7 DEF SetupInv

LEMMA BeginSetup == ASSUME NEW a \in Actors, NEW op, SetupInv, Setup!Begin(a, op) PROVE SetupInv'
<1>1. PICK alone, at : /\ alone = (\A b \in Actors : run[b].at = "end")
                       /\ at = (CASE op = "vault" -> "topology" [] op = "workspace" -> "scenario"
                                  [] op = "plugin" -> "plugin" [] op = "persona" -> "ask persona" [] OTHER -> "curate")
  OBVIOUS
<1>2. PICK mine : mine = [Setup!Idle EXCEPT !.op = op, !.alone = alone, !.at = at]
  OBVIOUS
<1>3. run' = [Setup!Disturbed EXCEPT ![a] = mine] /\ UNCHANGED <<vault, owned, shared, typed, taken, typing>> /\ run[a].at = "end"
  BY <1>1, <1>2 DEF Setup!Begin
<1>4. mine = [op |-> op, at |-> at, alone |-> alone, integrated |-> FALSE, copy |-> Setup!Missing]
  BY <1>2 DEF Setup!Idle
<1>5. IsRun(mine) /\ mine.at = at /\ mine.op = op /\ mine.integrated = FALSE /\ (mine.alone <=> alone)
  BY <1>1, <1>4 DEF IsRun
<1>6. at \in {"topology", "scenario", "plugin", "ask persona", "curate"} /\ (at = "ask persona" => op = "persona")
  BY <1>1
<1>7. Copied(mine, shared, typed) /\ Behind(mine, shared, owned)
  BY <1>5, <1>6 DEF Copied, Behind, Setup!Begin
<1>8. run'[a] = mine /\ run' = [b \in Actors |-> run'[b]]
  BY <1>3 DEF Setup!Disturbed
<1>9. ASSUME NEW b \in Actors, b # a
      PROVE  /\ IsRun(run'[b]) /\ Copied(run'[b], shared, typed) /\ Behind(run'[b], shared, owned)
             /\ run'[b].at = run[b].at /\ (run'[b].alone => run'[b].at = "end")
  <2>1. IsRun(run[b]) /\ Copied(run[b], shared, typed)
    BY DEF SetupInv
  <2>2. run'[b] = [run[b] EXCEPT !.alone = run[b].at = "end"]
    BY <1>3, <1>9 DEF Setup!Disturbed
  <2>3. IsRun(run'[b]) /\ run'[b].at = run[b].at /\ run'[b].copy = run[b].copy /\ (run'[b].alone <=> run[b].at = "end")
    BY <2>1, <2>2 DEF IsRun
  <2> QED
    BY <2>1, <2>3 DEF Copied, Behind
<1>10. \A b, c \in Actors : b # c /\ run'[b].alone /\ run'[b].at # "end" => run'[c].at = "end"
  BY <1>1, <1>5, <1>8, <1>9
<1>11. Setup!TextKept'
  BY <1>3 DEF SetupInv, Setup!TextKept
<1>12. \A b \in Actors : IsRun(run'[b]) /\ Copied(run'[b], shared', typed') /\ Behind(run'[b], shared', owned')
  BY <1>3, <1>5, <1>7, <1>8, <1>9
<1> QED
  BY <1>3, <1>8, <1>10, <1>11, <1>12 DEF SetupInv

LEMMA KilledSetup == ASSUME NEW a \in Actors, SetupInv, Setup!Killed(a) PROVE SetupInv'
<1>1. run' = [run EXCEPT ![a] = Setup!Idle] /\ run[a].at # "end" /\ UNCHANGED <<vault, owned, shared, typed, taken, setups, typing>>
  BY DEF Setup!Killed
<1>2. run'[a] = Setup!Idle /\ run' = [run EXCEPT ![a] = run'[a]]
  BY <1>1 DEF SetupInv
<1>3. IsRun(run'[a]) /\ run'[a].at = "end" /\ Copied(run'[a], shared, typed) /\ Behind(run'[a], shared, owned')
  BY <1>2, ActorIdleIs DEF Copied, Behind
<1>4. vault' = [f \in Setup!ToSet(Setup!VaultFiles) |-> vault'[f]] /\ vault'["config"] # "edited"
  BY <1>1 DEF SetupInv
<1> QED
  BY <1>1, <1>2, <1>3, <1>4, RestKeeps

LEMMA PutIs ==
  ASSUME SetupInv, NEW f \in Setup!Shared, NEW new
  PROVE  Put(f, new)[f] = new /\ \A g \in Setup!Shared \ {f} : Put(f, new)[g] = shared[g]
BY DEF SetupInv, Put

LEMMA SharedIs == {"rule", "curate", "settings"} \subseteq Setup!Shared \ {"plugin"} /\ "plugin" \in Setup!Shared
BY DEF Setup!Shared

LEMMA InitVaultSetup == ASSUME NEW a \in Actors, NEW k \in DOMAIN Setup!VaultFiles, SetupInv, Setup!InitVault(a, k) PROVE SetupInv'
<1>1. PICK at : Setup!Goto(a, at) /\ (at = "end" \/ at = "sync" \/ \E j \in DOMAIN Setup!VaultFiles : at = Setup!VaultFiles[j])
  <2>1. k # Len(Setup!VaultFiles) => k + 1 \in DOMAIN Setup!VaultFiles
    BY DEF Setup!VaultFiles
  <2> QED
    BY <2>1 DEF Setup!InitVault
<1>2. at \in {"end", "sync", "topology", "config", "db", "index", "overview", "ledger", "log"}
  BY <1>1 DEF Setup!VaultFiles
<1>3. run[a].at # "end" /\ UNCHANGED <<owned, shared, typed, taken, setups, typing>> /\ vault' = Setup!Made(Setup!VaultFiles[k])
  BY DEF Setup!InitVault, Setup!VaultFiles
<1>4. /\ run' = [run EXCEPT ![a] = run'[a]] /\ IsRun(run'[a]) /\ run'[a].at = at
      /\ run'[a].alone = run[a].alone /\ run'[a].integrated = run[a].integrated /\ run'[a].op = "vault"
  BY <1>1, GoesTo DEF Setup!InitVault
<1>5. Copied(run'[a], shared, typed) /\ Behind(run'[a], shared, owned')
  BY <1>2, <1>4 DEF Copied, Behind
<1>6. vault' = [f \in Setup!ToSet(Setup!VaultFiles) |-> vault'[f]] /\ vault'["config"] # "edited"
  <2>1. vault = [f \in Setup!ToSet(Setup!VaultFiles) |-> vault[f]] /\ vault["config"] # "edited" /\ Setup!VaultFiles[k] \in Setup!ToSet(Setup!VaultFiles)
    BY DEF SetupInv, Setup!ToSet
  <2> QED
    BY <1>3, <2>1 DEF Setup!Made
<1> QED
  BY <1>3, <1>4, <1>5, <1>6, RestKeeps

LEMMA SyncSetup == ASSUME NEW a \in Actors, SetupInv, Setup!Sync(a) PROVE SetupInv'
<1>1. \A r, contents : r.at = "end" => Behind(r, contents, owned)
  BY DEF Behind
<1>2. CASE Setup!Skip(a, "end")
  BY <1>1, <1>2, SkipKeeps DEF Setup!Sync
<1>3. CASE ~ Setup!Skip(a, "end")
  <2>1. PICK new : new = Setup!With(shared["settings"], "here")
    OBVIOUS
  <2>2. Setup!Write(a, "settings", new, "end") /\ run[a].at # "end"
    BY <1>3, <2>1 DEF Setup!Sync
  <2>3. Fits(shared["settings"], typed["settings"])
    BY SharedIs DEF SetupInv, Holds
  <2>4. Holds("settings", new, typed["settings"]) /\ new.st = "ok" /\ new.user = shared["settings"].user
    <3>1. PICK c, latest : c = shared["settings"] /\ latest = typed["settings"]
      OBVIOUS
    <3>2. Fits(c, latest)
      BY <2>3, <3>1
    <3>3. /\ Holds("settings", Setup!With(c, "here"), latest)
          /\ Setup!With(c, "here").st = "ok" /\ Setup!With(c, "here").user = c.user
      BY <3>2, WithIs
    <3> QED
      BY <2>1, <3>1, <3>3
  <2>5. Excused(run[a], "settings", new)
    BY <2>3, <2>4 DEF Excused, Fits, IsFile
  <2>6. \A r : IsRun(r) /\ r.op = run[a].op /\ r.at = "end" /\ r.alone = run[a].alone /\ r.integrated = run[a].integrated
               => Behind(r, Put("settings", new), owned)
    BY <1>1
  <2>7. "settings" \in Setup!Shared \ {"plugin"}
    BY SharedIs
  <2> QED
    BY <2>2, <2>4, <2>5, <2>6, <2>7, WriteKeeps
<1> QED
  BY <1>2, <1>3

LEMMA ScenarioSetup == ASSUME NEW a \in Actors, SetupInv, Setup!Scenario(a) PROVE SetupInv'
<1>1. IsRun(run[a]) /\ Behind(run[a], shared, owned) /\ run[a].at = "scenario"
  BY DEF SetupInv, Setup!Scenario
<1>2. CASE Setup!Skip(a, "curate")
  <2>1. \A r : IsRun(r) /\ r.op = run[a].op /\ r.at = "curate" /\ r.alone = run[a].alone /\ r.integrated = run[a].integrated
               => Behind(r, shared, owned)
    BY <1>1 DEF Behind
  <2> QED
    BY <1>1, <1>2, <2>1, SkipKeeps
<1>3. CASE ~ Setup!Skip(a, "curate")
  <2>1. shared["rule"].st = "ok" /\ run' = [run EXCEPT ![a] = [@ EXCEPT !.at = "integrate", !.copy = shared["rule"]]]
        /\ UNCHANGED <<vault, owned, shared, typed, taken, setups, typing>>
    BY <1>3 DEF Setup!Scenario
  <2>2. run'[a] = [run[a] EXCEPT !.at = "integrate", !.copy = shared["rule"]] /\ run' = [run EXCEPT ![a] = run'[a]]
    BY <2>1 DEF SetupInv
  <2>3. IsRun(run'[a]) /\ run'[a].at = "integrate" /\ run'[a].copy = shared["rule"] /\ run'[a].op = run[a].op
        /\ run'[a].alone = run[a].alone /\ run'[a].integrated = run[a].integrated
    BY <1>1, <2>2 DEF IsRun
  <2>4. Holds("rule", shared["rule"], typed["rule"])
    BY DEF SetupInv, Setup!Shared
  <2>5. Copied(run'[a], shared, typed) /\ Behind(run'[a], shared, owned')
    BY <1>1, <2>1, <2>3, <2>4 DEF Copied, Behind, Holds
  <2>6. vault' = [f \in Setup!ToSet(Setup!VaultFiles) |-> vault'[f]] /\ vault'["config"] # "edited"
    BY <2>1 DEF SetupInv
  <2> QED
    BY <1>1, <2>1, <2>2, <2>3, <2>5, <2>6, RestKeeps
<1> QED
  BY <1>2, <1>3

LEMMA IntegrateSetup == ASSUME NEW a \in Actors, SetupInv, Setup!Integrate(a) PROVE SetupInv'
<1>1. IsRun(run[a]) /\ Behind(run[a], shared, owned) /\ Copied(run[a], shared, typed) /\ run[a].at = "integrate"
  BY DEF SetupInv, Setup!Integrate
<1>2. CASE /\ run' = [run EXCEPT ![a] = [@ EXCEPT !.at = "curate", !.copy = Setup!Missing]]
           /\ UNCHANGED <<vault, owned, shared, typed, taken, setups, typing>>
  <2>1. run'[a] = [run[a] EXCEPT !.at = "curate", !.copy = Setup!Missing] /\ run' = [run EXCEPT ![a] = run'[a]]
    BY <1>2 DEF SetupInv
  <2>2. IsRun(run'[a]) /\ run'[a].at = "curate" /\ run'[a].op = run[a].op
        /\ run'[a].alone = run[a].alone /\ run'[a].integrated = run[a].integrated
    BY <1>1, <2>1 DEF IsRun
  <2>3. Copied(run'[a], shared, typed) /\ Behind(run'[a], shared, owned')
    BY <1>1, <1>2, <2>2 DEF Copied, Behind
  <2>4. vault' = [f \in Setup!ToSet(Setup!VaultFiles) |-> vault'[f]] /\ vault'["config"] # "edited"
    BY <1>2 DEF SetupInv
  <2> QED
    BY <1>1, <1>2, <2>1, <2>2, <2>3, <2>4, RestKeeps
<1>3. CASE Setup!Write(a, "rule", Setup!With(run[a].copy, "hooks"), "integrated")
  <2>1. PICK new : new = Setup!With(run[a].copy, "hooks")
    OBVIOUS
  <2>2. Fits(run[a].copy, typed["rule"]) /\ Excused(run[a], "rule", new)
    BY <1>1 DEF Copied, Excused
  <2>3. "rule" \in Setup!Shared \ {"plugin"}
    BY SharedIs
  <2>4. Holds("rule", new, typed["rule"]) /\ new.st = "ok" /\ "hooks" \in new.parts
    <3>1. Holds("rule", Setup!With(run[a].copy, "hooks"), typed["rule"])
      BY <2>2, WithIs
    <3> QED
      BY <2>1, <3>1 DEF Setup!With
  <2>5. Put("rule", new)["rule"] = new
    BY <2>3, PutIs
  <2>6. \A r : IsRun(r) /\ r.op = run[a].op /\ r.at = "integrated" /\ r.alone = run[a].alone /\ r.integrated = run[a].integrated
               => Behind(r, Put("rule", new), owned)
    BY <2>4, <2>5 DEF Behind
  <2>7. Setup!Write(a, "rule", new, "integrated") /\ run[a].at # "end"
    BY <1>1, <1>3, <2>1
  <2> QED
    BY <2>2, <2>3, <2>4, <2>6, <2>7, WriteKeeps
<1> QED
  BY <1>2, <1>3 DEF Setup!Integrate

LEMMA IntegratedSetup == ASSUME NEW a \in Actors, SetupInv, Setup!Integrated(a) PROVE SetupInv'
<1>1. IsRun(run[a]) /\ Behind(run[a], shared, owned) /\ run[a].at = "integrated"
  BY DEF SetupInv, Setup!Integrated
<1>2. /\ run' = [run EXCEPT ![a] = [@ EXCEPT !.at = "curate", !.integrated = TRUE, !.copy = Setup!Missing]]
      /\ UNCHANGED <<vault, owned, shared, typed, taken, setups, typing>>
  BY DEF Setup!Integrated
<1>3. run'[a] = [run[a] EXCEPT !.at = "curate", !.integrated = TRUE, !.copy = Setup!Missing] /\ run' = [run EXCEPT ![a] = run'[a]]
  BY <1>2 DEF SetupInv
<1>4. IsRun(run'[a]) /\ run'[a].at = "curate" /\ run'[a].op = run[a].op /\ run'[a].alone = run[a].alone
  BY <1>1, <1>3 DEF IsRun
<1>5. Copied(run'[a], shared, typed) /\ Behind(run'[a], shared, owned')
  BY <1>1, <1>2, <1>4 DEF Copied, Behind
<1>6. vault' = [f \in Setup!ToSet(Setup!VaultFiles) |-> vault'[f]] /\ vault'["config"] # "edited"
  BY <1>2 DEF SetupInv
<1> QED
  BY <1>1, <1>2, <1>3, <1>4, <1>5, <1>6, RestKeeps

(* curate.yml: the path is the vault's, or there is no line for it. *)
LEMMA CurateSetup == ASSUME NEW a \in Actors, SetupInv, Setup!EnsureCurateYml(a) PROVE SetupInv'
<1>1. IsRun(run[a]) /\ Behind(run[a], shared, owned) /\ run[a].at = "curate"
  BY DEF SetupInv, Setup!EnsureCurateYml
<1>2. PICK c : c = shared["curate"]
  OBVIOUS
<1>3. PICK new : new = IF c.st = "none" THEN [st |-> "ok", user |-> 0, parts |-> {"line", "here"}] ELSE Setup!Healed(c)
  OBVIOUS
<1>4. IF "here" \in c.parts \/ new = c THEN Setup!Skip(a, "shared") ELSE Setup!Write(a, "curate", new, "shared")
  BY <1>2, <1>3 DEF Setup!EnsureCurateYml, Setup!OwnedFiles
<1>5. Holds("curate", c, typed["curate"]) /\ "curate" \in Setup!Shared \ {"plugin"} /\ typed["curate"] \in Nat
  BY <1>2, SharedIs DEF SetupInv
<1>6. CASE Setup!Skip(a, "shared") /\ ("here" \in c.parts \/ new = c)
  <2>1. "line" \in c.parts => "here" \in c.parts
    <3>1. ASSUME new = c, "line" \in c.parts PROVE "here" \in c.parts
      <4>1. CASE c.st = "none"
        <5>1. new.parts = {"line", "here"}
          BY <1>3, <4>1
        <5> QED
          BY <3>1, <5>1
      <4>2. CASE c.st # "none"
        <5>1. new = Setup!With(c, "here")
          BY <1>3, <3>1, <4>2 DEF Setup!Healed
        <5>2. new.parts = c.parts \cup {"here"}
          BY <5>1 DEF Setup!With
        <5> QED
          BY <3>1, <5>2
      <4> QED
        BY <4>1, <4>2
    <3> QED
      BY <1>6, <3>1
  <2>2. \A r : IsRun(r) /\ r.op = run[a].op /\ r.at = "shared" /\ r.alone = run[a].alone /\ r.integrated = run[a].integrated
               => Behind(r, shared, owned)
    BY <1>1, <1>2, <2>1 DEF Behind
  <2> QED
    BY <1>1, <1>6, <2>2, SkipKeeps
<1>7. CASE Setup!Write(a, "curate", new, "shared") /\ new # c
  <2>1. /\ Holds("curate", new, typed["curate"]) /\ new.st = "ok" /\ Excused(run[a], "curate", new) /\ "here" \in new.parts
    <3>1. CASE c.st = "none"
      <4>1. new = [st |-> "ok", user |-> 0, parts |-> {"line", "here"}] /\ 0 \in Nat
        BY <1>3, <3>1
      <4>2. IsFile(new) /\ new.st = "ok" /\ new.user = 0 /\ new.parts = {"line", "here"}
        BY <4>1, FileIs
      <4>3. shared["curate"].user = 0
        BY <1>2, <1>5, <3>1 DEF Holds
      <4> QED
        BY <1>5, <4>2, <4>3 DEF Excused, Holds, Fits
    <3>2. CASE c.st # "none"
      <4>1. new = Setup!With(c, "here")
        BY <1>3, <1>7, <3>2 DEF Setup!Healed
      <4>2. Holds("curate", Setup!With(c, "here"), typed["curate"])
        BY <1>5, WithIs DEF Holds
      <4>3. new.st = "ok" /\ new.user = c.user /\ new.parts = c.parts \cup {"here"}
        BY <4>1 DEF Setup!With
      <4>4. Excused(run[a], "curate", new)
        BY <1>2, <1>5, <4>3 DEF Excused, Holds, Fits, IsFile
      <4> QED
        BY <4>1, <4>2, <4>3, <4>4
    <3> QED
      BY <3>1, <3>2
  <2>2. Put("curate", new)["curate"] = new /\ Put("curate", new)["rule"] = shared["rule"]
    BY SharedIs, PutIs
  <2>3. \A r : IsRun(r) /\ r.op = run[a].op /\ r.at = "shared" /\ r.alone = run[a].alone /\ r.integrated = run[a].integrated
               => Behind(r, Put("curate", new), owned)
    BY <1>1, <2>1, <2>2 DEF Behind
  <2> QED
    BY <1>1, <1>5, <1>7, <2>1, <2>3, WriteKeeps
<1> QED
  BY <1>4, <1>6, <1>7

LEMMA InstallSetup == ASSUME NEW a \in Actors, NEW k \in DOMAIN Setup!OwnedFiles, SetupInv, Setup!InstallRules(a, k) PROVE SetupInv'
<1>1. PICK at : at = Setup!NextOwned(k)
  OBVIOUS
<1>2. /\ run[a].at = Setup!OwnedFiles[k] /\ owned' = owned \cup {Setup!OwnedFiles[k]} /\ Setup!Goto(a, at)
      /\ UNCHANGED <<vault, shared, typed, taken, setups, typing>>
  BY <1>1 DEF Setup!InstallRules
<1>3. \/ run[a].at = "shared" /\ Setup!OwnedFiles[k] = "shared" /\ at = "runtime"
      \/ run[a].at = "runtime" /\ Setup!OwnedFiles[k] = "runtime" /\ at = "workflows"
      \/ run[a].at = "workflows" /\ Setup!OwnedFiles[k] = "workflows" /\ at = "block"
  BY <1>1, <1>2 DEF Setup!OwnedFiles, Setup!NextOwned
<1>4. /\ run' = [run EXCEPT ![a] = run'[a]] /\ IsRun(run'[a]) /\ run'[a].at = at /\ run'[a].op = run[a].op
      /\ run'[a].alone = run[a].alone /\ run'[a].integrated = run[a].integrated
  BY <1>2, GoesTo
<1>5. Behind(run[a], shared, owned)
  BY DEF SetupInv
<1>6. Behind(run'[a], shared, owned')
  <2>1. CASE run[a].at = "shared" /\ Setup!OwnedFiles[k] = "shared" /\ at = "runtime"
    BY <1>2, <1>4, <1>5, <2>1 DEF Behind
  <2>2. CASE run[a].at = "runtime" /\ Setup!OwnedFiles[k] = "runtime" /\ at = "workflows"
    BY <1>2, <1>4, <1>5, <2>2 DEF Behind
  <2>3. CASE run[a].at = "workflows" /\ Setup!OwnedFiles[k] = "workflows" /\ at = "block"
    BY <1>2, <1>4, <1>5, <2>3 DEF Behind
  <2> QED
    BY <1>3, <2>1, <2>2, <2>3
<1>7. Copied(run'[a], shared, typed) /\ run[a].at # "end"
  BY <1>3, <1>4 DEF Copied
<1>8. vault' = [f \in Setup!ToSet(Setup!VaultFiles) |-> vault'[f]] /\ vault'["config"] # "edited"
  BY <1>2 DEF SetupInv
<1> QED
  BY <1>2, <1>4, <1>6, <1>7, <1>8, RestKeeps

LEMMA BlockSetup == ASSUME NEW a \in Actors, SetupInv, Setup!UpsertManagedBlock(a) PROVE SetupInv'
<1>1. IsRun(run[a]) /\ Behind(run[a], shared, owned) /\ run[a].at = "block"
  BY DEF SetupInv, Setup!UpsertManagedBlock
<1>2. PICK at : at = Setup!AfterBlock(a) /\ (at = "end" \/ at = "persona")
  BY DEF Setup!AfterBlock
<1>3. CASE run[a].integrated /\ Setup!Skip(a, at)
  <2>1. \A r : IsRun(r) /\ r.op = run[a].op /\ r.at = at /\ r.alone = run[a].alone /\ r.integrated = run[a].integrated
               => Behind(r, shared, owned)
    BY <1>1, <1>2, <1>3 DEF Behind
  <2> QED
    BY <1>1, <1>2, <1>3, <2>1, SkipKeeps
<1>4. CASE Setup!Write(a, "rule", Setup!With(shared["rule"], "block"), at)
  <2>1. PICK new : new = Setup!With(shared["rule"], "block")
    OBVIOUS
  <2>2. Fits(shared["rule"], typed["rule"])
    BY SharedIs DEF SetupInv, Holds
  <2>3. Holds("rule", new, typed["rule"]) /\ new.st = "ok" /\ new.user = shared["rule"].user /\ new.parts = shared["rule"].parts \cup {"block"}
    <3>1. Holds("rule", Setup!With(shared["rule"], "block"), typed["rule"])
      BY <2>2, WithIs
    <3> QED
      BY <2>1, <3>1 DEF Setup!With
  <2>4. Excused(run[a], "rule", new)
    BY <2>2, <2>3 DEF Excused, Fits, IsFile
  <2>5. Put("rule", new)["rule"] = new /\ Put("rule", new)["curate"] = shared["curate"]
    BY SharedIs, PutIs
  <2>6. \A r : IsRun(r) /\ r.op = run[a].op /\ r.at = at /\ r.alone = run[a].alone /\ r.integrated = run[a].integrated
               => Behind(r, Put("rule", new), owned)
    BY <1>1, <1>2, <2>3, <2>5 DEF Behind
  <2>7. "rule" \in Setup!Shared \ {"plugin"} /\ Setup!Write(a, "rule", new, at)
    BY <1>4, <2>1, SharedIs
  <2> QED
    BY <1>1, <1>2, <2>3, <2>4, <2>6, <2>7, WriteKeeps
<1> QED
  BY <1>2, <1>3, <1>4 DEF Setup!UpsertManagedBlock

LEMMA PersonaSetup == ASSUME NEW a \in Actors, SetupInv, Setup!SavePersona(a) PROVE SetupInv'
<1>1. IsRun(run[a]) /\ Behind(run[a], shared, owned) /\ run[a].at = "persona"
  BY DEF SetupInv, Setup!SavePersona
<1>2. CASE Setup!Skip(a, "settings")
  <2>1. \A r : IsRun(r) /\ r.op = run[a].op /\ r.at = "settings" /\ r.alone = run[a].alone /\ r.integrated = run[a].integrated
               => Behind(r, shared, owned)
    BY <1>1 DEF Behind
  <2> QED
    BY <1>1, <1>2, <2>1, SkipKeeps
<1>3. CASE Setup!Write(a, "curate", Setup!With(shared["curate"], "persona"), "settings")
  <2>1. PICK new : new = Setup!With(shared["curate"], "persona")
    OBVIOUS
  <2>2. Fits(shared["curate"], typed["curate"])
    BY SharedIs DEF SetupInv, Holds
  <2>3. Holds("curate", new, typed["curate"]) /\ new.st = "ok" /\ new.user = shared["curate"].user
        /\ new.parts = shared["curate"].parts \cup {"persona"}
    <3>1. Holds("curate", Setup!With(shared["curate"], "persona"), typed["curate"])
      BY <2>2, WithIs
    <3> QED
      BY <2>1, <3>1 DEF Setup!With
  <2>4. Excused(run[a], "curate", new)
    BY <2>2, <2>3 DEF Excused, Fits, IsFile
  <2>5. Put("curate", new)["curate"] = new /\ Put("curate", new)["rule"] = shared["rule"]
    BY SharedIs, PutIs
  <2>6. \A r : IsRun(r) /\ r.op = run[a].op /\ r.at = "settings" /\ r.alone = run[a].alone /\ r.integrated = run[a].integrated
               => Behind(r, Put("curate", new), owned)
    BY <1>1, <2>3, <2>5 DEF Behind
  <2>7. "curate" \in Setup!Shared \ {"plugin"} /\ Setup!Write(a, "curate", new, "settings")
    BY <1>3, <2>1, SharedIs
  <2> QED
    BY <1>1, <2>3, <2>4, <2>6, <2>7, WriteKeeps
<1> QED
  BY <1>2, <1>3 DEF Setup!SavePersona

LEMMA SettingsSetup == ASSUME NEW a \in Actors, SetupInv, Setup!MergeSettings(a) PROVE SetupInv'
<1>1. PICK c : c = IF shared["settings"].st = "torn" THEN Setup!Missing ELSE shared["settings"]
  OBVIOUS
<1>2. PICK new : new = Setup!With(c, "here")
  OBVIOUS
<1>3. Setup!Write(a, "settings", new, "end") /\ run[a].at # "end"
  BY <1>1, <1>2 DEF Setup!MergeSettings
<1>4. Fits(shared["settings"], typed["settings"])
  BY SharedIs DEF SetupInv, Holds
<1>5. Fits(c, typed["settings"])
  <2>1. 0 <= typed["settings"]
    BY <1>4 DEF Fits
  <2> QED
    BY <1>1, <1>4, <2>1, ActorIdleIs DEF Fits
<1>6. Holds("settings", new, typed["settings"]) /\ new.st = "ok" /\ new.user = c.user
  <2>1. Holds("settings", Setup!With(c, "here"), typed["settings"])
    BY <1>5, WithIs
  <2> QED
    BY <1>2, <2>1 DEF Setup!With
<1>7. Excused(run[a], "settings", new)
  BY <1>1, <1>4, <1>6 DEF Excused, Fits, IsFile
<1>8. \A r : IsRun(r) /\ r.op = run[a].op /\ r.at = "end" /\ r.alone = run[a].alone /\ r.integrated = run[a].integrated
             => Behind(r, Put("settings", new), owned)
  BY DEF Behind
<1>9. "settings" \in Setup!Shared \ {"plugin"}
  BY SharedIs
<1> QED
  BY <1>3, <1>6, <1>7, <1>8, <1>9, WriteKeeps

LEMMA AskSetup == ASSUME NEW a \in Actors, SetupInv, Setup!AskPersona(a) PROVE SetupInv'
<1>1. IsRun(run[a]) /\ Behind(run[a], shared, owned) /\ Copied(run[a], shared, typed) /\ run[a].at = "ask persona"
  BY DEF SetupInv, Setup!AskPersona
<1>2. CASE Setup!Skip(a, "end")
  <2>1. \A r : IsRun(r) /\ r.op = run[a].op /\ r.at = "end" /\ r.alone = run[a].alone /\ r.integrated = run[a].integrated
               => Behind(r, shared, owned)
    BY DEF Behind
  <2> QED
    BY <1>1, <1>2, <2>1, SkipKeeps
<1>3. CASE shared["curate"].st # "torn" /\ ~ Setup!Skip(a, "end")
  <2>1. /\ run' = [run EXCEPT ![a] = [@ EXCEPT !.at = "write persona", !.copy = shared["curate"]]]
        /\ UNCHANGED <<vault, owned, shared, typed, taken, setups, typing>>
    BY <1>3 DEF Setup!AskPersona
  <2>2. run'[a] = [run[a] EXCEPT !.at = "write persona", !.copy = shared["curate"]] /\ run' = [run EXCEPT ![a] = run'[a]]
    BY <2>1 DEF SetupInv
  <2>3. IsRun(run'[a]) /\ run'[a].at = "write persona" /\ run'[a].copy = shared["curate"] /\ run'[a].op = run[a].op
        /\ run'[a].alone = run[a].alone /\ run'[a].integrated = run[a].integrated
    BY <1>1, <2>2 DEF IsRun
  <2>4. Fits(shared["curate"], typed["curate"]) /\ shared["curate"].st # "none"
    BY <1>1, SharedIs DEF SetupInv, Holds, Copied
  <2>5. shared["curate"].st = "ok"
    BY <1>3, <2>4, SharedIs DEF SetupInv, Holds
  <2>6. Copied(run'[a], shared, typed) /\ Behind(run'[a], shared, owned')
    BY <1>1, <2>1, <2>3, <2>4, <2>5 DEF Copied, Behind
  <2>7. vault' = [f \in Setup!ToSet(Setup!VaultFiles) |-> vault'[f]] /\ vault'["config"] # "edited"
    BY <2>1 DEF SetupInv
  <2> QED
    BY <1>1, <2>1, <2>2, <2>3, <2>6, <2>7, RestKeeps
<1> QED
  BY <1>2, <1>3 DEF Setup!AskPersona

LEMMA WritePersonaSetup == ASSUME NEW a \in Actors, SetupInv, Setup!WritePersona(a) PROVE SetupInv'
<1>1. PICK new : new = Setup!With(run[a].copy, "persona")
  OBVIOUS
<1>2. Setup!Write(a, "curate", new, "end") /\ run[a].at = "write persona"
  BY <1>1 DEF Setup!WritePersona
<1>3. Fits(run[a].copy, typed["curate"]) /\ Excused(run[a], "curate", new)
  BY <1>2 DEF SetupInv, Copied, Excused
<1>4. Holds("curate", new, typed["curate"]) /\ new.st = "ok"
  <2>1. Holds("curate", Setup!With(run[a].copy, "persona"), typed["curate"])
    BY <1>3, WithIs
  <2> QED
    BY <1>1, <2>1 DEF Setup!With
<1>5. \A r : IsRun(r) /\ r.op = run[a].op /\ r.at = "end" /\ r.alone = run[a].alone /\ r.integrated = run[a].integrated
             => Behind(r, Put("curate", new), owned)
  BY DEF Behind
<1>6. "curate" \in Setup!Shared \ {"plugin"} /\ run[a].at # "end"
  BY <1>2, SharedIs
<1> QED
  BY <1>2, <1>3, <1>4, <1>5, <1>6, WriteKeeps

LEMMA PluginSetup == ASSUME NEW a \in Actors, SetupInv, Setup!InstallPlugin(a) PROVE SetupInv'
<1>1. run[a].at = "plugin" /\ IsRun(run[a]) /\ "plugin" \in Setup!Shared
  BY SharedIs DEF SetupInv, Setup!InstallPlugin
<1>2. CASE Setup!Skip(a, "end")
  <2>1. \A r : IsRun(r) /\ r.op = run[a].op /\ r.at = "end" /\ r.alone = run[a].alone /\ r.integrated = run[a].integrated
               => Behind(r, shared, owned)
    BY DEF Behind
  <2> QED
    BY <1>1, <1>2, <2>1, SkipKeeps
<1>3. CASE ~ Setup!Skip(a, "end")
  <2>1. shared["plugin"].st # "torn" /\ Setup!Goto(a, "end") /\ UNCHANGED <<vault, owned, typed, taken, setups, typing>>
    BY <1>3 DEF Setup!InstallPlugin, Setup!Readable
  <2>2. PICK new : new = [st |-> "ok", user |-> IF shared["plugin"].st = "torn" THEN 0 ELSE shared["plugin"].user, parts |-> {"here"}]
    OBVIOUS
  <2>3. shared' = [shared EXCEPT !["plugin"] = new] /\ shared = [f \in Setup!Shared |-> shared[f]]
    BY <1>3, <2>2 DEF Setup!InstallPlugin, SetupInv
  <2>4. new = [st |-> "ok", user |-> shared["plugin"].user, parts |-> {"here"}]
    BY <2>1, <2>2
  <2>5. Fits(shared["plugin"], typed["plugin"])
    BY <1>1 DEF SetupInv, Holds
  <2>6. shared["plugin"].user \in Nat
    BY <2>5 DEF Fits, IsFile
  <2>7. IsFile(new) /\ new.st = "ok" /\ new.user = shared["plugin"].user
    BY <2>4, <2>6, FileIs
  <2>8. Holds("plugin", new, typed["plugin"])
    BY <2>5, <2>7 DEF Holds, Fits
  <2>9. shared'["plugin"] = new /\ \A f \in Setup!Shared \ {"plugin"} : shared'[f] = shared[f]
    BY <1>1, <2>3
  <2>10. shared' = [f \in Setup!Shared |-> shared'[f]]
    BY <2>3
  <2>11. \A f \in Setup!Shared : Holds(f, shared'[f], typed[f]) /\ shared'[f].user = shared[f].user
    BY <2>7, <2>8, <2>9 DEF SetupInv
  <2>12. Setup!TextKept'
    BY <2>1, <2>11 DEF SetupInv, Setup!TextKept
  <2>13. shared["curate"].st # "none" => shared'["curate"].st # "none"
    BY <2>9, SharedIs
  <2>14. /\ run' = [run EXCEPT ![a] = run'[a]] /\ IsRun(run'[a]) /\ run'[a].at = "end"
         /\ Copied(run'[a], shared', typed') /\ Behind(run'[a], shared', owned')
    <3>1. run' = [run EXCEPT ![a] = run'[a]] /\ IsRun(run'[a]) /\ run'[a].at = "end"
      BY <2>1, GoesTo
    <3> QED
      BY <3>1 DEF Copied, Behind
  <2>15. vault' = [f \in Setup!ToSet(Setup!VaultFiles) |-> vault'[f]] /\ vault'["config"] # "edited"
    BY <2>1 DEF SetupInv
  <2> QED
    BY <1>1, <2>1, <2>10, <2>11, <2>12, <2>13, <2>14, <2>15, OneSets
<1> QED
  BY <1>2, <1>3

-----------------------------------------------------------------------------
LEMMA StepSetup == SetupInv /\ [Setup!Next]_Setup!vars => SetupInv'
<1> SUFFICES ASSUME SetupInv, [Setup!Next]_Setup!vars PROVE SetupInv'
  OBVIOUS
<1>1. ASSUME NEW a \in Actors, Setup!Step(a) PROVE SetupInv'
  BY <1>1, BeginSetup, KilledSetup, InitVaultSetup, SyncSetup, ScenarioSetup, IntegrateSetup, IntegratedSetup, CurateSetup,
     InstallSetup, BlockSetup, PersonaSetup, SettingsSetup, AskSetup, WritePersonaSetup, PluginSetup DEF Setup!Step
<1>2. CASE UNCHANGED Setup!vars
  <2>1. UNCHANGED <<vault, owned, shared, typed, taken, run, setups, typing>>
    BY <1>2 DEF Setup!vars
  <2>2. Setup!TextKept'
    BY <2>1 DEF SetupInv, Setup!TextKept
  <2>3. \A a \in Actors : Copied(run'[a], shared', typed') /\ Behind(run'[a], shared', owned')
    BY <2>1 DEF SetupInv
  <2> QED
    BY <2>1, <2>2, <2>3 DEF SetupInv
<1> QED
  BY <1>1, <1>2, EditSetup, EditVaultSetup, MoveSetup DEF Setup!Next

(* What the user wrote into the vault's files stays. *)
LEMMA NothingGoes == SetupInv /\ Setup!Next => Setup!NothingOverwritten
<1> SUFFICES ASSUME SetupInv, Setup!Next, NEW f \in Setup!ToSet(Setup!VaultFiles), vault[f] = "edited" PROVE vault'[f] = "edited"
  BY DEF Setup!NothingOverwritten
<1>1. vault = [g \in Setup!ToSet(Setup!VaultFiles) |-> vault[g]] /\ f # "config"
  BY DEF SetupInv
<1>2. ASSUME NEW a \in Actors, NEW k \in DOMAIN Setup!VaultFiles, Setup!InitVault(a, k) PROVE vault'[f] = "edited"
  BY <1>1, <1>2 DEF Setup!InitVault, Setup!Made
<1>3. CASE Setup!EditVault
  BY <1>1, <1>3 DEF Setup!EditVault
<1>4. CASE UNCHANGED vault
  BY <1>4
<1>5. \/ Setup!EditVault \/ UNCHANGED vault \/ \E a \in Actors : \E k \in DOMAIN Setup!VaultFiles : Setup!InitVault(a, k)
  <2>1. ASSUME NEW a \in Actors, Setup!Step(a), ~ \E k \in DOMAIN Setup!VaultFiles : Setup!InitVault(a, k) PROVE UNCHANGED vault
    BY <2>1 DEF Setup!Step, Setup!Begin, Setup!Killed, Setup!Sync, Setup!Scenario, Setup!Integrate, Setup!Integrated, Setup!EnsureCurateYml, Setup!InstallRules, Setup!UpsertManagedBlock,
       Setup!SavePersona, Setup!MergeSettings, Setup!AskPersona, Setup!WritePersona, Setup!InstallPlugin, Setup!Skip, Setup!Write
  <2> QED
    BY <2>1 DEF Setup!Next, Setup!Edit, Setup!Move
<1> QED
  BY <1>2, <1>3, <1>4, <1>5

LEMMA OthersWait ==
  ASSUME SetupInv, NEW a \in Actors, NEW b \in Actors, a # b, Setup!Step(b)
  PROVE  run'[a].at = run[a].at
<1>1. run = [c \in Actors |-> run[c]] /\ IsRun(run[a])
  BY DEF SetupInv
<1>2. ASSUME NEW op, Setup!Begin(b, op) PROVE run'[a].at = run[a].at
  <2>1. PICK mine : run' = [Setup!Disturbed EXCEPT ![b] = mine]
    BY <1>2 DEF Setup!Begin
  <2>2. run'[a] = [run[a] EXCEPT !.alone = run[a].at = "end"]
    BY <2>1 DEF Setup!Disturbed
  <2> QED
    BY <1>1, <2>2 DEF IsRun
<1>3. ASSUME ~ \E op \in Ops : Setup!Begin(b, op) PROVE \E mine : run' = [run EXCEPT ![b] = mine]
  BY <1>3 DEF Setup!Step, Setup!Killed, Setup!Sync, Setup!Scenario, Setup!Integrate, Setup!Integrated, Setup!EnsureCurateYml, Setup!InstallRules, Setup!UpsertManagedBlock,
     Setup!SavePersona, Setup!MergeSettings, Setup!AskPersona, Setup!WritePersona, Setup!InstallPlugin, Setup!InitVault, Setup!Skip, Setup!Write, Setup!Whole, Setup!CutShort, Setup!Goto
<1> QED
  BY <1>1, <1>2, <1>3

(* The last step of a setup finds the rest done, and does its own part. *)
LEMMA SetupEnds == SetupInv /\ Setup!Next => Setup!RerunCompletes
<1> SUFFICES ASSUME SetupInv, Setup!Next, NEW a \in Actors, run[a].op = "workspace", run[a].alone, run[a].at = "settings",
                    run'[a].at = "end", run'[a].op = "workspace"
             PROVE  /\ Setup!ToSet(Setup!OwnedFiles) \subseteq owned'
                    /\ {"block", "hooks"} \cap shared'["rule"].parts # {}
                    /\ "line" \in shared'["curate"].parts => "here" \in shared'["curate"].parts
                    /\ "here" \in shared'["settings"].parts
  BY DEF Setup!RerunCompletes
<1>1. IsRun(run[a]) /\ Behind(run[a], shared, owned) /\ run = [c \in Actors |-> run[c]]
  BY DEF SetupInv
<1>2. Setup!Step(a)
  <2>1. ~ Setup!Edit
    <3>1. ASSUME Setup!Edit PROVE FALSE
      <4>1. run'[a] = [run[a] EXCEPT !.alone = run[a].at = "end"]
        BY <3>1 DEF Setup!Edit, Setup!Disturbed
      <4> QED
        BY <1>1, <4>1 DEF IsRun
    <3> QED
      BY <3>1
  <2>2. ~ Setup!EditVault /\ ~ Setup!Move
    BY DEF Setup!EditVault, Setup!Move
  <2>3. \A b \in Actors : b # a => ~ Setup!Step(b)
    BY OthersWait
  <2> QED
    BY <2>1, <2>2, <2>3 DEF Setup!Next
<1>3. Setup!MergeSettings(a)
  <2>1. ~ Setup!Killed(a)
    BY <1>1, ActorIdleIs DEF Setup!Killed
  <2>2. /\ ~ Setup!Sync(a) /\ ~ Setup!Scenario(a) /\ ~ Setup!Integrate(a) /\ ~ Setup!Integrated(a) /\ ~ Setup!EnsureCurateYml(a)
        /\ ~ Setup!UpsertManagedBlock(a) /\ ~ Setup!SavePersona(a) /\ ~ Setup!AskPersona(a) /\ ~ Setup!WritePersona(a) /\ ~ Setup!InstallPlugin(a)
    BY DEF Setup!Sync, Setup!Scenario, Setup!Integrate, Setup!Integrated, Setup!EnsureCurateYml, Setup!UpsertManagedBlock, Setup!SavePersona, Setup!AskPersona, Setup!WritePersona,
       Setup!InstallPlugin
  <2>3. \A op \in Ops : ~ Setup!Begin(a, op)
    BY DEF Setup!Begin
  <2>4. (\A k \in DOMAIN Setup!VaultFiles : ~ Setup!InitVault(a, k)) /\ (\A k \in DOMAIN Setup!OwnedFiles : ~ Setup!InstallRules(a, k))
    BY DEF Setup!InitVault, Setup!InstallRules, Setup!VaultFiles, Setup!OwnedFiles
  <2> QED
    BY <1>2, <2>1, <2>2, <2>3, <2>4 DEF Setup!Step
<1>4. PICK c : Setup!Write(a, "settings", Setup!With(c, "here"), "end")
  BY <1>3 DEF Setup!MergeSettings
<1>5. Setup!Whole(a, "settings", Setup!With(c, "here"), "end")
  <2>1. ~ Setup!CutShort(a, "settings")
    BY <1>1, ActorIdleIs DEF Setup!CutShort
  <2> QED
    BY <1>4, <2>1 DEF Setup!Write
<1>6. shared' = Put("settings", Setup!With(c, "here")) /\ owned' = owned
  BY <1>4, <1>5 DEF Setup!Write, Setup!Whole, Put
<1>7. shared'["settings"] = Setup!With(c, "here") /\ shared'["rule"] = shared["rule"] /\ shared'["curate"] = shared["curate"]
  BY <1>6, PutIs, SharedIs
<1>8. "here" \in shared'["settings"].parts
  BY <1>7 DEF Setup!With
<1>9. Setup!ToSet(Setup!OwnedFiles) = {"shared", "runtime", "workflows"}
  BY DEF Setup!ToSet, Setup!OwnedFiles
<1> QED
  BY <1>1, <1>6, <1>7, <1>8, <1>9 DEF Behind

(* A setup keeps what the user wrote and completes what is missing, for any *)
(* actors, commands and edits, overlapping, killed or cut short anywhere.   *)
THEOREM SetupAlwaysKeeps == Setup!Spec => SetupKeeps
<1>1. SetupInv /\ [Setup!Next]_Setup!vars => SetupInv' /\ [Setup!SettingUp]_Setup!vars
  <2> SUFFICES ASSUME SetupInv, [Setup!Next]_Setup!vars, ~ UNCHANGED Setup!vars PROVE SetupInv' /\ Setup!SettingUp
    BY StepSetup
  <2>1. SetupInv' /\ Setup!Next
    BY StepSetup
  <2>2. Setup!TextKept'
    BY <2>1 DEF SetupInv
  <2> QED
    BY <2>1, <2>2, NothingGoes, SetupEnds DEF Setup!SettingUp
<1> QED
  BY <1>1, SetupStarts, PTL DEF Setup!Spec, SetupKeeps
=============================================================================
