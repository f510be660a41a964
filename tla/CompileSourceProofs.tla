------------------------ MODULE CompileSourceProofs ------------------------
(***************************************************************************)
(* Proofs about the compile of a source, for any number of processes,      *)
(* texts, spans, claims, packings, units, generations and crashes; and     *)
(* about the log of its calls, for any devices, batches and cap.           *)
(***************************************************************************)
EXTENDS CompileSystem, Sequences, FiniteSetTheorems, TLAPS

(* Units no publish has decided about. *)
Pending == {u \in Live : unit[u].gen \notin Authoritative}

(* What is owed is taken up by the next attempt. *)
Promised == marker = "pending" \/ (l2 = "error" /\ marker = "failed")

-----------------------------------------------------------------------------
(* What holds of a source one process at a time compiles *)

OneAtATime ==
    \A c, d \in Compiles : ~Idle(c) /\ ~Idle(d) => c = d

(* The generations of units are those that serve or are staged, and their  *)
(* spans are stored.                                                       *)
UnitsRooted ==
    /\ \A g, h \in Authoritative : g = h
    /\ \A u \in Live :
          /\ unit[u].span \in stored
          /\ unit[u].gen # NoGen => gen[unit[u].gen].status # "discarded"

(* A batch paid for has one row, which waits for a publish. *)
BatchesKept ==
    /\ \A u, v \in Pending : unit[u].span = unit[v].span /\ unit[u].prompt = unit[v].prompt => u = v
    /\ \A b \in paid : \E u \in Pending : unit[u].span = b[1] /\ unit[u].prompt = b[2]

(* What an extraction has so far is its text's and nobody else's; every row *)
(* it has not come to yet is one it may adopt.                             *)
ExtractsItsText(c) ==
    /\ pc[c] \in {"parsed", "released", "extracting", "staged", "stamped", "validated", "gated"}
          => text[c] \subseteq stored
    /\ pc[c] \in {"released", "extracting"} => \A g \in GenIds : gen[g].status # "staged"
    /\ pc[c] = "extracting" =>
          /\ todo[c] \subseteq text[c]
          /\ \A u \in Live : unit[u].gen = NoGen => u \in adoptable[c] \/ unit[u].span \notin todo[c]
          /\ \A u \in mine[c] : u \in Live /\ unit[u].gen = NoGen /\ unit[u].span \in text[c]

(* Its generation stays staged until it is published or discarded.         *)
StagesItsOwn(c) ==
    /\ pc[c] \in Staging => staged[c] \in GenIds /\ gen[staged[c]].status = "staged"
    /\ pc[c] \in {"staged", "stamped", "validated", "gated"} =>
          \A u \in mine[c] \cap Live : unit[u].gen \in {NoGen, staged[c]} /\ unit[u].span \in text[c]
    /\ pc[c] = "discarding" => \A u \in Live : unit[u].gen # staged[c]

(* A page of what is served no longer goes before the others are written.  *)
Projects(c) ==
    /\ pc[c] = "emitting" => \A e \in pages : e[1] \in Served
    /\ pc[c] = "emitted" => pages = Serving

(* The status and the marker of the source while it is compiled, and what   *)
(* they say of an owed projection.                                         *)
StatusTells ==
    /\ ~Alone \/ marker = "pending" => l2 \notin {"done", "skipped"}
    /\ marker = "failed" => l2 = "error"
    /\ owed => Promised \/ \A g \in Authoritative : gen[g].hash # content
    /\ \A c \in Compiles :
          pc[c] \in Extraction \cup Staging \cup {"failed"} /\ owed =>
             \A g \in Authoritative : gen[g].hash # content

CompileInv(c) == ExtractsItsText(c) /\ StagesItsOwn(c) /\ Projects(c)

SerialInv ==
    /\ TypeOK /\ OneAtATime /\ UnitsRooted /\ BatchesKept /\ StatusTells
    /\ DoneMeansProjected
    /\ \A c \in Compiles : CompileInv(c)
-----------------------------------------------------------------------------
(* Types *)

Row  == [span : Spans, claim : Claims, prompt : Prompts, gen : GenIds \cup {NoGen}, support : Support]
Rows == {NoUnit} \cup Row
Generations == [status : {"staged", "authoritative", "discarded"},
                hash : SUBSET Spans, text : SUBSET Spans]

(* What a compile knows of its extraction. *)
ProcessOK ==
    /\ pc \in [Compiles -> Labels]
    /\ prompt \in [Compiles -> Prompts \cup {None}]
    /\ text \in [Compiles -> SUBSET Spans]
    /\ adoptable \in [Compiles -> SUBSET UnitIds]
    /\ todo \in [Compiles -> SUBSET Spans]
    /\ mine \in [Compiles -> SUBSET UnitIds]
    /\ staged \in [Compiles -> GenIds \cup {NoGen}]
    /\ hash \in [Compiles -> SUBSET Spans]
    /\ \A c \in Compiles :
         /\ pc[c] \in Extraction => prompt[c] # None
         /\ pc[c] \in Staging => staged[c] # NoGen

(* The rows and the statuses of the source.                                *)
SourceOK ==
    /\ file \in Texts /\ content \in Texts
    /\ stored \subseteq Spans
    /\ unit \in [UnitIds -> Rows]
    /\ gen \in [GenIds -> Generations]
    /\ l2 \in {"pending", "running", "done", "error", "skipped"}
    /\ marker \in {None, "pending", "failed", "other"}
    /\ pages \subseteq UnitIds \X Claims
    /\ clustering \in BOOLEAN
    /\ owed \in BOOLEAN
    /\ paid \subseteq Spans \X Prompts

LEMMA TypeParts == TypeOK <=> SourceOK /\ ProcessOK
  BY DEF TypeOK, SourceOK, ProcessOK, Rows, Row, Generations

(* A row given to a generation, or given a verdict, is a row.              *)
LEMMA RowSet ==
    ASSUME NEW r \in Rows, r.support # None
    PROVE  /\ r \in Row
           /\ \A g \in GenIds \cup {NoGen} : [r EXCEPT !.gen = g] \in Row
           /\ \A v \in Support : [r EXCEPT !.support = v] \in Row
  <1>1. r \in Row
    BY DEF Rows, NoUnit
  <1> QED
    BY <1>1 DEF Row

LEMMA LiveRows ==
    ASSUME SourceOK, NEW u \in UnitIds
    PROVE  /\ unit[u] \in Rows
           /\ u \in Live <=> unit[u] \in Row
           /\ unit[u] # NoUnit <=> u \in Live
           /\ unit[u].gen # NoGen => u \in Live
  BY DEF SourceOK, Rows, Row, NoUnit, Live, Support, None

LEMMA Forgetting ==
    ASSUME ProcessOK, NEW c \in Compiles, NEW label \in {"idle", "published"}, Forget(c, label)
    PROVE  ProcessOK'
  BY DEF ProcessOK, Forget, Goto, None, NoGen, Labels, Extraction, Staging, Projection

LEMMA Going ==
    ASSUME ProcessOK, NEW c \in Compiles, NEW label \in Labels, Goto(c, label), UNCHANGED process,
           label \in Extraction => prompt[c] # None, label \in Staging => staged[c] # NoGen
    PROVE  ProcessOK'
  BY DEF ProcessOK, Goto, process

LEMMA InitType == Init => TypeOK
  <1> SUFFICES ASSUME Init PROVE TypeOK
    OBVIOUS
  <1>1. SourceOK
    BY ConstantsAssumption DEF Init, SourceOK, Rows, Generations, Discarded, UnitIds, GenIds
  <1>2. ProcessOK
    BY DEF Init, ProcessOK, Labels, Extraction, Staging, UnitIds, GenIds
  <1> QED
    BY <1>1, <1>2, TypeParts

(* Every step of any number of overlapping compiles keeps the types.       *)
LEMMA TypeStep == TypeOK /\ [Next]_vars => TypeOK'
  <1> SUFFICES ASSUME SourceOK, ProcessOK, [Next]_vars PROVE SourceOK' /\ ProcessOK'
    BY DEF TypeOK, SourceOK, ProcessOK, Rows, Row, Generations
  <1> USE ConstantsAssumption DEF source, process, Leave
  <1>1. ASSUME NEW t \in Texts, EditFile(t) PROVE SourceOK' /\ ProcessOK'
    BY <1>1 DEF EditFile, SourceOK, ProcessOK
  <1>2. ASSUME Register PROVE SourceOK' /\ ProcessOK'
    BY <1>2 DEF Register, SourceOK, ProcessOK
  <1>3. ASSUME ForceBuild PROVE SourceOK' /\ ProcessOK'
    BY <1>3 DEF ForceBuild, SourceOK, ProcessOK
  <1>4. ASSUME RecoverStale PROVE SourceOK' /\ ProcessOK'
    BY <1>4 DEF RecoverStale, SourceOK, ProcessOK
  <1>5. ASSUME ClusterRead PROVE SourceOK' /\ ProcessOK'
    BY <1>5 DEF ClusterRead, SourceOK, ProcessOK
  <1>6. ASSUME ClusterWrite PROVE SourceOK' /\ ProcessOK'
    BY <1>6 DEF ClusterWrite, SourceOK, ProcessOK
  <1>7. ASSUME NEW c \in Compiles, StartRecovery(c) PROVE SourceOK' /\ ProcessOK'
    <2>1. SourceOK'
      BY <1>7 DEF StartRecovery, SourceOK
    <2>2. Goto(c, "published") /\ UNCHANGED process
      BY <1>7 DEF StartRecovery
    <2> QED
      BY <2>1, <2>2, Going DEF Labels, Extraction, Staging, Projection
  <1>8. ASSUME NEW c \in Compiles, StartCompile(c) PROVE SourceOK' /\ ProcessOK'
    <2>1. SourceOK'
      BY <1>8 DEF StartCompile, SourceOK
    <2>2. ProcessOK'
      BY <1>8 DEF StartCompile, Goto, ProcessOK, Labels, Extraction, Staging, NoGen, None
    <2> QED
      BY <2>1, <2>2
  <1>9. ASSUME NEW c \in Compiles, Parse(c) PROVE SourceOK' /\ ProcessOK'
    <2>1. SourceOK'
      BY <1>9 DEF Parse, SourceOK
    <2>2. ProcessOK'
      BY <1>9 DEF Parse, Goto, ProcessOK, Labels, Extraction, Staging, NoGen, None, SourceOK
    <2> QED
      BY <2>1, <2>2
  <1>10. ASSUME NEW c \in Compiles, ReleaseOrphans(c) PROVE SourceOK' /\ ProcessOK'
    <2>1. SourceOK'
      <3>1. unit' \in [UnitIds -> Rows]
        BY <1>10, LiveRows, RowSet DEF ReleaseOrphans, SourceOK, Live, Rows, GenIds
      <3>2. gen' \in [GenIds -> Generations]
        BY <1>10 DEF ReleaseOrphans, SourceOK, Generations, Discarded
      <3> QED
        BY <1>10, <3>1, <3>2 DEF ReleaseOrphans, SourceOK
    <2>2. /\ Goto(c, "released") /\ UNCHANGED process
          /\ prompt[c] # None
      BY <1>10 DEF ReleaseOrphans, ProcessOK, Extraction, Staging
    <2> QED
      BY <2>1, <2>2, Going DEF Labels, Extraction, Staging, Projection
  <1>11. ASSUME NEW c \in Compiles, Sweep(c) PROVE SourceOK' /\ ProcessOK'
    <2>1. SourceOK'
      BY <1>11 DEF Sweep, SourceOK, Rows
    <2>2. ProcessOK'
      BY <1>11 DEF Sweep, Goto, ProcessOK, Labels, Extraction, Staging, NoGen, None, Pool, Live
    <2> QED
      BY <2>1, <2>2
  <1>12. ASSUME NEW c \in Compiles, FailExtraction(c) PROVE SourceOK' /\ ProcessOK'
    <2>1. SourceOK'
      BY <1>12 DEF FailExtraction, SourceOK
    <2>2. Forget(c, "idle")
      BY <1>12 DEF FailExtraction
    <2> QED
      BY <2>1, <2>2, Forgetting
  <1>13. ASSUME NEW c \in Compiles, EndExtraction(c) PROVE SourceOK' /\ ProcessOK'
    <2>1. SourceOK'
      BY <1>13 DEF EndExtraction, SourceOK, Generations, FreeGens
    <2>2. ProcessOK'
      BY <1>13 DEF EndExtraction, Goto, ProcessOK, Labels, Extraction, Staging, NoGen, None, FreeGens, GenIds
    <2> QED
      BY <2>1, <2>2
  <1>14. ASSUME NEW c \in Compiles, Stamp(c) PROVE SourceOK' /\ ProcessOK'
    <2>1. SourceOK'
      <3>1. staged[c] \in GenIds \cup {NoGen}
        BY DEF ProcessOK
      <3>2. unit' \in [UnitIds -> Rows]
        BY <1>14, <3>1, RowSet DEF Stamp, SourceOK, Live, Rows
      <3> QED
        BY <1>14, <3>2 DEF Stamp, SourceOK
    <2>2. /\ Goto(c, "stamped") /\ UNCHANGED process
          /\ staged[c] # NoGen
      BY <1>14 DEF Stamp, ProcessOK, Extraction, Staging
    <2> QED
      BY <2>1, <2>2, Going DEF Labels, Extraction, Staging, Projection
  <1>15. ASSUME NEW c \in Compiles, Validate(c) PROVE SourceOK' /\ ProcessOK'
    <2>1. SourceOK'
      <3>1. unit' \in [UnitIds -> Rows]
        BY <1>15, RowSet DEF Validate, Verdict, Support, SourceOK, Live, Rows
      <3> QED
        BY <1>15, <3>1 DEF Validate, SourceOK
    <2>2. /\ Goto(c, "validated") /\ UNCHANGED process
          /\ staged[c] # NoGen
      BY <1>15 DEF Validate, ProcessOK, Extraction, Staging
    <2> QED
      BY <2>1, <2>2, Going DEF Labels, Extraction, Staging, Projection
  <1>16. ASSUME NEW c \in Compiles, Gate(c) PROVE SourceOK' /\ ProcessOK'
    <2>1. SourceOK'
      BY <1>16 DEF Gate, SourceOK
    <2>2. ProcessOK'
      BY <1>16 DEF Gate, Goto, ProcessOK, Labels, Extraction, Staging, NoGen, None, SourceOK
    <2> QED
      BY <2>1, <2>2
  <1>17. ASSUME NEW c \in Compiles, FailStaged(c) PROVE SourceOK' /\ ProcessOK'
    <2>1. SourceOK'
      BY <1>17 DEF FailStaged, SourceOK
    <2>2. /\ Goto(c, "failing") /\ UNCHANGED process
          /\ staged[c] # NoGen
      BY <1>17 DEF FailStaged, ProcessOK, Extraction, Staging
    <2> QED
      BY <2>1, <2>2, Going DEF Labels, Extraction, Staging, Projection
  <1>18. ASSUME NEW c \in Compiles, ReleaseUnits(c) PROVE SourceOK' /\ ProcessOK'
    <2>1. SourceOK'
      <3>1. staged[c] # NoGen
        BY <1>18 DEF ReleaseUnits, ProcessOK, Staging
      <3>2. unit' \in [UnitIds -> Rows]
        BY <1>18, <3>1, LiveRows, RowSet DEF ReleaseUnits, SourceOK, Live, Rows
      <3> QED
        BY <1>18, <3>2 DEF ReleaseUnits, SourceOK
    <2>2. /\ Goto(c, "discarding") /\ UNCHANGED process
          /\ staged[c] # NoGen
      BY <1>18 DEF ReleaseUnits, ProcessOK, Extraction, Staging
    <2> QED
      BY <2>1, <2>2, Going DEF Labels, Extraction, Staging, Projection
  <1>19. ASSUME NEW c \in Compiles, DiscardGeneration(c) PROVE SourceOK' /\ ProcessOK'
    <2>1. SourceOK'
      BY <1>19 DEF DiscardGeneration, SourceOK, Generations, Discarded
    <2>2. Goto(c, "failed") /\ UNCHANGED process
      BY <1>19 DEF DiscardGeneration
    <2> QED
      BY <2>1, <2>2, Going DEF Labels, Extraction, Staging, Projection
  <1>20. ASSUME NEW c \in Compiles, SetError(c) PROVE SourceOK' /\ ProcessOK'
    <2>1. SourceOK'
      BY <1>20 DEF SetError, SourceOK
    <2>2. Forget(c, "idle")
      BY <1>20 DEF SetError
    <2> QED
      BY <2>1, <2>2, Forgetting
  <1>21. ASSUME NEW c \in Compiles, Publish(c) PROVE SourceOK' /\ ProcessOK'
    <2>1. SourceOK'
      <3>1. /\ staged[c] \in GenIds \cup {NoGen}
            /\ hash[c] \in SUBSET Spans /\ text[c] \in SUBSET Spans
        BY DEF ProcessOK
      <3>2. Reconciled(c) \in [UnitIds -> Rows]
        <4>1. ASSUME NEW u \in UnitIds, u \in Prior(c) PROVE [unit[u] EXCEPT !.gen = staged[c]] \in Rows
          BY <3>1, <4>1, RowSet DEF SourceOK, Prior, Live, Rows
        <4>2. ASSUME NEW u \in UnitIds, \E x \in UnitIds : Heir(u, x, c)
              PROVE unit[CHOOSE x \in UnitIds : Heir(u, x, c)] \in Rows
          BY <4>2 DEF SourceOK
        <4> QED
          BY <4>1, <4>2 DEF Reconciled, SourceOK, Rows
      <3>3. unit' \in [UnitIds -> Rows]
        BY <1>21, <3>2 DEF Publish, Retired, Rows
      <3>4. gen' \in [GenIds -> Generations]
        BY <1>21, <3>1 DEF Publish, Flipped, SourceOK, Generations, Discarded
      <3> QED
        BY <1>21, <3>3, <3>4 DEF Publish, SourceOK
    <2>2. Forget(c, "published")
      BY <1>21 DEF Publish
    <2> QED
      BY <2>1, <2>2, Forgetting
  <1>22. ASSUME NEW c \in Compiles, EmitPages(c) PROVE SourceOK' /\ ProcessOK'
    <2>1. SourceOK'
      BY <1>22 DEF EmitPages, SourceOK
    <2>2. Goto(c, "emitting") /\ UNCHANGED process
      BY <1>22 DEF EmitPages
    <2> QED
      BY <2>1, <2>2, Going DEF Labels, Extraction, Staging, Projection
  <1>23. ASSUME NEW c \in Compiles, WritePages(c) PROVE SourceOK' /\ ProcessOK'
    <2>1. SourceOK'
      <3>1. Serving \subseteq UnitIds \X Claims
        BY LiveRows DEF Serving, Served, Row, Live
      <3> QED
        BY <1>23, <3>1 DEF WritePages, SourceOK
    <2>2. Goto(c, "emitted") /\ UNCHANGED process
      BY <1>23 DEF WritePages
    <2> QED
      BY <2>1, <2>2, Going DEF Labels, Extraction, Staging, Projection
  <1>24. ASSUME NEW c \in Compiles, FailProjection(c) PROVE SourceOK' /\ ProcessOK'
    <2>1. SourceOK'
      BY <1>24 DEF FailProjection, SourceOK
    <2>2. Forget(c, "idle")
      BY <1>24 DEF FailProjection
    <2> QED
      BY <2>1, <2>2, Forgetting
  <1>25. ASSUME NEW c \in Compiles, EndCompile(c) PROVE SourceOK' /\ ProcessOK'
    <2>1. SourceOK'
      BY <1>25 DEF EndCompile, SourceOK
    <2>2. Forget(c, "idle")
      BY <1>25 DEF EndCompile
    <2> QED
      BY <2>1, <2>2, Forgetting
  <1>26. ASSUME NEW c \in Compiles, Crash(c) PROVE SourceOK' /\ ProcessOK'
    <2>1. SourceOK'
      BY <1>26 DEF Crash, SourceOK
    <2>2. Forget(c, "idle")
      BY <1>26 DEF Crash
    <2> QED
      BY <2>1, <2>2, Forgetting
  <1>27. ASSUME NEW c \in Compiles, NEW s \in Spans, AdoptBatch(c, s) PROVE SourceOK' /\ ProcessOK'
    <2>1. SourceOK'
      BY <1>27 DEF AdoptBatch, SourceOK
    <2>2. ProcessOK'
      BY <1>27 DEF AdoptBatch, Goto, ProcessOK, Labels, Extraction, Staging, NoGen, None, Completed, Live
    <2> QED
      BY <2>1, <2>2
  <1>28. ASSUME NEW c \in Compiles, NEW s \in Spans, ExtractBatch(c, s) PROVE SourceOK' /\ ProcessOK'
    <2>1. SourceOK'
      <3>1. CASE UNCHANGED <<unit, mine, paid>>
        BY <1>28, <3>1 DEF ExtractBatch, SourceOK
      <3>2. ASSUME NEW u \in UnitIds, NEW claim \in Claims,
                   unit' = [unit EXCEPT ![u] = [span |-> s, claim |-> claim, prompt |-> prompt[c],
                                               gen |-> NoGen, support |-> "unchecked"]],
                   paid' = paid \cup {<<s, prompt[c]>>}
            PROVE SourceOK'
        <4>1. prompt[c] \in Prompts
          BY <1>28 DEF ExtractBatch, ProcessOK, Extraction
        <4>2. [span |-> s, claim |-> claim, prompt |-> prompt[c],
               gen |-> NoGen, support |-> "unchecked"] \in Row
          BY <4>1 DEF Row, Support
        <4>3. unit' \in [UnitIds -> Rows]
          BY <3>2, <4>2 DEF SourceOK, Rows
        <4> QED
          BY <1>28, <3>2, <4>1, <4>3 DEF ExtractBatch, SourceOK
      <3> QED
        BY <1>28, <3>1, <3>2 DEF ExtractBatch, FreeIds
    <2>2. ProcessOK'
      BY <1>28 DEF ExtractBatch, Goto, ProcessOK, Labels, Extraction, Staging, NoGen, None, FreeIds
    <2> QED
      BY <2>1, <2>2
  <1>29. CASE UNCHANGED vars
    BY <1>29 DEF vars, SourceOK, ProcessOK
  <1> QED
    BY <1>1, <1>2, <1>3, <1>4, <1>5, <1>6, <1>7, <1>8, <1>9, <1>10, <1>11, <1>12, <1>13, <1>14, <1>15,
       <1>16, <1>17, <1>18, <1>19, <1>20, <1>21, <1>22, <1>23, <1>24, <1>25, <1>26, <1>27, <1>28, <1>29
       DEF Next, Outside, Start, Continue

THEOREM TypeCorrect == Spec => []TypeOK
  <1>1. Init => TypeOK
    BY InitType
  <1>2. TypeOK /\ [Next]_vars => TypeOK'
    BY TypeStep
  <1> QED
    BY <1>1, <1>2, PTL DEF Spec

-----------------------------------------------------------------------------
(* Frames: what a step that leaves the rows alone cannot disturb *)

LEMMA SerialIsNext == [SerialNext]_vars => [Next]_vars
  BY DEF SerialNext, Next

(* Nothing served is touched: neither the set of rows nor their claims.    *)
LEMMA SameServing ==
    ASSUME \A u \in UnitIds : /\ u \in Served' <=> u \in Served
                              /\ u \in Served => unit'[u].claim = unit[u].claim
    PROVE  Served' = Served /\ Serving' = Serving
  BY DEF Serving, Served, Live

LEMMA SameRows ==
    ASSUME UNCHANGED <<unit, gen, stored, paid>>, UnitsRooted, BatchesKept
    PROVE  /\ UnitsRooted' /\ BatchesKept'
           /\ Served' = Served /\ Serving' = Serving
           /\ Authoritative' = Authoritative
  BY DEF UnitsRooted, BatchesKept, Pending, Served, Serving, Live, Authoritative

(* Rows that keep their batch and whose generation neither begins nor      *)
(* ceases to serve: what is pending, paid and served stays.                *)
LEMMA SameBatches ==
    ASSUME NEW U, U = UnitIds, BatchesKept, paid' = paid, Authoritative' = Authoritative,
           \A u \in U :
              /\ unit'[u].span = unit[u].span /\ unit'[u].prompt = unit[u].prompt
              /\ unit'[u].claim = unit[u].claim
              /\ unit'[u].support # None <=> unit[u].support # None
              /\ unit'[u].gen \in Authoritative <=> unit[u].gen \in Authoritative
              /\ unit[u].gen \in Authoritative => unit'[u].support = unit[u].support
    PROVE  Live' = Live /\ BatchesKept' /\ Served' = Served /\ Serving' = Serving
  <1>1. Live' = Live
    BY DEF Live
  <1>2. Pending' = Pending
    BY <1>1 DEF Pending, Live
  <1>3. BatchesKept'
    BY <1>1, <1>2 DEF BatchesKept, Pending, Live
  <1>4. Served' = Served /\ Serving' = Serving
    BY <1>1, SameServing DEF Served, Live
  <1> QED
    BY <1>1, <1>3, <1>4

(* A process that moves is the only one that is not idle.                  *)
LEMMA OnlyMover ==
    ASSUME ProcessOK, OneAtATime, NEW c \in Compiles, ~Idle(c) \/ Alone,
           NEW label, Goto(c, label)
    PROVE  /\ OneAtATime'
           /\ pc'[c] = label
           /\ \A d \in Compiles \ {c} : pc'[d] = "idle" /\ CompileInv(d)'
           /\ Alone' <=> label = "idle"
  <1>1. /\ pc'[c] = label
        /\ \A d \in Compiles \ {c} : pc'[d] = "idle"
    BY DEF ProcessOK, OneAtATime, Alone, Idle, Goto
  <1>2. \A d \in Compiles \ {c} : CompileInv(d)'
    BY <1>1 DEF CompileInv, ExtractsItsText, StagesItsOwn, Projects, Staging
  <1> QED
    BY <1>1, <1>2 DEF OneAtATime, Idle, Alone

LEMMA IdleHolds ==
    ASSUME NEW c \in Compiles, pc'[c] = "idle"
    PROVE  CompileInv(c)'
  BY DEF CompileInv, ExtractsItsText, StagesItsOwn, Projects, Staging

(* A compile that is under way keeps the source from being called done.    *)
LEMMA UnderWay ==
    ASSUME StatusTells, NEW c \in Compiles, ~Idle(c)
    PROVE  l2 \notin {"done", "skipped"}
  BY DEF StatusTells, Alone

-----------------------------------------------------------------------------
(* The invariant of a source compiled by one process at a time *)

LEMMA SerialInit == Init => SerialInv
  <1> SUFFICES ASSUME Init PROVE SerialInv
    OBVIOUS
  <1>1. TypeOK
    BY InitType
  <1>2. Live = {} /\ Authoritative = {} /\ Served = {}
    BY DEF Init, Live, NoUnit, Authoritative, Discarded, Served
  <1>3. OneAtATime /\ \A c \in Compiles : CompileInv(c)
    BY DEF Init, OneAtATime, Idle, CompileInv, ExtractsItsText, StagesItsOwn, Projects, Staging
  <1>4. UnitsRooted /\ BatchesKept
    BY <1>2 DEF Init, UnitsRooted, BatchesKept, Pending
  <1>5. StatusTells /\ DoneMeansProjected
    BY DEF Init, StatusTells, DoneMeansProjected, Alone, Idle, None
  <1> QED
    BY <1>1, <1>3, <1>4, <1>5 DEF SerialInv

(* While it extracts, the rows a compile has not adopted are those of the   *)
(* batches behind it: asking the model means nothing was kept of this one. *)
LEMMA NothingKept ==
    ASSUME SourceOK, UnitsRooted, BatchesKept, NEW c \in Compiles, ExtractsItsText(c),
           NEW s \in Spans, ExtractBatch(c, s)
    PROVE  /\ \A u \in Pending : ~ (unit[u].span = s /\ unit[u].prompt = prompt[c])
           /\ <<s, prompt[c]>> \notin paid
  <1>1. ASSUME NEW u \in Pending, unit[u].span = s, unit[u].prompt = prompt[c] PROVE FALSE
    <2>1. ASSUME NEW v \in Pending PROVE v \in Live /\ unit[v].gen = NoGen
      <3>1. v \in Live /\ unit[v].gen \notin Authoritative
        BY DEF Pending
      <3>2. unit[v].gen \in GenIds \cup {NoGen}
        BY <3>1, LiveRows DEF Live, Row
      <3>3. \A g \in GenIds : gen[g].status \in {"authoritative", "discarded"}
        BY <1>1 DEF ExtractBatch, ExtractsItsText, SourceOK, Generations
      <3> QED
        BY <3>1, <3>2, <3>3 DEF UnitsRooted, Authoritative
    <2>2. ASSUME NEW v \in Pending, unit[v].span = s PROVE v \in adoptable[c]
      BY <2>1, <2>2 DEF ExtractBatch, ExtractsItsText
    <2>3. Completed(c, s) = {u}
      <3>1. \A v \in Completed(c, s) :
               v \in Pending /\ unit[v].span = s /\ unit[v].prompt = prompt[c]
        BY DEF Completed, Pending, Authoritative, GenIds, NoGen
      <3>2. u \in Completed(c, s)
        BY <1>1, <2>1, <2>2 DEF Completed
      <3> QED
        BY <1>1, <3>1, <3>2 DEF BatchesKept
    <2>4. Cardinality(Completed(c, s)) = 1
      BY <2>3, FS_Singleton
    <2> QED
      BY <2>4 DEF ExtractBatch
  <1>2. <<s, prompt[c]>> \notin paid
    BY <1>1 DEF BatchesKept
  <1> QED
    BY <1>1, <1>2

(* What a publish leaves: the rows of its generation, all of its text.     *)
LEMMA PublishedRows ==
    ASSUME SourceOK, ProcessOK, UnitsRooted, NEW c \in Compiles, CompileInv(c), Publish(c)
    PROVE  /\ \A u \in Live' : unit'[u].gen = staged[c] /\ unit'[u].span \in stored'
           /\ Authoritative' = {staged[c]}
           /\ staged[c] \in GenIds
  <1>1. staged[c] \in GenIds /\ staged[c] # NoGen
    BY DEF Publish, CompileInv, StagesItsOwn, Staging, GenIds, NoGen
  <1>2. Authoritative' = {staged[c]}
    BY <1>1 DEF Publish, Flipped, Authoritative, Discarded
  <1>3. ASSUME NEW u \in UnitIds, Reconciled(c)[u].gen = staged[c]
        PROVE  Reconciled(c)[u].span \in text[c]
    <2>1. \A x \in mine[c] \cap Live : unit[x].span \in text[c]
      BY DEF Publish, CompileInv, StagesItsOwn
    <2>2. CASE u \in Prior(c) /\ \E x \in UnitIds : Heir(u, x, c)
      <3> DEFINE x == CHOOSE x \in UnitIds : Heir(u, x, c)
      <3>1. x \in UnitIds /\ Heir(u, x, c)
        BY <2>2
      <3>2. x \in mine[c] \cap Live
        BY <3>1 DEF Heir, Candidates
      <3>3. Reconciled(c)[u] = unit[x]
        BY <2>2 DEF Reconciled
      <3> QED
        BY <2>1, <3>2, <3>3
    <2>3. CASE u \in Prior(c) /\ ~ \E x \in UnitIds : Heir(u, x, c)
      <3>1. CASE Omitted(u, c)
        <4>1. Reconciled(c)[u] = [unit[u] EXCEPT !.gen = staged[c]]
          BY <2>3, <3>1 DEF Reconciled
        <4>2. unit[u] \in Row
          BY <2>3, LiveRows DEF Prior
        <4> QED
          BY <3>1, <4>1, <4>2 DEF Omitted, Row
      <3>2. CASE ~ Omitted(u, c)
        BY <1>1, <1>3, <2>3, <3>2 DEF Reconciled, NoUnit
      <3> QED
        BY <3>1, <3>2
    <2>4. CASE u \notin Prior(c)
      <3>1. Reconciled(c)[u] = unit[u]
        BY <1>1, <1>3, <2>4 DEF Reconciled, NoUnit
      <3>2. u \in Live
        BY <1>1, <1>3, <3>1, LiveRows
      <3> QED
        BY <2>1, <2>4, <3>1, <3>2 DEF Prior
    <2> QED
      BY <2>2, <2>3, <2>4
  <1>4. ASSUME NEW u \in Live' PROVE unit'[u].gen = staged[c] /\ unit'[u].span \in stored'
    <2>1. u \in UnitIds /\ unit'[u].support # None
      BY DEF Live
    <2>2. Reconciled(c)[u].gen = staged[c] /\ unit'[u] = Reconciled(c)[u]
      BY <2>1 DEF Publish, Retired, NoUnit
    <2>3. text[c] \subseteq stored
      BY DEF Publish, CompileInv, ExtractsItsText
    <2> QED
      BY <1>3, <2>1, <2>2, <2>3 DEF Publish
  <1> QED
    BY <1>1, <1>2, <1>4

(* What a step of the serial specification owes, the types aside.          *)
Kept ==
    /\ OneAtATime' /\ UnitsRooted' /\ BatchesKept' /\ StatusTells' /\ DoneMeansProjected'
    /\ \A c \in Compiles : CompileInv(c)'
    /\ Serving' = Serving \/ PublishStep

Rested == UnitsRooted' /\ BatchesKept' /\ (Serving' = Serving \/ PublishStep)

(* The part of StatusTells that is about a compile of the source at label. *)
TellsOf(label) ==
    /\ label # "idle" \/ marker = "pending" => l2 \notin {"done", "skipped"}
    /\ marker = "failed" => l2 = "error"
    /\ owed => Promised \/ \A g \in Authoritative : gen[g].hash # content
    /\ label \in Extraction \cup Staging \cup {"failed"} /\ owed =>
          \A g \in Authoritative : gen[g].hash # content

(* A step of one process: what remains to be shown of it.                  *)
LEMMA MoveKept ==
    ASSUME ProcessOK, OneAtATime, NEW c \in Compiles, ~Idle(c) \/ Alone,
           NEW label, Goto(c, label),
           Rested, TellsOf(label)', DoneMeansProjected', CompileInv(c)'
    PROVE  Kept
  <1>1. /\ OneAtATime'
        /\ pc'[c] = label
        /\ \A d \in Compiles \ {c} : pc'[d] = "idle" /\ CompileInv(d)'
        /\ Alone' <=> label = "idle"
    BY OnlyMover
  <1>2. StatusTells'
    BY <1>1 DEF StatusTells, TellsOf, Extraction, Staging, Promised
  <1> QED
    BY <1>1, <1>2 DEF Kept, Rested

(* A step before the publish that leaves the source's row and what serves   *)
(* alone.                                                                  *)
LEMMA QuietMove ==
    ASSUME SerialInv, NEW c \in Compiles, NEW label \in Extraction \cup Staging \cup {"failed"},
           pc[c] \in Extraction \cup Staging, Goto(c, label),
           UNCHANGED <<content, l2, marker, owed>>, Authoritative' = Authoritative,
           \A g \in Authoritative : gen'[g].hash = gen[g].hash,
           Rested, CompileInv(c)'
    PROVE  Kept
  <1>1. ~Idle(c) /\ label # "idle"
    BY DEF Idle, Extraction, Staging
  <1>2. l2 \notin {"done", "skipped"}
    BY <1>1, UnderWay DEF SerialInv
  <1>3. TellsOf(label)'
    BY <1>1, <1>2 DEF TellsOf, SerialInv, StatusTells, Promised
  <1>4. DoneMeansProjected'
    BY <1>2 DEF DoneMeansProjected
  <1> QED
    BY <1>1, <1>3, <1>4, MoveKept, TypeParts DEF SerialInv

LEMMA OutsideKept ==
    ASSUME SerialInv, Outside \/ (Alone /\ RecoverStale) \/ UNCHANGED vars
    PROVE  Kept
  <1> USE DEF source, process, SerialInv
  <1>1. UNCHANGED <<stored, unit, gen, pages, pc, process, paid>>
    BY DEF Outside, Register, ForceBuild, EditFile, RecoverStale, vars
  <1>2. Rested /\ Authoritative' = Authoritative /\ Served' = Served /\ Serving' = Serving
    BY <1>1, SameRows DEF Rested
  <1>3. OneAtATime' /\ Alone' = Alone
    BY <1>1 DEF OneAtATime, Idle, Alone
  <1>4. \A c \in Compiles : CompileInv(c)'
    BY <1>1, <1>2 DEF CompileInv, ExtractsItsText, StagesItsOwn, Projects, Live
  <1>5. StatusTells' /\ DoneMeansProjected'
    <2>1. CASE UNCHANGED <<content, l2, marker, owed>>
      BY <1>1, <1>2, <1>3, <2>1 DEF StatusTells, DoneMeansProjected, Promised
    <2>2. CASE Register \/ ForceBuild
      BY <1>1, <1>2, <1>3, <2>2
         DEF StatusTells, DoneMeansProjected, Promised, Register, ForceBuild, None
    <2>3. CASE Alone /\ RecoverStale
      <3>1. \A c \in Compiles : pc[c] = "idle"
        BY <2>3 DEF Alone, Idle
      <3>2. /\ l2' = "pending" /\ owed' = owed /\ content' = content
            /\ marker' = "pending" <=> marker = "pending"
            /\ marker' # "failed" /\ l2 = "running" /\ marker # "failed"
        BY <2>3 DEF RecoverStale, StatusTells, None
      <3>3. DoneMeansProjected'
        BY <3>2 DEF DoneMeansProjected
      <3>4. StatusTells'
        BY <1>1, <1>2, <1>3, <3>1, <3>2 DEF StatusTells, Promised, Extraction, Staging
      <3> QED
        BY <3>3, <3>4
    <2> QED
      BY <2>1, <2>2, <2>3 DEF Outside, EditFile, vars
  <1> QED
    BY <1>2, <1>3, <1>4, <1>5 DEF Kept, Rested

-----------------------------------------------------------------------------
(* Extraction and staging *)

(* Steps that leave every row as it is.                                    *)
LEMMA StageKept ==
    ASSUME SerialInv, NEW c \in Compiles,
           Gate(c) \/ FailStaged(c) \/ (\E s \in Spans : AdoptBatch(c, s))
    PROVE  Kept
  <1> USE DEF source, process, SerialInv
  <1>1. ProcessOK
    BY TypeParts
  <1>2. Rested /\ Authoritative' = Authoritative /\ gen' = gen /\ unit' = unit /\ stored' = stored
    BY SameRows DEF Rested, Gate, FailStaged, AdoptBatch
  <1>3. UNCHANGED <<content, l2, marker, owed>> /\ Live' = Live
    BY <1>2 DEF Gate, FailStaged, AdoptBatch, Live
  <1>4. CASE Gate(c)
    <2>1. Goto(c, "gated") /\ pc[c] \in Staging
      BY <1>4 DEF Gate, Staging
    <2>2. CompileInv(c)'
      BY <1>1, <1>2, <1>3, <1>4, <2>1
         DEF Gate, Goto, ProcessOK, CompileInv, ExtractsItsText, StagesItsOwn, Projects, Staging
    <2> QED
      BY <1>2, <1>3, <2>1, <2>2, QuietMove DEF Staging
  <1>5. CASE FailStaged(c)
    <2>1. Goto(c, "failing") /\ pc[c] \in Staging
      BY <1>5 DEF FailStaged, Staging
    <2>2. CompileInv(c)'
      BY <1>1, <1>2, <1>3, <1>5, <2>1
         DEF FailStaged, Goto, ProcessOK, CompileInv, ExtractsItsText, StagesItsOwn, Projects, Staging
    <2> QED
      BY <1>2, <1>3, <2>1, <2>2, QuietMove DEF Staging
  <1>6. ASSUME NEW s \in Spans, AdoptBatch(c, s) PROVE Kept
    <2>1. Goto(c, "extracting") /\ pc[c] = "extracting" /\ pc' = pc
      BY <1>1, <1>6 DEF AdoptBatch, Goto, ProcessOK
    <2>2. CompileInv(c)'
      <3>1. ExtractsItsText(c)'
        BY <1>1, <1>2, <1>3, <1>6, <2>1
           DEF AdoptBatch, Completed, ProcessOK, CompileInv, ExtractsItsText
      <3> QED
        BY <2>1, <3>1 DEF CompileInv, StagesItsOwn, Projects, Staging
    <2> QED
      BY <1>2, <1>3, <2>1, <2>2, QuietMove DEF Extraction
  <1> QED
    BY <1>4, <1>5, <1>6

(* The spans of the text join the stored ones; no row changes.             *)
LEMMA ParseKept ==
    ASSUME SerialInv, NEW c \in Compiles, Parse(c)
    PROVE  Kept
  <1> USE DEF source, process, SerialInv
  <1>1. ProcessOK /\ pc[c] = "started"
    BY TypeParts DEF Parse
  <1>2. UnitsRooted'
    BY DEF Parse, UnitsRooted, Live, Authoritative
  <1>3. BatchesKept' /\ Serving' = Serving /\ Authoritative' = Authoritative
    BY DEF Parse, BatchesKept, Pending, Live, Authoritative, Serving, Served
  <1>4. Goto(c, "parsed") /\ UNCHANGED <<content, l2, marker, owed, gen>>
    BY DEF Parse
  <1>5. CompileInv(c)'
    BY <1>1 DEF Parse, Goto, ProcessOK, CompileInv, ExtractsItsText, StagesItsOwn, Projects, Staging
  <1> QED
    BY <1>1, <1>2, <1>3, <1>4, <1>5, QuietMove DEF Rested, Extraction

(* What a dead run staged goes back to the pool: it served nothing.        *)
LEMMA ReleaseOrphansKept ==
    ASSUME SerialInv, NEW c \in Compiles, ReleaseOrphans(c)
    PROVE  Kept
  <1> USE DEF source, process, SerialInv
  <1>1. ProcessOK /\ SourceOK /\ pc[c] = "parsed"
    BY TypeParts DEF ReleaseOrphans
  <1>2. Authoritative' = Authoritative /\ \A g \in Authoritative : gen'[g] = gen[g]
    BY <1>1 DEF ReleaseOrphans, Authoritative, Discarded, SourceOK
  <1>3. ASSUME NEW u \in UnitIds
        PROVE  /\ unit'[u].span = unit[u].span /\ unit'[u].prompt = unit[u].prompt
               /\ unit'[u].claim = unit[u].claim /\ unit'[u].support = unit[u].support
               /\ unit'[u].gen \in Authoritative <=> unit[u].gen \in Authoritative
               /\ unit'[u].gen # NoGen => unit'[u] = unit[u] /\ gen[unit[u].gen].status # "staged"
    <2>1. CASE unit[u].gen # NoGen /\ gen[unit[u].gen].status = "staged"
      <3>1. unit'[u] = [unit[u] EXCEPT !.gen = NoGen] /\ unit[u] \in Row
        BY <1>1, <2>1, LiveRows DEF ReleaseOrphans
      <3> QED
        BY <2>1, <3>1 DEF Row, Authoritative, GenIds, NoGen
    <2>2. CASE ~ (unit[u].gen # NoGen /\ gen[unit[u].gen].status = "staged")
      BY <2>2 DEF ReleaseOrphans
    <2> QED
      BY <2>1, <2>2
  <1>4. Live' = Live /\ BatchesKept' /\ Serving' = Serving
    BY <1>2, <1>3, SameBatches DEF ReleaseOrphans
  <1>5. UnitsRooted'
    <2>1. ASSUME NEW u \in Live', unit'[u].gen # NoGen PROVE gen'[unit'[u].gen].status # "discarded"
      <3>1. u \in Live /\ unit'[u] = unit[u] /\ gen[unit[u].gen].status # "staged"
        BY <1>3, <1>4, <2>1 DEF Live
      <3>2. unit[u].gen \in Authoritative
        BY <1>1, <2>1, <3>1, LiveRows
           DEF UnitsRooted, Authoritative, Live, Row, SourceOK, Generations
      <3> QED
        BY <1>2, <3>1, <3>2 DEF Authoritative
    <2>2. \A g, h \in Authoritative' : g = h
      BY <1>1, <1>2 DEF UnitsRooted
    <2>3. \A u \in Live' : unit'[u].span \in stored'
      <3>1. stored' = stored
        BY DEF ReleaseOrphans
      <3>2. \A u \in Live : unit[u].span \in stored /\ u \in UnitIds
        BY <1>1 DEF UnitsRooted, Live
      <3> QED
        BY <1>3, <1>4, <3>1, <3>2
    <2> QED
      BY <2>1, <2>2, <2>3 DEF UnitsRooted
  <1>6. Goto(c, "released") /\ UNCHANGED <<content, l2, marker, owed>>
    BY DEF ReleaseOrphans
  <1>7. CompileInv(c)'
    BY <1>1 DEF ReleaseOrphans, Discarded, Goto, ProcessOK, SourceOK, CompileInv,
                ExtractsItsText, StagesItsOwn, Projects, Staging
  <1> QED
    BY <1>1, <1>2, <1>4, <1>5, <1>6, <1>7, QuietMove DEF Rested, Extraction

(* The spans of every row are stored: there is nothing a resume cannot     *)
(* adopt.                                                                  *)
LEMMA SweepKept ==
    ASSUME SerialInv, NEW c \in Compiles, Sweep(c)
    PROVE  Kept
  <1> USE DEF source, process, SerialInv
  <1>1. ProcessOK /\ SourceOK /\ pc[c] = "released"
    BY TypeParts DEF Sweep
  <1>2. Pool = {u \in Live : unit[u].gen = NoGen}
    BY DEF Pool, UnitsRooted
  <1>3. unit' = unit
    BY <1>1, <1>2 DEF Sweep, SourceOK
  <1>4. Rested /\ Authoritative' = Authoritative /\ Live' = Live
    BY <1>3, SameRows DEF Sweep, Rested, Live
  <1>5. Goto(c, "extracting") /\ UNCHANGED <<content, l2, marker, owed, gen>>
    BY DEF Sweep
  <1>6. CompileInv(c)'
    BY <1>1, <1>2, <1>3, <1>4
       DEF Sweep, Goto, ProcessOK, CompileInv, ExtractsItsText, StagesItsOwn, Projects, Staging
  <1> QED
    BY <1>1, <1>4, <1>5, <1>6, QuietMove DEF Extraction

(* The one row of a batch the model was asked about.                       *)
LEMMA ExtractBatchKept ==
    ASSUME SerialInv, NEW c \in Compiles, NEW s \in Spans, ExtractBatch(c, s)
    PROVE  Kept
  <1> USE DEF source, process, SerialInv
  <1>1. ProcessOK /\ SourceOK /\ pc[c] = "extracting" /\ pc' = pc /\ Goto(c, "extracting")
    BY TypeParts DEF ExtractBatch, ProcessOK, Goto
  <1>2. /\ UNCHANGED <<content, l2, marker, owed, gen, stored>>
        /\ Authoritative' = Authoritative
    BY DEF ExtractBatch, Authoritative
  <1>3. CASE UNCHANGED <<unit, mine, paid>>
    <2>1. Rested /\ Live' = Live
      BY <1>2, <1>3, SameRows DEF Rested, Live
    <2>2. CompileInv(c)'
      BY <1>1, <1>2, <1>3, <2>1
         DEF ExtractBatch, ProcessOK, CompileInv, ExtractsItsText, StagesItsOwn, Projects, Staging
    <2> QED
      BY <1>1, <1>2, <2>1, <2>2, QuietMove DEF Extraction
  <1>4. ASSUME NEW u \in FreeIds, NEW said \in Claims,
               unit' = [unit EXCEPT ![u] = [span |-> s, claim |-> said, prompt |-> prompt[c],
                                           gen |-> NoGen, support |-> "unchecked"]],
               mine' = [mine EXCEPT ![c] = @ \cup {u}],
               paid' = paid \cup {<<s, prompt[c]>>}
        PROVE  Kept
    <2>1. u \in UnitIds /\ u \notin Live /\ u \notin mine[c]
      BY DEF FreeIds
    <2>2. /\ unit'[u] = [span |-> s, claim |-> said, prompt |-> prompt[c],
                         gen |-> NoGen, support |-> "unchecked"]
          /\ \A v \in UnitIds \ {u} : unit'[v] = unit[v]
      BY <1>1, <1>4, <2>1 DEF SourceOK
    <2>3. Live' = Live \cup {u}
      BY <2>1, <2>2 DEF Live, None
    <2>4. Pending' = Pending \cup {u} /\ u \notin Pending
      BY <1>2, <2>1, <2>2, <2>3 DEF Pending, Authoritative, GenIds, NoGen, Live
    <2>5. Serving' = Serving
      BY <1>2, <2>1, <2>2, SameServing DEF Served, Live
    <2>6. \A v \in Pending : ~ (unit[v].span = s /\ unit[v].prompt = prompt[c])
      BY <1>1, NothingKept DEF CompileInv
    <2>7. BatchesKept'
      <3>1. \A v \in Pending : v \in UnitIds \ {u}
        BY <2>4 DEF Pending, Live
      <3>2. \A v, x \in Pending' :
               unit'[v].span = unit'[x].span /\ unit'[v].prompt = unit'[x].prompt => v = x
        BY <2>2, <2>4, <2>6, <3>1 DEF BatchesKept
      <3>3. ASSUME NEW b \in paid'
            PROVE \E v \in Pending' : unit'[v].span = b[1] /\ unit'[v].prompt = b[2]
        <4>1. CASE b \in paid
          BY <2>2, <2>4, <3>1, <4>1 DEF BatchesKept
        <4>2. CASE b = <<s, prompt[c]>>
          BY <2>2, <2>4, <4>2
        <4> QED
          BY <1>4, <4>1, <4>2
      <3> QED
        BY <3>2, <3>3 DEF BatchesKept
    <2>8. UnitsRooted'
      <3>1. s \in stored
        BY <1>1 DEF ExtractBatch, CompileInv, ExtractsItsText
      <3> QED
        BY <1>2, <2>2, <2>3, <3>1 DEF UnitsRooted, Live
    <2>9. ExtractsItsText(c)'
      <3>1. /\ todo'[c] = todo[c] \ {s} /\ mine'[c] = mine[c] \cup {u}
            /\ adoptable' = adoptable /\ text' = text /\ s \in todo[c]
        BY <1>1, <1>4 DEF ExtractBatch, ProcessOK
      <3>2. \A v \in Live : v # u /\ v \in UnitIds
        BY <2>1 DEF Live
      <3> QED
        BY <1>1, <1>2, <2>1, <2>2, <2>3, <3>1, <3>2 DEF CompileInv, ExtractsItsText
    <2>10. CompileInv(c)'
      BY <1>1, <2>9 DEF CompileInv, StagesItsOwn, Projects, Staging
    <2> QED
      BY <1>1, <1>2, <2>5, <2>7, <2>8, <2>10, QuietMove DEF Rested, Extraction
  <1> QED
    BY <1>3, <1>4 DEF ExtractBatch

(* A generation no row refers to is staged.                                *)
LEMMA EndExtractionKept ==
    ASSUME SerialInv, NEW c \in Compiles, EndExtraction(c)
    PROVE  Kept
  <1> USE DEF source, process, SerialInv
  <1>1. ProcessOK /\ SourceOK /\ pc[c] = "extracting"
    BY TypeParts DEF EndExtraction
  <1>2. PICK g \in FreeGens : gen' = [gen EXCEPT ![g].status = "staged"]
                              /\ staged' = [staged EXCEPT ![c] = g]
    BY DEF EndExtraction
  <1>3. /\ g \in GenIds /\ gen[g].status = "discarded" /\ gen'[g].status = "staged"
        /\ \A h \in GenIds \ {g} : gen'[h] = gen[h]
        /\ \A u \in UnitIds : unit[u].gen # g
    BY <1>1, <1>2 DEF FreeGens, Discarded, SourceOK, Generations
  <1>4. Authoritative' = Authoritative /\ \A h \in Authoritative : gen'[h] = gen[h]
    BY <1>3 DEF Authoritative
  <1>5. UnitsRooted'
    <2>1. ASSUME NEW u \in Live, unit[u].gen # NoGen PROVE gen'[unit[u].gen].status # "discarded"
      <3>1. unit[u].gen \in GenIds \ {g}
        BY <1>1, <1>3, <2>1, LiveRows DEF Live, Row
      <3> QED
        BY <1>3, <2>1, <3>1 DEF UnitsRooted
    <2> QED
      BY <1>4, <2>1 DEF UnitsRooted, EndExtraction, Live
  <1>6. BatchesKept' /\ Serving' = Serving
    BY <1>4 DEF EndExtraction, BatchesKept, Pending, Live, Serving, Served
  <1>7. Goto(c, "staged") /\ UNCHANGED <<content, l2, marker, owed>>
    BY DEF EndExtraction
  <1>8. CompileInv(c)'
    <2>1. pc'[c] = "staged" /\ staged'[c] = g
      BY <1>1, <1>2, <1>7 DEF Goto, ProcessOK
    <2>2. text[c] \subseteq stored /\ \A u \in mine[c] : unit[u].gen = NoGen /\ unit[u].span \in text[c]
      BY <1>1 DEF CompileInv, ExtractsItsText
    <2>3. stored' = stored /\ unit' = unit /\ mine' = mine /\ text' = text
      BY DEF EndExtraction
    <2> QED
      BY <1>3, <2>1, <2>2, <2>3
         DEF CompileInv, ExtractsItsText, StagesItsOwn, Projects, Staging
  <1> QED
    BY <1>1, <1>4, <1>5, <1>6, <1>7, <1>8, QuietMove DEF Rested, Extraction, Staging

(* The rows of the extraction, none of which serves, join its generation.  *)
LEMMA StampKept ==
    ASSUME SerialInv, NEW c \in Compiles, Stamp(c)
    PROVE  Kept
  <1> USE DEF source, process, SerialInv
  <1>1. ProcessOK /\ SourceOK /\ pc[c] = "staged"
    BY TypeParts DEF Stamp
  <1>2. /\ staged[c] \in GenIds /\ gen[staged[c]].status = "staged"
        /\ text[c] \subseteq stored
        /\ \A u \in mine[c] \cap Live : unit[u].gen \in {NoGen, staged[c]} /\ unit[u].span \in text[c]
    BY <1>1 DEF CompileInv, StagesItsOwn, ExtractsItsText, Staging
  <1>3. /\ UNCHANGED <<content, l2, marker, owed, gen, stored, paid, mine, staged, text>>
        /\ Authoritative' = Authoritative
        /\ Goto(c, "stamped")
    BY DEF Stamp, Authoritative
  <1>4. ASSUME NEW u \in UnitIds
        PROVE  /\ unit'[u].span = unit[u].span /\ unit'[u].prompt = unit[u].prompt
               /\ unit'[u].claim = unit[u].claim /\ unit'[u].support = unit[u].support
               /\ unit'[u].gen \in Authoritative <=> unit[u].gen \in Authoritative
               /\ unit'[u].gen = IF u \in mine[c] \cap Live THEN staged[c] ELSE unit[u].gen
    <2>1. CASE u \in mine[c] \cap Live
      <3>1. unit'[u] = [unit[u] EXCEPT !.gen = staged[c]] /\ unit[u] \in Row
        BY <1>1, <2>1, LiveRows DEF Stamp
      <3> QED
        BY <1>2, <2>1, <3>1 DEF Row, Authoritative, GenIds, NoGen
    <2>2. CASE u \notin mine[c] \cap Live
      BY <2>2 DEF Stamp
    <2> QED
      BY <2>1, <2>2
  <1>5. Live' = Live /\ BatchesKept' /\ Serving' = Serving
    BY <1>3, <1>4, SameBatches
  <1>6. UnitsRooted'
    BY <1>2, <1>3, <1>4, <1>5 DEF UnitsRooted, Live
  <1>7. CompileInv(c)'
    <2>1. pc'[c] = "stamped"
      BY <1>1, <1>3 DEF Goto, ProcessOK
    <2> QED
      BY <1>2, <1>3, <1>4, <1>5, <2>1
         DEF CompileInv, ExtractsItsText, StagesItsOwn, Projects, Staging, Live
  <1> QED
    BY <1>1, <1>3, <1>5, <1>6, <1>7, QuietMove DEF Rested, Staging

(* The verdicts are those of rows of a staged generation.                  *)
LEMMA ValidateKept ==
    ASSUME SerialInv, NEW c \in Compiles, Validate(c)
    PROVE  Kept
  <1> USE DEF source, process, SerialInv
  <1>1. ProcessOK /\ SourceOK /\ pc[c] = "stamped"
    BY TypeParts DEF Validate
  <1>2. /\ staged[c] \in GenIds /\ gen[staged[c]].status = "staged"
        /\ text[c] \subseteq stored
        /\ \A u \in mine[c] \cap Live : unit[u].gen \in {NoGen, staged[c]} /\ unit[u].span \in text[c]
    BY <1>1 DEF CompileInv, StagesItsOwn, ExtractsItsText, Staging
  <1>3. /\ UNCHANGED <<content, l2, marker, owed, gen, stored, paid, mine, staged, text>>
        /\ Authoritative' = Authoritative
        /\ Goto(c, "validated")
    BY DEF Validate, Authoritative
  <1>4. ASSUME NEW u \in UnitIds
        PROVE  /\ unit'[u].span = unit[u].span /\ unit'[u].prompt = unit[u].prompt
               /\ unit'[u].claim = unit[u].claim /\ unit'[u].gen = unit[u].gen
               /\ unit'[u].support # None <=> unit[u].support # None
               /\ unit[u].gen \in Authoritative => unit'[u].support = unit[u].support
    <2>1. CASE u \in mine[c] \cap Live
      <3>1. unit'[u] = [unit[u] EXCEPT !.support = Verdict(unit[u].claim)] /\ unit[u] \in Row
        BY <1>1, <2>1, LiveRows DEF Validate
      <3>2. Verdict(unit[u].claim) # None
        BY DEF Verdict, None
      <3> QED
        BY <1>2, <2>1, <3>1, <3>2 DEF Row, Authoritative, GenIds, NoGen, Live
    <2>2. CASE u \notin mine[c] \cap Live
      BY <2>2 DEF Validate
    <2> QED
      BY <2>1, <2>2
  <1>5. Live' = Live /\ BatchesKept' /\ Serving' = Serving
    BY <1>3, <1>4, SameBatches
  <1>6. UnitsRooted'
    BY <1>2, <1>3, <1>4, <1>5 DEF UnitsRooted, Live
  <1>7. CompileInv(c)'
    <2>1. pc'[c] = "validated"
      BY <1>1, <1>3 DEF Goto, ProcessOK
    <2> QED
      BY <1>2, <1>3, <1>4, <1>5, <2>1
         DEF CompileInv, ExtractsItsText, StagesItsOwn, Projects, Staging, Live
  <1> QED
    BY <1>1, <1>3, <1>5, <1>6, <1>7, QuietMove DEF Rested, Staging

(* A failed compile gives back its own rows, which serve nothing.          *)
LEMMA ReleaseUnitsKept ==
    ASSUME SerialInv, NEW c \in Compiles, ReleaseUnits(c)
    PROVE  Kept
  <1> USE DEF source, process, SerialInv
  <1>1. ProcessOK /\ SourceOK /\ pc[c] = "failing"
    BY TypeParts DEF ReleaseUnits
  <1>2. staged[c] \in GenIds /\ gen[staged[c]].status = "staged" /\ staged[c] # NoGen
    BY <1>1 DEF CompileInv, StagesItsOwn, Staging, GenIds, NoGen
  <1>3. /\ UNCHANGED <<content, l2, marker, owed, gen, stored, paid, mine, staged, text>>
        /\ Authoritative' = Authoritative
        /\ Goto(c, "discarding")
    BY DEF ReleaseUnits, Authoritative
  <1>4. ASSUME NEW u \in UnitIds
        PROVE  /\ unit'[u].span = unit[u].span /\ unit'[u].prompt = unit[u].prompt
               /\ unit'[u].claim = unit[u].claim /\ unit'[u].support = unit[u].support
               /\ unit'[u].gen \in Authoritative <=> unit[u].gen \in Authoritative
               /\ unit'[u].gen = IF unit[u].gen = staged[c] THEN NoGen ELSE unit[u].gen
    <2>1. CASE unit[u].gen = staged[c]
      <3>1. unit'[u] = [unit[u] EXCEPT !.gen = NoGen] /\ unit[u] \in Row
        BY <1>1, <1>2, <2>1, LiveRows DEF ReleaseUnits
      <3> QED
        BY <1>2, <2>1, <3>1 DEF Row, Authoritative, GenIds, NoGen
    <2>2. CASE unit[u].gen # staged[c]
      BY <2>2 DEF ReleaseUnits
    <2> QED
      BY <2>1, <2>2
  <1>5. Live' = Live /\ BatchesKept' /\ Serving' = Serving
    BY <1>3, <1>4, SameBatches
  <1>6. UnitsRooted'
    BY <1>2, <1>3, <1>4, <1>5 DEF UnitsRooted, Live
  <1>7. CompileInv(c)'
    <2>1. pc'[c] = "discarding"
      BY <1>1, <1>3 DEF Goto, ProcessOK
    <2> QED
      BY <1>2, <1>3, <1>4, <1>5, <2>1
         DEF CompileInv, ExtractsItsText, StagesItsOwn, Projects, Staging, Live
  <1> QED
    BY <1>1, <1>3, <1>5, <1>6, <1>7, QuietMove DEF Rested, Staging

(* A generation goes once none of its rows refers to it.                   *)
LEMMA DiscardKept ==
    ASSUME SerialInv, NEW c \in Compiles, DiscardGeneration(c)
    PROVE  Kept
  <1> USE DEF source, process, SerialInv
  <1>1. ProcessOK /\ SourceOK /\ pc[c] = "discarding"
    BY TypeParts DEF DiscardGeneration
  <1>2. /\ staged[c] \in GenIds /\ gen[staged[c]].status = "staged"
        /\ \A u \in Live : unit[u].gen # staged[c]
    BY <1>1 DEF CompileInv, StagesItsOwn, Staging
  <1>3. /\ UNCHANGED <<content, l2, marker, owed, unit, stored, paid>>
        /\ Goto(c, "failed")
        /\ gen'[staged[c]] = Discarded /\ \A g \in GenIds \ {staged[c]} : gen'[g] = gen[g]
    BY <1>1, <1>2 DEF DiscardGeneration, SourceOK
  <1>4. Authoritative' = Authoritative /\ \A g \in Authoritative : gen'[g] = gen[g]
    BY <1>2, <1>3 DEF Authoritative, Discarded
  <1>5. BatchesKept' /\ Serving' = Serving
    BY <1>3, <1>4 DEF BatchesKept, Pending, Live, Serving, Served
  <1>6. UnitsRooted'
    <2>1. \A u \in Live : unit[u].gen # NoGen => unit[u].gen \in GenIds \ {staged[c]}
      BY <1>1, <1>2, LiveRows DEF Live, Row
    <2> QED
      BY <1>3, <1>4, <2>1 DEF UnitsRooted, Live
  <1>7. CompileInv(c)'
    BY <1>1, <1>3 DEF Goto, ProcessOK, CompileInv, ExtractsItsText, StagesItsOwn, Projects, Staging
  <1> QED
    BY <1>1, <1>3, <1>4, <1>5, <1>6, <1>7, QuietMove DEF Rested, Staging

-----------------------------------------------------------------------------
(* Starts, ends and the projection *)

(* A compile starts while nobody else compiles: what an earlier one owed is *)
(* recovered, unless the text changed since.                               *)
LEMMA StartKept ==
    ASSUME SerialInv, NEW c \in Compiles, Alone, Start(c)
    PROVE  Kept
  <1> USE DEF source, process, SerialInv
  <1>1. ProcessOK
    BY TypeParts
  <1>2. Rested /\ Authoritative' = Authoritative /\ gen' = gen /\ content' = content /\ owed' = owed
    BY SameRows DEF Rested, Start, StartRecovery, StartCompile
  <1>3. CASE StartRecovery(c)
    <2>1. Goto(c, "published") /\ l2' = l2 /\ marker' = marker
      BY <1>3 DEF StartRecovery
    <2>2. l2 \notin {"done", "skipped"}
      BY <1>3 DEF StartRecovery, Recoverable, StatusTells
    <2>3. TellsOf("published")'
      BY <1>2, <2>1, <2>2 DEF TellsOf, StatusTells, Promised, Extraction, Staging
    <2>4. DoneMeansProjected' /\ CompileInv(c)'
      BY <1>1, <2>1, <2>2 DEF DoneMeansProjected, Goto, ProcessOK, CompileInv, ExtractsItsText,
                              StagesItsOwn, Projects, Staging
    <2> QED
      BY <1>1, <1>2, <2>1, <2>3, <2>4, MoveKept
  <1>4. CASE StartCompile(c)
    <2>1. Goto(c, "started") /\ l2' = "running" /\ marker' = None
      BY <1>4 DEF StartCompile
    <2>2. owed => \A g \in Authoritative : gen[g].hash # content
      BY <1>4 DEF StartCompile, Recoverable, StatusTells, Promised
    <2>3. TellsOf("started")'
      BY <1>2, <2>1, <2>2 DEF TellsOf, Promised, None
    <2>4. DoneMeansProjected' /\ CompileInv(c)'
      BY <1>1, <2>1 DEF DoneMeansProjected, Goto, ProcessOK, CompileInv, ExtractsItsText,
                        StagesItsOwn, Projects, Staging
    <2> QED
      BY <1>1, <1>2, <2>1, <2>3, <2>4, MoveKept
  <1> QED
    BY <1>3, <1>4 DEF Start

(* A compile that leaves, its error written or not.                        *)
LEMMA LeaveKept ==
    ASSUME SerialInv, NEW c \in Compiles,
           FailExtraction(c) \/ SetError(c) \/ FailProjection(c) \/ Crash(c)
    PROVE  Kept
  <1> USE DEF source, process, SerialInv
  <1>1. ProcessOK /\ Goto(c, "idle") /\ ~Idle(c)
    BY TypeParts DEF FailExtraction, SetError, FailProjection, Crash, Leave, Forget, Idle
  <1>2. /\ Rested /\ Authoritative' = Authoritative /\ gen' = gen
        /\ content' = content /\ owed' = owed /\ pages' = pages /\ Serving' = Serving
    BY SameRows DEF Rested, FailExtraction, SetError, FailProjection, Crash
  <1>3. CompileInv(c)'
    BY <1>1, IdleHolds DEF Goto, ProcessOK
  <1>4. l2 \notin {"done", "skipped"}
    BY <1>1, UnderWay
  <1>5. l2' \notin {"done", "skipped"} /\ DoneMeansProjected'
    BY <1>4 DEF FailExtraction, SetError, FailProjection, Crash, DoneMeansProjected
  <1>6. TellsOf("idle")'
    <2>1. CASE FailExtraction(c) \/ SetError(c)
      <3>1. owed => \A g \in Authoritative : gen[g].hash # content
        BY <2>1 DEF FailExtraction, SetError, StatusTells, Extraction
      <3>2. l2' = "error" /\ marker' = "other"
        BY <2>1 DEF FailExtraction, SetError
      <3> QED
        BY <1>2, <3>1, <3>2 DEF TellsOf, Promised, Extraction, Staging
    <2>2. CASE FailProjection(c)
      BY <1>2, <2>2 DEF FailProjection, TellsOf, Promised, Extraction, Staging
    <2>3. CASE Crash(c)
      BY <1>2, <1>5, <2>3 DEF Crash, TellsOf, StatusTells, Promised, Extraction, Staging
    <2> QED
      BY <2>1, <2>2, <2>3
  <1> QED
    BY <1>1, <1>2, <1>3, <1>5, <1>6, MoveKept

(* Pages of what serves no longer go, the others are written, and only then *)
(* is the source done.                                                     *)
LEMMA ProjectKept ==
    ASSUME SerialInv, NEW c \in Compiles, EmitPages(c) \/ WritePages(c) \/ EndCompile(c)
    PROVE  Kept
  <1> USE DEF source, process, SerialInv
  <1>1. ProcessOK /\ ~Idle(c)
    BY TypeParts DEF EmitPages, WritePages, EndCompile, Idle
  <1>2. /\ Rested /\ Authoritative' = Authoritative /\ gen' = gen /\ content' = content
        /\ Served' = Served /\ Serving' = Serving
    BY SameRows DEF Rested, EmitPages, WritePages, EndCompile
  <1>3. l2 \notin {"done", "skipped"}
    BY <1>1, UnderWay
  <1>4. CASE EmitPages(c)
    <2>1. Goto(c, "emitting") /\ l2' = l2 /\ marker' = marker /\ owed' = owed
      BY <1>4 DEF EmitPages
    <2>2. CompileInv(c)'
      BY <1>1, <1>2, <1>4, <2>1
         DEF EmitPages, Goto, ProcessOK, CompileInv, ExtractsItsText, StagesItsOwn, Projects, Staging
    <2>3. TellsOf("emitting")' /\ DoneMeansProjected'
      BY <1>2, <1>3, <2>1 DEF TellsOf, StatusTells, Promised, Extraction, Staging, DoneMeansProjected
    <2> QED
      BY <1>1, <1>2, <2>1, <2>2, <2>3, MoveKept
  <1>5. CASE WritePages(c)
    <2>1. Goto(c, "emitted") /\ l2' = l2 /\ marker' = marker /\ owed' = owed
      BY <1>5 DEF WritePages
    <2>2. pages' = Serving
      BY <1>5 DEF WritePages, CompileInv, Projects
    <2>3. CompileInv(c)'
      BY <1>1, <1>2, <2>1, <2>2
         DEF Goto, ProcessOK, CompileInv, ExtractsItsText, StagesItsOwn, Projects, Staging
    <2>4. TellsOf("emitted")' /\ DoneMeansProjected'
      BY <1>2, <1>3, <2>1 DEF TellsOf, StatusTells, Promised, Extraction, Staging, DoneMeansProjected
    <2> QED
      BY <1>1, <1>2, <2>1, <2>3, <2>4, MoveKept
  <1>6. CASE EndCompile(c)
    <2>1. /\ Goto(c, "idle") /\ marker' = None /\ owed' = FALSE /\ pages' = pages
          /\ pc[c] = "emitted"
      BY <1>6 DEF EndCompile, Leave, Forget
    <2>2. DoneMeansProjected'
      BY <1>2, <2>1 DEF DoneMeansProjected, CompileInv, Projects
    <2>3. TellsOf("idle")' /\ CompileInv(c)'
      BY <1>1, <2>1, IdleHolds DEF TellsOf, None, Extraction, Staging, Goto, ProcessOK
    <2> QED
      BY <1>1, <1>2, <2>1, <2>2, <2>3, MoveKept
  <1> QED
    BY <1>4, <1>5, <1>6

(* The publish: what it leaves is one generation of stored spans, and its   *)
(* marker owes the projection.                                             *)
LEMMA PublishKept ==
    ASSUME SerialInv, NEW c \in Compiles, Publish(c)
    PROVE  Kept
  <1> USE DEF SerialInv
  <1>1. ProcessOK /\ SourceOK /\ Goto(c, "published") /\ ~Idle(c)
    BY TypeParts DEF Publish, Forget, Idle
  <1>2. /\ \A u \in Live' : unit'[u].gen = staged[c] /\ unit'[u].span \in stored'
        /\ Authoritative' = {staged[c]}
        /\ staged[c] \in GenIds
    BY <1>1, PublishedRows
  <1>3. Rested
    <2>1. UnitsRooted'
      BY <1>2 DEF UnitsRooted, Authoritative
    <2>2. Pending' = {} /\ paid' = {}
      BY <1>2 DEF Pending, Publish
    <2> QED
      BY <2>1, <2>2 DEF Rested, BatchesKept, PublishStep
  <1>4. l2' = l2 /\ marker' = "pending" /\ l2 \notin {"done", "skipped"}
    BY <1>1, UnderWay DEF Publish
  <1>5. TellsOf("published")' /\ DoneMeansProjected'
    BY <1>4 DEF TellsOf, Promised, Extraction, Staging, DoneMeansProjected
  <1>6. CompileInv(c)'
    BY <1>1 DEF Goto, ProcessOK, CompileInv, ExtractsItsText, StagesItsOwn, Projects, Staging
  <1> QED
    BY <1>1, <1>3, <1>5, <1>6, MoveKept

-----------------------------------------------------------------------------
(* What is served is one text *)

LEMMA SerialKept == SerialInv /\ [SerialNext]_vars => Kept
  <1> SUFFICES ASSUME SerialInv, [SerialNext]_vars PROVE Kept
    OBVIOUS
  <1>1. ASSUME NEW c \in Compiles, Continue(c) PROVE Kept
    BY <1>1, StageKept, ParseKept, ReleaseOrphansKept, SweepKept, ExtractBatchKept,
       EndExtractionKept, StampKept, ValidateKept, ReleaseUnitsKept, DiscardKept,
       LeaveKept, ProjectKept, PublishKept DEF Continue
  <1>2. ASSUME NEW c \in Compiles, (Alone /\ Start(c)) \/ Crash(c) PROVE Kept
    BY <1>2, StartKept, LeaveKept
  <1> QED
    BY <1>1, <1>2, OutsideKept DEF SerialNext

LEMMA SerialStep == SerialInv /\ [SerialNext]_vars => SerialInv'
  <1> SUFFICES ASSUME SerialInv, [SerialNext]_vars PROVE SerialInv'
    OBVIOUS
  <1>1. TypeOK'
    BY SerialIsNext, TypeStep DEF SerialInv
  <1>2. Kept
    BY SerialKept
  <1> QED
    BY <1>1, <1>2 DEF Kept, SerialInv

LEMMA SerialInvariant == SerialSpec => []SerialInv
  <1>1. Init => SerialInv
    BY SerialInit
  <1>2. SerialInv /\ [SerialNext]_vars => SerialInv'
    BY SerialStep
  <1> QED
    BY <1>1, <1>2, PTL DEF SerialSpec

(* At most one generation serves, what it serves cites stored spans, and a  *)
(* source is done only when its pages are those of what it serves: whatever *)
(* was edited, registered, forced, killed or failed in between.            *)
THEOREM ServedTextIsOne == SerialSpec => []ServesOneText
  <1>1. SerialInv => ServesOneText
    <2> SUFFICES ASSUME SerialInv PROVE OneTextServed
      BY DEF ServesOneText, SerialInv
    <2>1. CASE Authoritative = {}
      BY <2>1, FS_EmptySet DEF OneTextServed, SerialInv, UnitsRooted, Served
    <2>2. ASSUME NEW g \in Authoritative PROVE OneTextServed
      <3>1. Authoritative = {g}
        BY DEF SerialInv, UnitsRooted
      <3>2. Cardinality(Authoritative) = 1
        BY <3>1, FS_Singleton
      <3> QED
        BY <3>2 DEF OneTextServed, SerialInv, UnitsRooted, Served
    <2> QED
      BY <2>1, <2>2
  <1> QED
    BY <1>1, SerialInvariant, PTL

(* Only a publish changes what is served; a batch that was paid for is not  *)
(* extracted again before one; a source whose projection is owed is not    *)
(* compiled again.                                                         *)
THEOREM PublishesOnce == SerialSpec => PublishedOnce
  <1>1. SerialInv /\ [SerialNext]_vars
          => [ServedOnlyByPublish /\ PaidOnce /\ RecoveredNotRecompiled]_vars
    <2> SUFFICES ASSUME SerialInv, [SerialNext]_vars
                 PROVE ServedOnlyByPublish /\ PaidOnce /\ RecoveredNotRecompiled
      OBVIOUS
    <2>1. ServedOnlyByPublish
      BY SerialKept DEF Kept, ServedOnlyByPublish
    <2>2. PaidOnce
      BY NothingKept, TypeParts DEF PaidOnce, SerialInv, CompileInv
    <2>3. RecoveredNotRecompiled
      BY DEF RecoveredNotRecompiled, StartCompile, Recoverable, SerialInv, StatusTells, Promised
    <2> QED
      BY <2>1, <2>2, <2>3
  <1> QED
    BY <1>1, SerialInvariant, PTL DEF SerialSpec, PublishedOnce

-----------------------------------------------------------------------------
(* Recovery of formulas *)

(* What a model may have read, and the candidates made of it.              *)
Latexes == {r[1] : r \in Readings}
RecoveryCandidates == [id : Nat, latex : Latexes, page : Nat, status : {"candidate", "reviewed", "rejected"}]

(* What of a set of candidates was reviewed.                               *)
ReviewedOf(S) == {c.latex : c \in {r \in S : r.status = "reviewed"}}

(* The stages of a call: a recovery before its candidate is written, the   *)
(* validation of the unit after it, and an invalidation.                   *)
Reading    == {"look", "write"}
Validation == {"hydrate", "judge", "status", "link", "linked"}
Undoing    == {"stale", "withdraw"}

(* What a process remembers at each stage.                                 *)
Remembers(p) ==
    LET j == job[p] IN
    /\ j.at \in {"idle", "unsure", "reject"} \cup Reading \cup Validation \cup Undoing
    /\ j.at = "idle" => j = Formulas!Idle
    /\ j.at \in Reading =>
          /\ j = [at |-> j.at, span |-> j.span, latex |-> j.latex, sure |-> j.sure,
                  page |-> j.page, call |-> j.call, old |-> j.old]
          /\ j.span \in Formulas!CitedSpans /\ j.latex \in Latexes /\ j.page \in Nat /\ j.call \in Nat
          /\ j.old \subseteq RecoveryCandidates
    /\ j.at \in Validation =>
          /\ j = [at |-> j.at, span |-> j.span, left |-> j.left, seen |-> j.seen]
          /\ j.span \in Formulas!CitedSpans /\ j.seen \in [Formulas!CitedSpans -> SUBSET Latexes]
    /\ j.at = "reject" =>
          /\ j = [at |-> j.at, span |-> j.span, page |-> j.page, old |-> j.old]
          /\ j.span \in Formulas!CitedSpans /\ j.old \subseteq RecoveryCandidates
    /\ j.at \in Undoing => j = [at |-> j.at, span |-> j.span] /\ j.span \in Formulas!CitedSpans

Shape ==
    /\ recs \in [Formulas!CitedSpans -> SUBSET RecoveryCandidates]
    /\ link \in [Formulas!CitedSpans -> {"none", "verified", "stale"}]
    /\ stated \in [support : {"unchecked", "verified", "stale"},
                 formula : {"uncertain", "preserved_in_text", "linked_evidence"}]
    /\ page \in [Formulas!CitedSpans -> Nat]
    /\ job = [p \in Procs |-> job[p]]
    /\ recoveries \in Nat
    /\ made \subseteq RecoveryCandidates
    /\ calm \in BOOLEAN
    /\ \A p \in Procs : Remembers(p)

-----------------------------------------------------------------------------
(* Whatever overlaps or dies: what counts as reviewed anywhere, in the      *)
(* metadata, in a copy of it or in what a validation has seen, was made.   *)
WasMade ==
    /\ \A s \in Formulas!CitedSpans : ReviewedOf(recs[s]) \subseteq ReviewedOf(made)
    /\ \A p \in Procs :
          /\ job[p].at \in Reading \cup {"reject"} => ReviewedOf(job[p].old) \subseteq ReviewedOf(made)
          /\ job[p].at \in Validation =>
                \A s \in Formulas!CitedSpans : job[p].seen[s] \subseteq ReviewedOf(made)

-----------------------------------------------------------------------------
(* While calls neither overlap nor die *)

(* A call's copy of the list is the list; it starts from a unit that is     *)
(* uncertain, and its span has evidence from its own candidate on.         *)
CallKnows(p) ==
    LET j == job[p] IN
    /\ j.at \in {"write", "reject"} => j.old = recs[j.span]
    /\ j.at \in {"look", "write", "hydrate", "judge", "status"} => stated.formula = "uncertain"
    /\ j.at \in Validation => Formulas!Evidence(j.span) # {}
    /\ j.at = "linked" => link[j.span] = "verified"

Calmly ==
    /\ \A p, q \in Procs : job[p] # Formulas!Idle /\ job[q] # Formulas!Idle => p = q
    /\ \A p \in Procs : CallKnows(p)
    /\ stated.formula = "linked_evidence" =>
          \/ \E s \in Formulas!CitedSpans : link[s] = "verified"
          \/ \E p \in Procs : job[p].at \in Undoing \cup {"unsure"}
    /\ \A s \in Formulas!CitedSpans : link[s] = "verified" =>
          \/ Formulas!Evidence(s) # {}
          \/ \E p \in Procs : job[p].at = "stale" /\ job[p].span = s
    /\ Formulas!NoneLostEver

FormulaInv == Shape /\ WasMade /\ Formulas!VerifiedWasShown /\ (calm => Calmly)

-----------------------------------------------------------------------------
(* Shape *)

USE DEF Formulas!Idle

LEMMA InitShape == Formulas!Init => Shape
  BY DEF Formulas!Init, Shape, Remembers, Reading, Validation, Undoing

(* A step of one process leaves what the others remember.                  *)
LEMMA OneMoves ==
    ASSUME Shape, NEW p \in Procs, NEW x, job' = [job EXCEPT ![p] = x]
    PROVE  /\ job'[p] = x /\ \A q \in Procs \ {p} : job'[q] = job[q]
           /\ job' = [q \in Procs |-> job'[q]]
  BY DEF Shape

LEMMA ShapeKept ==
    ASSUME Shape, NEW p \in Procs, NEW x, job' = [job EXCEPT ![p] = x], Remembers(p)',
           recs' \in [Formulas!CitedSpans -> SUBSET RecoveryCandidates],
           link' \in [Formulas!CitedSpans -> {"none", "verified", "stale"}],
           stated' \in [support : {"unchecked", "verified", "stale"},
                      formula : {"uncertain", "preserved_in_text", "linked_evidence"}],
           page' = page, recoveries' \in Nat, made' \subseteq RecoveryCandidates, calm' \in BOOLEAN
    PROVE  Shape'
  <1>1. \A q \in Procs : Remembers(q)'
    BY OneMoves DEF Shape, Remembers
  <1> QED
    BY <1>1, OneMoves DEF Shape

LEMMA EvidenceShape ==
    ASSUME Shape
    PROVE  /\ \A s \in Formulas!CitedSpans : Formulas!Evidence(s) = ReviewedOf(recs[s]) /\ Formulas!Evidence(s) \subseteq Latexes
  BY DEF Shape, Formulas!Evidence, ReviewedOf, RecoveryCandidates

(* The candidate of a reading, and the list a change of page leaves.       *)
LEMMA CandidateShape ==
    ASSUME Shape, NEW p \in Procs, job[p].at \in Reading
    PROVE  /\ Formulas!Candidate(job[p]) \in RecoveryCandidates
           /\ Formulas!Candidate(job[p]).id = job[p].call /\ Formulas!Candidate(job[p]).latex = job[p].latex
           /\ Formulas!Candidate(job[p]).status = "reviewed" <=> Formulas!Reviewed(job[p])
  BY DEF Shape, Remembers, Formulas!Candidate, RecoveryCandidates

LEMMA RejectedShape ==
    ASSUME NEW j, j.old \subseteq RecoveryCandidates
    PROVE  /\ Formulas!Rejected(j) \subseteq RecoveryCandidates
           /\ ReviewedOf(Formulas!Rejected(j)) \subseteq ReviewedOf(j.old)
           /\ \A r \in j.old : \E x \in Formulas!Rejected(j) : x.id = r.id
           /\ (\A c \in Formulas!Outdated(j) : c.status # "reviewed") => ReviewedOf(j.old) \subseteq ReviewedOf(Formulas!Rejected(j))
  <1>1. \A c \in RecoveryCandidates : /\ [c EXCEPT !.status = "rejected"] \in RecoveryCandidates
                              /\ [c EXCEPT !.status = "rejected"].id = c.id
                              /\ [c EXCEPT !.status = "rejected"].status = "rejected"
    BY DEF RecoveryCandidates
  <1>2. Formulas!Outdated(j) \subseteq j.old
    BY DEF Formulas!Outdated
  <1>3. Formulas!Rejected(j) \subseteq RecoveryCandidates
    BY <1>1, <1>2 DEF Formulas!Rejected
  <1>4. \A r \in Formulas!Rejected(j) : r.status = "reviewed" => r \in j.old
    BY <1>1, <1>2 DEF Formulas!Rejected
  <1>5. \A r \in j.old : \E x \in Formulas!Rejected(j) : x.id = r.id
    BY <1>1, <1>2 DEF Formulas!Rejected
  <1>6. ASSUME \A c \in Formulas!Outdated(j) : c.status # "reviewed", NEW r \in j.old, r.status = "reviewed"
        PROVE  r \in Formulas!Rejected(j)
    BY <1>6 DEF Formulas!Rejected
  <1> QED
    BY <1>3, <1>4, <1>5, <1>6 DEF ReviewedOf

LEMMA ShapeStep == Shape /\ [Formulas!Next]_Formulas!vars => Shape'
  <1> SUFFICES ASSUME Shape, [Formulas!Next]_Formulas!vars PROVE Shape'
    OBVIOUS
  <1> USE DEF Reading, Validation, Undoing
  <1>1. ASSUME NEW s \in Formulas!CitedSpans, Formulas!Rerender(s) PROVE Shape'
    BY <1>1 DEF Formulas!Rerender, Shape, Remembers
  <1>2. ASSUME NEW p \in Procs, NEW s \in Formulas!CitedSpans, Formulas!Invalidate(p, s) PROVE Shape'
    <2>1. Remembers(p)' /\ recoveries' \in Nat /\ calm' \in BOOLEAN
      BY <1>2 DEF Formulas!Invalidate, Formulas!Begin, Shape, Remembers
    <2> QED
      BY <1>2, <2>1, ShapeKept DEF Formulas!Invalidate, Formulas!Begin, Shape
  <1>3. ASSUME NEW p \in Procs, NEW s \in Formulas!CitedSpans, NEW reading \in Readings, Formulas!Recover(p, s, reading)
        PROVE Shape'
    <2> DEFINE new == [at |-> "look", span |-> s, latex |-> reading[1], sure |-> reading[2],
                       page |-> page[s], call |-> recoveries, old |-> {}]
    <2>1. job' = [job EXCEPT ![p] = new] /\ recoveries' \in Nat /\ calm' \in BOOLEAN
      BY <1>3 DEF Formulas!Recover, Formulas!Begin, Shape
    <2>2. reading[1] \in Latexes /\ page[s] \in Nat /\ recoveries \in Nat
      BY DEF Latexes, Shape
    <2>3. Remembers(p)'
      BY <2>1, <2>2, OneMoves DEF Remembers
    <2> QED
      BY <1>3, <2>1, <2>3, ShapeKept DEF Formulas!Recover, Shape
  <1>4. ASSUME NEW p \in Procs, Formulas!Look(p) PROVE Shape'
    <2> DEFINE j == job[p]
               new == [at |-> "write", span |-> j.span, latex |-> j.latex, sure |-> j.sure,
                       page |-> j.page, call |-> j.call, old |-> recs[j.span]]
    <2>1. /\ j.span \in Formulas!CitedSpans /\ j.latex \in Latexes /\ j.page \in Nat /\ j.call \in Nat
          /\ recs[j.span] \subseteq RecoveryCandidates
      BY <1>4 DEF Formulas!Look, Shape, Remembers
    <2>2. job' = [job EXCEPT ![p] = new]
      BY <1>4 DEF Formulas!Look
    <2>3. Remembers(p)'
      <3>1. job'[p] = new
        BY <2>2, OneMoves
      <3> QED
        BY <2>1, <3>1 DEF Remembers
    <2> QED
      BY <1>4, <2>2, <2>3, ShapeKept DEF Formulas!Look, Shape
  <1>5. ASSUME NEW p \in Procs, Formulas!Write(p) PROVE Shape'
    <2>1. /\ recs' = [recs EXCEPT ![job[p].span] = job[p].old \cup {Formulas!Candidate(job[p])}]
          /\ made' = made \cup {Formulas!Candidate(job[p])}
          /\ Formulas!Candidate(job[p]) \in RecoveryCandidates
      BY <1>5, CandidateShape DEF Formulas!Write, Formulas!Added
    <2>2. Remembers(p)'
      BY <1>5 DEF Formulas!Write, Shape, Remembers
    <2>3. recs' \in [Formulas!CitedSpans -> SUBSET RecoveryCandidates] /\ made' \subseteq RecoveryCandidates
      BY <1>5, <2>1 DEF Formulas!Write, Shape, Remembers
    <2> QED
      BY <1>5, <2>2, <2>3, ShapeKept DEF Formulas!Write, Shape
  <1>6. ASSUME NEW p \in Procs, Formulas!Hydrate(p) PROVE Shape'
    <2> DEFINE s == Head(job[p].left)
               at == IF Len(job[p].left) = 1 THEN "judge" ELSE "hydrate"
               left == Tail(job[p].left)
               seen == [job[p].seen EXCEPT ![s] = Formulas!Evidence(s)]
    <2>1. job' = [job EXCEPT ![p] = [at |-> at, span |-> job[p].span, left |-> left, seen |-> seen]]
      BY <1>6 DEF Formulas!Hydrate
    <2>2. at \in {"judge", "hydrate"} /\ job[p].span \in Formulas!CitedSpans
      BY <1>6 DEF Formulas!Hydrate, Shape, Remembers
    <2>3. seen \in [Formulas!CitedSpans -> SUBSET Latexes]
      <3>1. job[p].seen \in [Formulas!CitedSpans -> SUBSET Latexes]
        BY <1>6 DEF Formulas!Hydrate, Shape, Remembers
      <3>2. s \in Formulas!CitedSpans => Formulas!Evidence(s) \subseteq Latexes
        BY EvidenceShape
      <3> HIDE DEF s
      <3> QED
        BY <3>1, <3>2
    <2> HIDE DEF at, left, seen
    <2>4. Remembers(p)'
      BY <2>1, <2>2, <2>3, OneMoves DEF Remembers
    <2> QED
      BY <1>6, <2>1, <2>4, ShapeKept DEF Formulas!Hydrate, Shape
  <1>7. ASSUME NEW p \in Procs, Formulas!Judge(p) \/ Formulas!SetStatus(p) \/ Formulas!Support(p) PROVE Shape'
    <2>1. PICK at \in Validation \cup {"unsure"} :
             job' = [job EXCEPT ![p] = [job[p] EXCEPT !.at = at]] /\ job[p].at \in Validation
      BY <1>7 DEF Formulas!Judge, Formulas!SetStatus, Formulas!Support, Formulas!Goto
    <2>2. Remembers(p)'
      BY <2>1 DEF Shape, Remembers
    <2>3. /\ stated' \in [support : {"unchecked", "verified", "stale"},
                        formula : {"uncertain", "preserved_in_text", "linked_evidence"}]
          /\ link' \in [Formulas!CitedSpans -> {"none", "verified", "stale"}]
      BY <1>7 DEF Formulas!Judge, Formulas!SetStatus, Formulas!Support, Formulas!FormulaStatus, Shape
    <2> QED
      BY <1>7, <2>1, <2>2, <2>3, ShapeKept DEF Formulas!Judge, Formulas!SetStatus, Formulas!Support, Shape
  <1>8. ASSUME NEW p \in Procs, Formulas!Conclude(p, "unsure", "uncertain") \/ Formulas!Conclude(p, "linked", "linked_evidence")
        PROVE Shape'
    <2>1. Remembers(p)' /\ job' = [job EXCEPT ![p] = Formulas!Idle]
      BY <1>8 DEF Formulas!Conclude, Shape, Remembers
    <2>2. stated' \in [support : {"unchecked", "verified", "stale"},
                     formula : {"uncertain", "preserved_in_text", "linked_evidence"}]
      BY <1>8 DEF Formulas!Conclude, Shape
    <2> QED
      BY <1>8, <2>1, <2>2, ShapeKept DEF Formulas!Conclude, Shape
  <1>9. ASSUME NEW p \in Procs, Formulas!Reject(p) PROVE Shape'
    <2>1. PICK x \in {Formulas!Idle, [at |-> "stale", span |-> job[p].span]} : job' = [job EXCEPT ![p] = x]
      BY <1>9 DEF Formulas!Reject
    <2>2. Remembers(p)'
      BY <1>9, <2>1 DEF Formulas!Reject, Shape, Remembers
    <2>3. recs' \in [Formulas!CitedSpans -> SUBSET RecoveryCandidates]
      BY <1>9, RejectedShape DEF Formulas!Reject, Shape, Remembers
    <2> QED
      BY <1>9, <2>1, <2>2, <2>3, ShapeKept DEF Formulas!Reject, Shape
  <1>10. ASSUME NEW p \in Procs, Formulas!Stale(p) \/ Formulas!Withdraw(p) PROVE Shape'
    <2>1. PICK at \in {"withdraw", "unsure"} : job' = [job EXCEPT ![p] = [job[p] EXCEPT !.at = at]]
      BY <1>10 DEF Formulas!Stale, Formulas!Withdraw, Formulas!Goto
    <2>2. Remembers(p)'
      BY <1>10, <2>1 DEF Formulas!Stale, Formulas!Withdraw, Shape, Remembers
    <2>3. /\ stated' \in [support : {"unchecked", "verified", "stale"},
                        formula : {"uncertain", "preserved_in_text", "linked_evidence"}]
          /\ link' \in [Formulas!CitedSpans -> {"none", "verified", "stale"}]
      BY <1>10 DEF Formulas!Stale, Formulas!Withdraw, Shape
    <2> QED
      BY <1>10, <2>1, <2>2, <2>3, ShapeKept DEF Formulas!Stale, Formulas!Withdraw, Shape
  <1>11. ASSUME NEW p \in Procs, Formulas!Die(p) PROVE Shape'
    <2>1. Remembers(p)'
      BY <1>11 DEF Formulas!Die, Shape, Remembers
    <2> QED
      BY <1>11, <2>1, ShapeKept DEF Formulas!Die, Shape
  <1>12. CASE UNCHANGED Formulas!vars
    BY <1>12 DEF Formulas!vars, Shape, Remembers
  <1> QED
    BY <1>1, <1>2, <1>3, <1>4, <1>5, <1>6, <1>7, <1>8, <1>9, <1>10, <1>11, <1>12 DEF Formulas!Next

-----------------------------------------------------------------------------
(* WasMade and VerifiedWasShown *)

LEMMA ReviewedGrows ==
    ASSUME NEW S, NEW T, S \subseteq T
    PROVE  ReviewedOf(S) \subseteq ReviewedOf(T)
  BY DEF ReviewedOf

(* What the step of one process has to show.                               *)
LEMMA WasMadeKept ==
    ASSUME Shape, WasMade, NEW p \in Procs, NEW x, job' = [job EXCEPT ![p] = x], made \subseteq made',
           \A s \in Formulas!CitedSpans : ReviewedOf(recs'[s]) \subseteq ReviewedOf(made'),
           x.at \in Reading \cup {"reject"} => ReviewedOf(x.old) \subseteq ReviewedOf(made'),
           x.at \in Validation => \A s \in Formulas!CitedSpans : x.seen[s] \subseteq ReviewedOf(made')
    PROVE  WasMade'
  <1>1. ReviewedOf(made) \subseteq ReviewedOf(made')
    BY ReviewedGrows
  <1>2. \A q \in Procs :
           /\ job'[q].at \in Reading \cup {"reject"} => ReviewedOf(job'[q].old) \subseteq ReviewedOf(made')
           /\ job'[q].at \in Validation =>
                 \A s \in Formulas!CitedSpans : job'[q].seen[s] \subseteq ReviewedOf(made')
    <2> TAKE q \in Procs
    <2>1. CASE q = p
      BY <2>1, OneMoves
    <2>2. CASE q # p
      BY <2>2, <1>1, OneMoves DEF WasMade
    <2> QED
      BY <2>1, <2>2
  <1>3. \A S : ReviewedOf(S)' = ReviewedOf(S')
    BY DEF ReviewedOf
  <1> QED
    BY <1>2 DEF WasMade, ReviewedOf, Reading, Validation

LEMMA WasMadeStep == Shape /\ WasMade /\ [Formulas!Next]_Formulas!vars => WasMade'
  <1> SUFFICES ASSUME Shape, WasMade, [Formulas!Next]_Formulas!vars PROVE WasMade'
    OBVIOUS
  <1> USE DEF Reading, Validation, Undoing
  <1>1. ASSUME NEW s \in Formulas!CitedSpans, Formulas!Rerender(s) PROVE WasMade'
    BY <1>1 DEF Formulas!Rerender, WasMade, ReviewedOf
  <1>2. ASSUME NEW p \in Procs, NEW s \in Formulas!CitedSpans, Formulas!Invalidate(p, s) PROVE WasMade'
    BY <1>2, WasMadeKept DEF Formulas!Invalidate, Formulas!Begin, WasMade
  <1>3. ASSUME NEW p \in Procs, NEW s \in Formulas!CitedSpans, NEW reading \in Readings, Formulas!Recover(p, s, reading)
        PROVE WasMade'
    <2> DEFINE new == [at |-> "look", span |-> s, latex |-> reading[1], sure |-> reading[2],
                       page |-> page[s], call |-> recoveries, old |-> {}]
    <2>1. new.at = "look" /\ new.old = {}
      OBVIOUS
    <2>2. job' = [job EXCEPT ![p] = new]
      BY <1>3 DEF Formulas!Recover, Formulas!Begin
    <2>3. ReviewedOf({}) = {}
      BY DEF ReviewedOf
    <2> HIDE DEF new
    <2> QED
      BY <1>3, <2>1, <2>2, <2>3, WasMadeKept DEF Formulas!Recover, Formulas!Begin, WasMade
  <1>4. ASSUME NEW p \in Procs, Formulas!Look(p) PROVE WasMade'
    <2> DEFINE new == [at |-> "write", span |-> job[p].span, latex |-> job[p].latex, sure |-> job[p].sure,
                       page |-> job[p].page, call |-> job[p].call, old |-> recs[job[p].span]]
    <2>1. new.at = "write" /\ new.old = recs[job[p].span]
      OBVIOUS
    <2>2. job' = [job EXCEPT ![p] = new] /\ job[p].span \in Formulas!CitedSpans
      BY <1>4 DEF Formulas!Look, Shape, Remembers
    <2> HIDE DEF new
    <2> QED
      BY <1>4, <2>1, <2>2, WasMadeKept DEF Formulas!Look, WasMade
  <1>5. ASSUME NEW p \in Procs, Formulas!Write(p) PROVE WasMade'
    <2> DEFINE c == Formulas!Candidate(job[p])
    <2>1. /\ recs' = [recs EXCEPT ![job[p].span] = job[p].old \cup {c}]
          /\ made' = made \cup {c} /\ job[p].span \in Formulas!CitedSpans
          /\ recs \in [Formulas!CitedSpans -> SUBSET RecoveryCandidates]
      BY <1>5 DEF Formulas!Write, Formulas!Added, Shape, Remembers
    <2>2. ReviewedOf(job[p].old \cup {c}) \subseteq ReviewedOf(made \cup {c})
      <3>1. ReviewedOf(job[p].old) \subseteq ReviewedOf(made)
        BY <1>5 DEF Formulas!Write, WasMade
      <3> QED
        BY <3>1 DEF ReviewedOf
    <2>3. \A s \in Formulas!CitedSpans : ReviewedOf(recs'[s]) \subseteq ReviewedOf(made')
      <3> TAKE s \in Formulas!CitedSpans
      <3>1. CASE s = job[p].span
        BY <2>1, <2>2, <3>1
      <3>2. CASE s # job[p].span
        <4>1. recs'[s] = recs[s] /\ ReviewedOf(made) \subseteq ReviewedOf(made')
          BY <2>1, <3>2, ReviewedGrows
        <4> QED
          BY <4>1 DEF WasMade
      <3> QED
        BY <3>1, <3>2
    <2> DEFINE seen == [s \in Formulas!CitedSpans |-> {}]
               x == IF Formulas!Reviewed(job[p])
                    THEN [at |-> "hydrate", span |-> job[p].span, left |-> Cited, seen |-> seen]
                    ELSE [at |-> "unsure"]
    <2>4. job' = [job EXCEPT ![p] = x]
      BY <1>5 DEF Formulas!Write
    <2>5. x.at \in {"hydrate", "unsure"} /\ (x.at = "hydrate" => x.seen = seen)
      OBVIOUS
    <2> HIDE DEF x
    <2> QED
      BY <2>1, <2>3, <2>4, <2>5, WasMadeKept
  <1>6. ASSUME NEW p \in Procs, Formulas!Hydrate(p) PROVE WasMade'
    <2> DEFINE s == Head(job[p].left)
               seen == [job[p].seen EXCEPT ![s] = Formulas!Evidence(s)]
               x == [at |-> IF Len(job[p].left) = 1 THEN "judge" ELSE "hydrate", span |-> job[p].span,
                     left |-> Tail(job[p].left), seen |-> seen]
    <2>1. job' = [job EXCEPT ![p] = x] /\ x.at \in {"hydrate", "judge"} /\ x.seen = seen
      BY <1>6 DEF Formulas!Hydrate
    <2>2. \A r \in Formulas!CitedSpans : seen[r] \subseteq ReviewedOf(made)
      <3>1. /\ job[p].seen \in [Formulas!CitedSpans -> SUBSET Latexes]
            /\ \A r \in Formulas!CitedSpans : job[p].seen[r] \subseteq ReviewedOf(made)
        BY <1>6 DEF Formulas!Hydrate, Shape, Remembers, WasMade
      <3>2. s \in Formulas!CitedSpans => Formulas!Evidence(s) \subseteq ReviewedOf(made)
        BY EvidenceShape DEF WasMade
      <3> HIDE DEF s
      <3> QED
        BY <3>1, <3>2
    <2> HIDE DEF x, seen
    <2> QED
      BY <1>6, <2>1, <2>2, WasMadeKept DEF Formulas!Hydrate, WasMade
  <1>7. ASSUME NEW p \in Procs, Formulas!Judge(p) \/ Formulas!SetStatus(p) \/ Formulas!Support(p) PROVE WasMade'
    <2>1. PICK at \in Validation \cup {"unsure"} :
             job' = [job EXCEPT ![p] = [job[p] EXCEPT !.at = at]] /\ job[p].at \in Validation
      BY <1>7 DEF Formulas!Judge, Formulas!SetStatus, Formulas!Support, Formulas!Goto
    <2>2. /\ [job[p] EXCEPT !.at = at].at = at
          /\ [job[p] EXCEPT !.at = at].seen = job[p].seen
      BY <2>1 DEF Shape, Remembers
    <2> QED
      BY <1>7, <2>1, <2>2, WasMadeKept DEF Formulas!Judge, Formulas!SetStatus, Formulas!Support, WasMade
  <1>8. ASSUME NEW p \in Procs, job' = [job EXCEPT ![p] = Formulas!Idle], UNCHANGED <<recs, made>> PROVE WasMade'
    BY <1>8, WasMadeKept DEF WasMade
  <1>9. ASSUME NEW p \in Procs, Formulas!Reject(p) PROVE WasMade'
    <2>1. PICK x \in {Formulas!Idle, [at |-> "stale", span |-> job[p].span]} : job' = [job EXCEPT ![p] = x]
      BY <1>9 DEF Formulas!Reject
    <2>2. \A s \in Formulas!CitedSpans : ReviewedOf(recs'[s]) \subseteq ReviewedOf(made)
      <3>1. ReviewedOf(Formulas!Rejected(job[p])) \subseteq ReviewedOf(made)
        BY <1>9, RejectedShape DEF Formulas!Reject, WasMade, Shape, Remembers
      <3>2. recs \in [Formulas!CitedSpans -> SUBSET RecoveryCandidates]
        BY DEF Shape
      <3> QED
        BY <1>9, <3>1, <3>2 DEF Formulas!Reject, WasMade
    <2> QED
      BY <1>9, <2>1, <2>2, WasMadeKept DEF Formulas!Reject
  <1>10. ASSUME NEW p \in Procs, Formulas!Stale(p) \/ Formulas!Withdraw(p) PROVE WasMade'
    <2>1. PICK x : job' = [job EXCEPT ![p] = x] /\ x.at \in {"withdraw", "unsure"}
      BY <1>10 DEF Formulas!Stale, Formulas!Withdraw, Formulas!Goto, Shape, Remembers
    <2> QED
      BY <1>10, <2>1, WasMadeKept DEF Formulas!Stale, Formulas!Withdraw, WasMade
  <1>11. CASE UNCHANGED Formulas!vars
    BY <1>11 DEF Formulas!vars, WasMade, ReviewedOf
  <1> QED
    BY <1>1, <1>2, <1>3, <1>4, <1>5, <1>6, <1>7, <1>8, <1>9, <1>10, <1>11 DEF Formulas!Next, Formulas!Conclude, Formulas!Die

(* Only a validation that found every formula in what it saw or in the      *)
(* texts verifies the unit.                                                *)
LEMMA VerifiedStep == Shape /\ WasMade /\ Formulas!VerifiedWasShown /\ [Formulas!Next]_Formulas!vars => Formulas!VerifiedWasShown'
  <1> SUFFICES ASSUME Shape, WasMade, Formulas!VerifiedWasShown, [Formulas!Next]_Formulas!vars, stated'.support = "verified"
               PROVE  Claim \subseteq ReviewedOf(made') \cup UNION {Shows[s] : s \in Formulas!CitedSpans}
    BY DEF Formulas!VerifiedWasShown, ReviewedOf
  <1>1. ReviewedOf(made) \subseteq ReviewedOf(made')
    <2>1. made \subseteq made'
      BY DEF Formulas!Next, Formulas!vars, Formulas!Rerender, Formulas!Invalidate, Formulas!Begin, Formulas!Recover, Formulas!Look, Formulas!Write, Formulas!Hydrate, Formulas!Judge, Formulas!SetStatus,
             Formulas!Support, Formulas!Conclude, Formulas!Reject, Formulas!Stale, Formulas!Withdraw, Formulas!Die
    <2> QED
      BY <2>1, ReviewedGrows
  <1>2. CASE stated.support = "verified"
    BY <1>1, <1>2 DEF Formulas!VerifiedWasShown, ReviewedOf
  <1>3. CASE stated.support # "verified"
    <2>1. stated \in [support : {"unchecked", "verified", "stale"},
                    formula : {"uncertain", "preserved_in_text", "linked_evidence"}]
      BY DEF Shape
    <2>2. PICK p \in Procs : Formulas!Judge(p)
      BY <1>3, <2>1 DEF Formulas!Next, Formulas!vars, Formulas!Rerender, Formulas!Invalidate, Formulas!Begin, Formulas!Recover, Formulas!Look, Formulas!Write, Formulas!Hydrate, Formulas!SetStatus,
             Formulas!Support, Formulas!Conclude, Formulas!Reject, Formulas!Stale, Formulas!Withdraw, Formulas!Die
    <2>3. Formulas!AllShown(job[p].seen) /\ job[p].at = "judge"
      BY <1>3, <2>2 DEF Formulas!Judge
    <2>4. \A s \in Formulas!CitedSpans : job[p].seen[s] \subseteq ReviewedOf(made)
      BY <2>3 DEF WasMade, Validation
    <2> QED
      BY <1>1, <2>3, <2>4 DEF Formulas!AllShown
  <1> QED
    BY <1>2, <1>3

-----------------------------------------------------------------------------
(* Calmly *)

(* What the step of the only call has to show.                             *)
LEMMA AloneKept ==
    ASSUME Shape, NEW p \in Procs, NEW x, job' = [job EXCEPT ![p] = x],
           \A q \in Procs \ {p} : job[q] = Formulas!Idle,
           x.at \in {"write", "reject"} => x.old = recs'[x.span],
           x.at \in {"look", "write", "hydrate", "judge", "status"} => stated'.formula = "uncertain",
           x.at \in Validation => ReviewedOf(recs'[x.span]) # {},
           x.at = "linked" => link'[x.span] = "verified",
           stated'.formula = "linked_evidence" =>
              (\E s \in Formulas!CitedSpans : link'[s] = "verified") \/ x.at \in Undoing \cup {"unsure"},
           \A s \in Formulas!CitedSpans : link'[s] = "verified" =>
              ReviewedOf(recs'[s]) # {} \/ (x.at = "stale" /\ x.span = s),
           Formulas!NoneLostEver'
    PROVE  Calmly'
  <1>1. job'[p] = x /\ \A q \in Procs \ {p} : job'[q] = Formulas!Idle
    BY OneMoves
  <1>2. CallKnows(p)'
    BY <1>1 DEF CallKnows, Formulas!Evidence, ReviewedOf
  <1>3. \A q \in Procs : CallKnows(q)'
    <2>1. \A q \in Procs \ {p} : job'[q].at = "idle"
      BY <1>1
    <2> QED
      BY <1>2, <2>1 DEF CallKnows, Validation
  <1> QED
    BY <1>1, <1>3 DEF Calmly, Formulas!Evidence, ReviewedOf

(* What the only call may assume.                                          *)
OnlyCall(p) ==
    /\ \A q \in Procs \ {p} : job[q] = Formulas!Idle
    /\ stated.formula = "linked_evidence" =>
          (\E s \in Formulas!CitedSpans : link[s] = "verified") \/ job[p].at \in Undoing \cup {"unsure"}
    /\ \A s \in Formulas!CitedSpans : link[s] = "verified" =>
          ReviewedOf(recs[s]) # {} \/ (job[p].at = "stale" /\ job[p].span = s)
    /\ Formulas!NoneLostEver

LEMMA AloneInCalls ==
    ASSUME Shape, Calmly, NEW p \in Procs, job[p].at # "idle"
    PROVE  OnlyCall(p) /\ CallKnows(p)
  <1>1. \A q \in Procs \ {p} : job[q] = Formulas!Idle /\ job[q].at = "idle"
    BY DEF Calmly
  <1> QED
    BY <1>1 DEF Calmly, Undoing, Formulas!Evidence, ReviewedOf, OnlyCall

LEMMA AllIdle ==
    ASSUME Shape, Calmly, \A p \in Procs : job[p] = Formulas!Idle
    PROVE  /\ stated.formula = "linked_evidence" => \E s \in Formulas!CitedSpans : link[s] = "verified"
           /\ \A s \in Formulas!CitedSpans : link[s] = "verified" => ReviewedOf(recs[s]) # {}
           /\ Formulas!NoneLostEver
  BY DEF Calmly, Undoing, Formulas!Evidence, ReviewedOf

LEMMA CalmlyStep == Shape /\ (calm => Calmly) /\ [Formulas!Next]_Formulas!vars => (calm => Calmly)'
  <1> SUFFICES ASSUME Shape, calm => Calmly, [Formulas!Next]_Formulas!vars, calm' PROVE Calmly'
    OBVIOUS
  <1> USE DEF Reading, Validation, Undoing
  <1>0. calm /\ Calmly
    BY DEF Shape, Formulas!Next, Formulas!vars, Formulas!Rerender, Formulas!Invalidate, Formulas!Begin, Formulas!Recover, Formulas!Look, Formulas!Write, Formulas!Hydrate, Formulas!Judge, Formulas!SetStatus,
           Formulas!Support, Formulas!Conclude, Formulas!Reject, Formulas!Stale, Formulas!Withdraw, Formulas!Die
  <1>b. ASSUME recs' = recs, made' = made PROVE Formulas!NoneLostEver'
    BY <1>0, <1>b DEF Calmly, Formulas!NoneLostEver
  <1>c. recs \in [Formulas!CitedSpans -> SUBSET RecoveryCandidates] /\ link \in [Formulas!CitedSpans -> {"none", "verified", "stale"}]
    BY DEF Shape
  <1>1. ASSUME NEW s \in Formulas!CitedSpans, Formulas!Rerender(s) PROVE Calmly'
    BY <1>0, <1>1 DEF Formulas!Rerender, Calmly, CallKnows, Formulas!Evidence, Formulas!NoneLostEver
  <1>2. ASSUME NEW p \in Procs, NEW s \in Formulas!CitedSpans, Formulas!Invalidate(p, s) PROVE Calmly'
    <2> DEFINE x == [at |-> "reject", span |-> s, page |-> page[s], old |-> recs[s]]
    <2>1. x.at = "reject" /\ x.span = s /\ x.old = recs[s]
      OBVIOUS
    <2>2. job' = [job EXCEPT ![p] = x] /\ \A q \in Procs : job[q] = Formulas!Idle
      BY <1>2 DEF Formulas!Invalidate, Formulas!Begin
    <2> HIDE DEF x
    <2> QED
      BY <1>0, <1>2, <1>b, <2>1, <2>2, AllIdle, AloneKept DEF Formulas!Invalidate
  <1>3. ASSUME NEW p \in Procs, NEW s \in Formulas!CitedSpans, NEW reading \in Readings, Formulas!Recover(p, s, reading)
        PROVE Calmly'
    <2> DEFINE x == [at |-> "look", span |-> s, latex |-> reading[1], sure |-> reading[2],
                     page |-> page[s], call |-> recoveries, old |-> {}]
    <2>1. x.at = "look"
      OBVIOUS
    <2>2. job' = [job EXCEPT ![p] = x] /\ \A q \in Procs : job[q] = Formulas!Idle
      BY <1>3 DEF Formulas!Recover, Formulas!Begin
    <2> HIDE DEF x
    <2> QED
      BY <1>0, <1>3, <1>b, <2>1, <2>2, AllIdle, AloneKept DEF Formulas!Recover
  <1>4. ASSUME NEW p \in Procs, Formulas!Look(p) PROVE Calmly'
    <2> DEFINE x == [at |-> "write", span |-> job[p].span, latex |-> job[p].latex, sure |-> job[p].sure,
                     page |-> job[p].page, call |-> job[p].call, old |-> recs[job[p].span]]
    <2>1. x.at = "write" /\ x.span = job[p].span /\ x.old = recs[job[p].span]
      OBVIOUS
    <2>2. job' = [job EXCEPT ![p] = x] /\ job[p].at = "look"
      BY <1>4 DEF Formulas!Look
    <2> HIDE DEF x
    <2>3. OnlyCall(p) /\ stated.formula = "uncertain"
      BY <1>0, <2>2, AloneInCalls DEF CallKnows
    <2> QED
      BY <1>4, <1>b, <2>1, <2>2, <2>3, AloneKept DEF Formulas!Look, OnlyCall
  <1>5. ASSUME NEW p \in Procs, Formulas!Write(p) PROVE Calmly'
    <2> DEFINE c == Formulas!Candidate(job[p])
               span == job[p].span
               x == IF Formulas!Reviewed(job[p])
                    THEN [at |-> "hydrate", span |-> span, left |-> Cited, seen |-> [s \in Formulas!CitedSpans |-> {}]]
                    ELSE [at |-> "unsure"]
    <2>1. /\ job[p].at = "write" /\ span \in Formulas!CitedSpans
          /\ OnlyCall(p)
          /\ job[p].old = recs[span] /\ stated.formula = "uncertain"
      BY <1>0, <1>5, AloneInCalls DEF Formulas!Write, Shape, Remembers, CallKnows
    <2>2. recs' = [recs EXCEPT ![span] = recs[span] \cup {c}] /\ made' = made \cup {c}
      BY <1>5, <2>1 DEF Formulas!Write, Formulas!Added
    <2>3. job' = [job EXCEPT ![p] = x] /\ UNCHANGED <<link, stated>>
      BY <1>5 DEF Formulas!Write
    <2>4. /\ x.at \in {"hydrate", "unsure"} /\ (x.at = "hydrate" => x.span = span /\ Formulas!Reviewed(job[p]))
      OBVIOUS
    <2>5. Formulas!Reviewed(job[p]) => c.status = "reviewed"
      BY <2>1, CandidateShape
    <2>6. \A s \in Formulas!CitedSpans : recs[s] \subseteq recs'[s]
      BY <1>c, <2>2
    <2>7. c \in recs'[span]
      BY <1>c, <2>1, <2>2
    <2> HIDE DEF x, c
    <2>8. \A s \in Formulas!CitedSpans : ReviewedOf(recs[s]) # {} => ReviewedOf(recs'[s]) # {}
      BY <2>6, ReviewedGrows
    <2>9. Formulas!Reviewed(job[p]) => ReviewedOf(recs'[span]) # {}
      BY <2>5, <2>7 DEF ReviewedOf
    <2>10. Formulas!NoneLostEver'
      <3>1. \A m \in made : \E s \in Formulas!CitedSpans : \E r \in recs'[s] : r.id = m.id
        BY <1>0, <2>6 DEF Calmly, Formulas!NoneLostEver
      <3> QED
        BY <2>1, <2>2, <2>7, <3>1 DEF Formulas!NoneLostEver
    <2>11. Calmly'
      BY <2>1, <2>3, <2>4, <2>8, <2>9, <2>10, AloneKept DEF OnlyCall
    <2> QED
      BY <2>11
  <1>6. ASSUME NEW p \in Procs, Formulas!Hydrate(p) PROVE Calmly'
    <2> DEFINE x == [at |-> IF Len(job[p].left) = 1 THEN "judge" ELSE "hydrate", span |-> job[p].span,
                     left |-> Tail(job[p].left), seen |-> [job[p].seen EXCEPT ![Head(job[p].left)]
                                                              = Formulas!Evidence(Head(job[p].left))]]
    <2>1. job' = [job EXCEPT ![p] = x] /\ x.at \in {"hydrate", "judge"} /\ x.span = job[p].span
      BY <1>6 DEF Formulas!Hydrate
    <2> HIDE DEF x
    <2>2. job[p].at = "hydrate" /\ job[p].span \in Formulas!CitedSpans
      BY <1>6 DEF Formulas!Hydrate, Shape, Remembers
    <2>3. OnlyCall(p) /\ stated.formula = "uncertain" /\ ReviewedOf(recs[job[p].span]) # {}
      BY <1>0, <2>2, AloneInCalls DEF CallKnows, Formulas!Evidence, ReviewedOf
    <2> QED
      BY <1>6, <1>b, <2>1, <2>2, <2>3, AloneKept DEF Formulas!Hydrate, OnlyCall
  <1>7. ASSUME NEW p \in Procs, Formulas!Judge(p) \/ Formulas!SetStatus(p) \/ Formulas!Support(p) PROVE Calmly'
    <2>1. PICK at \in Validation \cup {"unsure"} :
             /\ job' = [job EXCEPT ![p] = [job[p] EXCEPT !.at = at]] /\ job[p].at \in Validation
             /\ Formulas!Judge(p) => at = "status"
             /\ Formulas!SetStatus(p) => at \in {"link", "unsure"}
             /\ Formulas!Support(p) => at = "linked"
      BY <1>7 DEF Formulas!Judge, Formulas!SetStatus, Formulas!Support, Formulas!Goto
    <2> DEFINE x == [job[p] EXCEPT !.at = at]
    <2>2. x.at = at /\ x.span = job[p].span /\ job[p].span \in Formulas!CitedSpans
      BY <2>1 DEF Shape, Remembers
    <2>3. /\ OnlyCall(p) /\ ReviewedOf(recs[job[p].span]) # {}
          /\ job[p].at \in {"judge", "status"} => stated.formula = "uncertain"
      BY <1>0, <2>1, AloneInCalls DEF CallKnows, Formulas!Evidence, ReviewedOf
    <2>4. stated \in [support : {"unchecked", "verified", "stale"},
                    formula : {"uncertain", "preserved_in_text", "linked_evidence"}]
      BY DEF Shape
    <2>5. recs' = recs /\ made' = made /\ job' = [job EXCEPT ![p] = x]
      BY <1>7, <2>1 DEF Formulas!Judge, Formulas!SetStatus, Formulas!Support
    <2> HIDE DEF x
    <2>6. CASE Formulas!Judge(p)
      <3>1. stated'.formula = "uncertain" /\ link' = link
        BY <2>3, <2>4, <2>6 DEF Formulas!Judge
      <3>2. x.at = "status" /\ recs'[x.span] = recs[job[p].span]
        BY <2>1, <2>2, <2>5, <2>6
      <3>3. \A s \in Formulas!CitedSpans : link'[s] = "verified" => ReviewedOf(recs'[s]) # {}
        BY <2>1, <2>3, <2>5, <3>1 DEF OnlyCall
      <3> QED
        BY <1>b, <2>3, <2>5, <3>1, <3>2, <3>3, AloneKept DEF OnlyCall
    <2>7. CASE Formulas!SetStatus(p)
      <3>1. stated'.formula \in {"uncertain", "preserved_in_text"} /\ link' = link
        BY <2>4, <2>7 DEF Formulas!SetStatus, Formulas!FormulaStatus
      <3> QED
        BY ZenonT(60), <1>b, <2>1, <2>2, <2>3, <2>5, <2>7, <3>1, AloneKept DEF Formulas!SetStatus, OnlyCall
    <2>8. CASE Formulas!Support(p)
      <3>1. stated' = stated /\ link' = [link EXCEPT ![job[p].span] = "verified"]
        BY <2>8 DEF Formulas!Support
      <3>2. link'[job[p].span] = "verified" /\ \A s \in Formulas!CitedSpans \ {job[p].span} : link'[s] = link[s]
        BY <1>c, <2>2, <3>1
      <3>3. x.at = "linked" /\ x.span = job[p].span /\ recs'[x.span] = recs[job[p].span]
        BY <2>1, <2>2, <2>5, <2>8
      <3>4. \A s \in Formulas!CitedSpans : link'[s] = "verified" => ReviewedOf(recs'[s]) # {}
        BY <2>1, <2>2, <2>3, <2>5, <3>2 DEF OnlyCall
      <3> QED
        BY <1>b, <2>2, <2>3, <2>5, <3>2, <3>3, <3>4, AloneKept DEF OnlyCall
    <2> QED
      BY <1>7, <2>6, <2>7, <2>8
  <1>8. ASSUME NEW p \in Procs, Formulas!Conclude(p, "unsure", "uncertain") \/ Formulas!Conclude(p, "linked", "linked_evidence")
        PROVE Calmly'
    <2>1. /\ job[p].at \in {"unsure", "linked"} /\ UNCHANGED <<recs, link, made>>
          /\ job' = [job EXCEPT ![p] = Formulas!Idle]
          /\ stated' = [stated EXCEPT !.formula = IF job[p].at = "linked" THEN "linked_evidence" ELSE "uncertain"]
      BY <1>8 DEF Formulas!Conclude
    <2>2. stated'.formula = "linked_evidence" => job[p].at = "linked"
      BY <2>1 DEF Shape
    <2>3. /\ OnlyCall(p)
          /\ job[p].at = "linked" => job[p].span \in Formulas!CitedSpans /\ link[job[p].span] = "verified"
      BY <1>0, <2>1, AloneInCalls DEF Shape, Remembers, CallKnows
    <2> QED
      BY <1>b, <2>1, <2>2, <2>3, AloneKept DEF OnlyCall
  <1>9. ASSUME NEW p \in Procs, Formulas!Reject(p) PROVE Calmly'
    <2> DEFINE j == job[p]
               x == IF Formulas!Hits(j) THEN [at |-> "stale", span |-> j.span] ELSE Formulas!Idle
    <2>1. /\ j.at = "reject" /\ j.span \in Formulas!CitedSpans /\ j.old \subseteq RecoveryCandidates
          /\ OnlyCall(p)
          /\ j.old = recs[j.span]
      BY <1>0, <1>9, AloneInCalls DEF Formulas!Reject, Shape, Remembers, CallKnows
    <2>2. /\ recs' = IF Formulas!Outdated(j) = {} THEN recs ELSE [recs EXCEPT ![j.span] = Formulas!Rejected(j)]
          /\ job' = [job EXCEPT ![p] = x] /\ UNCHANGED <<link, stated, made>>
      BY <1>9 DEF Formulas!Reject
    <2>3. /\ x.at \in {"stale", "idle"} /\ (x.at = "stale" => x.span = j.span)
          /\ Formulas!Hits(j) => x.at = "stale"
      OBVIOUS
    <2>4. /\ \A s \in Formulas!CitedSpans \ {j.span} : recs'[s] = recs[s]
          /\ recs'[j.span] \in {recs[j.span], Formulas!Rejected(j)}
      BY <1>c, <2>1, <2>2
    <2>5. /\ \A r \in recs[j.span] : \E y \in Formulas!Rejected(j) : y.id = r.id
          /\ (\A c \in Formulas!Outdated(j) : c.status # "reviewed") => ReviewedOf(recs[j.span]) \subseteq ReviewedOf(Formulas!Rejected(j))
      BY <2>1, RejectedShape
    <2> HIDE DEF x, j
    <2>6. Formulas!NoneLostEver'
      <3> SUFFICES ASSUME NEW m \in made PROVE \E s \in Formulas!CitedSpans : \E r \in recs'[s] : r.id = m.id
        BY <2>2 DEF Formulas!NoneLostEver
      <3>1. PICK s \in Formulas!CitedSpans : \E r \in recs[s] : r.id = m.id
        BY <1>0 DEF Calmly, Formulas!NoneLostEver
      <3>2. \E r \in recs'[s] : r.id = m.id
        BY <2>1, <2>4, <2>5, <3>1
      <3> QED
        BY <3>2
    <2>7. \A s \in Formulas!CitedSpans : link[s] = "verified" => ReviewedOf(recs'[s]) # {} \/ (Formulas!Hits(j) /\ j.span = s)
      <3> SUFFICES ASSUME NEW s \in Formulas!CitedSpans, link[s] = "verified", ~(Formulas!Hits(j) /\ j.span = s)
                   PROVE  ReviewedOf(recs'[s]) # {}
        OBVIOUS
      <3>1. ReviewedOf(recs[s]) # {}
        BY <2>1 DEF OnlyCall, j
      <3>2. ReviewedOf(recs[s]) \subseteq ReviewedOf(recs'[s])
        BY <2>4, <2>5 DEF Formulas!Hits
      <3> QED
        BY <3>1, <3>2
    <2>8. stated.formula = "linked_evidence" => \E s \in Formulas!CitedSpans : link[s] = "verified"
      BY <2>1 DEF OnlyCall, j
    <2> QED
      BY <2>1, <2>2, <2>3, <2>6, <2>7, <2>8, AloneKept DEF OnlyCall
  <1>10. ASSUME NEW p \in Procs, Formulas!Stale(p) \/ Formulas!Withdraw(p) PROVE Calmly'
    <2>1. /\ job[p].at \in {"stale", "withdraw"} /\ UNCHANGED <<recs, made>>
          /\ job' = [job EXCEPT ![p] = [job[p] EXCEPT !.at = IF job[p].at = "stale" THEN "withdraw" ELSE "unsure"]]
      BY <1>10 DEF Formulas!Stale, Formulas!Withdraw, Formulas!Goto
    <2> DEFINE x == [job[p] EXCEPT !.at = IF job[p].at = "stale" THEN "withdraw" ELSE "unsure"]
    <2>2. x.at \in {"withdraw", "unsure"} /\ job[p].span \in Formulas!CitedSpans
      BY <2>1 DEF Shape, Remembers
    <2>4. \A s \in Formulas!CitedSpans : link'[s] = "verified" =>
             link[s] = "verified" /\ ~(job[p].at = "stale" /\ job[p].span = s)
      BY <1>10, <1>c, <2>2 DEF Formulas!Stale, Formulas!Withdraw
    <2>5. job' = [job EXCEPT ![p] = x]
      BY <2>1
    <2>6. OnlyCall(p)
      BY <1>0, <2>1, AloneInCalls
    <2> HIDE DEF x
    <2>7. \A s \in Formulas!CitedSpans : link'[s] = "verified" => ReviewedOf(recs'[s]) # {}
      BY <2>1, <2>4, <2>6 DEF OnlyCall
    <2> QED
      BY <1>b, <2>1, <2>2, <2>5, <2>6, <2>7, AloneKept DEF OnlyCall
  <1>11. ASSUME NEW p \in Procs, Formulas!Die(p) PROVE Calmly'
    BY <1>11 DEF Formulas!Die
  <1>12. CASE UNCHANGED Formulas!vars
    BY <1>0, <1>12 DEF Formulas!vars, Calmly, CallKnows, Formulas!Evidence, Formulas!NoneLostEver
  <1> QED
    BY <1>1, <1>2, <1>3, <1>4, <1>5, <1>6, <1>7, <1>8, <1>9, <1>10, <1>11, <1>12 DEF Formulas!Next

-----------------------------------------------------------------------------
(* A verified unit rests on what was shown or reviewed, whatever overlaps  *)
(* or dies; while calls do neither, a unit that refers to evidence has a   *)
(* row, such a row has a candidate, and no candidate is lost.              *)
THEOREM RecoveryIsFounded == Formulas!Spec => []FormulasFounded
  <1>1. Formulas!Init => FormulaInv
    <2> SUFFICES ASSUME Formulas!Init PROVE FormulaInv
      OBVIOUS
    <2>1. Shape
      BY InitShape
    <2>2. /\ recs = [s \in Formulas!CitedSpans |-> {}] /\ link = [s \in Formulas!CitedSpans |-> "none"]
          /\ stated = [support |-> "unchecked", formula |-> "uncertain"]
          /\ made = {} /\ \A p \in Procs : job[p] = Formulas!Idle
      BY DEF Formulas!Init
    <2>3. WasMade
      BY <2>2 DEF WasMade, ReviewedOf, Reading, Validation
    <2>4. Formulas!VerifiedWasShown
      BY <2>2 DEF Formulas!VerifiedWasShown
    <2>5. Calmly
      BY <2>2 DEF Calmly, CallKnows, Formulas!NoneLostEver, Validation
    <2> QED
      BY <2>1, <2>3, <2>4, <2>5 DEF FormulaInv
  <1>2. FormulaInv /\ [Formulas!Next]_Formulas!vars => FormulaInv'
    BY ShapeStep, WasMadeStep, VerifiedStep, CalmlyStep DEF FormulaInv
  <1>3. FormulaInv => FormulasFounded
    BY AllIdle DEF FormulaInv, FormulasFounded, Formulas!FormulasFounded, Formulas!Evidence, ReviewedOf, Formulas!LinksHaveRows, Formulas!RowsHaveCandidates, Formulas!NoneLost, Formulas!Quiet, Calmly
  <1> QED
    BY <1>1, <1>2, <1>3, PTL DEF Formulas!Spec

-----------------------------------------------------------------------------
(* The log of calls *)

\* those that compile are devices
MakersAssumption == Makers \subseteq Devices

(* Rows of a database or a file are of calls that were made, and what is   *)
(* deleted there is not there.                                             *)
Logged(f) ==
    /\ DOMAIN f.log \subseteq 1..Len(calls) /\ f.buried \subseteq 1..Len(calls) /\ f.cited \subseteq 1..Len(calls)
    /\ DOMAIN f.log \cap f.buried = {}

(* Calls that a device has in a compile or staged: its own.                *)
Made(d) == {r \in 1..Len(calls) : calls[r] = d}
InHand(d) == Calls!Range(memory[d]) \cup IF open[d] = Calls!Closed THEN {} ELSE {open[d].call}

(* An artifact that names a call was written by the device that made it.   *)
CitedAtHome(f) == \A r \in f.cited : r \in cited[calls[r]]

(* What is deleted was deleted by a cap.                                   *)
ByCap(f) == \A r \in f.buried : \E c \in capped : c.call = r

LogInv ==
    /\ calls \in Seq(Devices) /\ capped \subseteq [device : Devices, call : 1..Len(calls), held : BOOLEAN]
    /\ \A d \in Devices :
          /\ Logged(Calls!Shared(d)) /\ Logged(exports[d])
          /\ CitedAtHome(Calls!Shared(d)) /\ CitedAtHome(exports[d])
          /\ ByCap(Calls!Shared(d)) /\ ByCap(exports[d])
          /\ InHand(d) \cup Calls!Range(batched[d]) \subseteq Made(d)
          /\ Made(d) \subseteq DOMAIN log[d] \cup buried[d]
    /\ \A f \in {log, buried, cited, batched, memory, open, exports, published} : DOMAIN f = Devices
    /\ \A c \in capped : c.call \in buried[c.device]
    /\ \A c \in capped : calls[c.call] = c.device /\ ~ c.held =>
          c.call \notin InHand(c.device) \cup Calls!Referenced(c.device)

LEMMA InvCaps == LogInv => Calls!CapsHold
<1> SUFFICES ASSUME LogInv PROVE Calls!CapsHold
  OBVIOUS
<1>1. Calls!CappedStayDeleted
  <2>1. ASSUME NEW c \in capped PROVE c.call \notin DOMAIN log[c.device]
    <3>1. c.device \in Devices /\ c.call \in buried[c.device]
      BY DEF LogInv
    <3> QED
      BY <3>1 DEF LogInv, Logged, Calls!Shared
  <2> QED
    BY <2>1 DEF Calls!CappedStayDeleted
<1>2. Calls!OwnCapSpares
  <2>1. ASSUME NEW d \in Devices, NEW r \in Calls!Referenced(d) \ DOMAIN log[d], calls[r] = d
        PROVE  \E c \in capped : c.call = r /\ (c.device # d \/ c.held)
    <3>1. r \in Made(d)
      BY <2>1 DEF LogInv, Calls!Referenced, Made, Logged, Calls!Shared
    <3>2. r \in buried[d]
      BY <3>1 DEF LogInv
    <3>3. PICK c \in capped : c.call = r
      BY <3>2 DEF LogInv, ByCap, Calls!Shared
    <3> QED
      BY <2>1, <3>3 DEF LogInv
  <2> QED
    BY <2>1 DEF Calls!OwnCapSpares
<1> QED
  BY <1>1, <1>2 DEF Calls!CapsHold

LEMMA LogStarts == Calls!Init => LogInv
BY DEF Calls!Init, LogInv, Logged, Calls!Shared, InHand, Made, CitedAtHome, ByCap, Calls!Referenced, Calls!Range

LogTables == {log, buried, cited, batched, memory, open, exports, published}

(* A compile goes on: it has or cites what it had or had staged.           *)
LEMMA CompilesOn ==
  ASSUME LogInv, UNCHANGED <<buried, exports, calls, capped>>,
         \A f \in LogTables' : DOMAIN f = Devices,
         \A e \in Devices :
            /\ DOMAIN log'[e] = DOMAIN log[e]
            /\ InHand(e)' \cup Calls!Range(batched'[e]) \subseteq InHand(e) \cup Calls!Range(batched[e])
            /\ cited[e] \subseteq cited'[e] /\ cited'[e] \subseteq cited[e] \cup InHand(e)
  PROVE  LogInv'
<1>1. /\ calls' \in Seq(Devices) /\ capped' \subseteq [device : Devices, call : 1..Len(calls'), held : BOOLEAN]
      /\ \A c \in capped' : c.call \in buried'[c.device]
      /\ \A f \in {log', buried', cited', batched', memory', open', exports', published'} : DOMAIN f = Devices
  BY DEF LogInv, LogTables
<1>2. ASSUME NEW e \in Devices
      PROVE  /\ InHand(e) \cup Calls!Range(batched[e]) \subseteq Made(e) /\ Made(e)' = Made(e) /\ Made(e) \subseteq 1..Len(calls)
             /\ Logged(Calls!Shared(e)) /\ Logged(exports[e]) /\ CitedAtHome(Calls!Shared(e)) /\ CitedAtHome(exports[e])
             /\ ByCap(Calls!Shared(e)) /\ ByCap(exports[e]) /\ Made(e) \subseteq DOMAIN log[e] \cup buried[e]
  BY DEF LogInv, Made
<1>3. ASSUME NEW e \in Devices PROVE Logged(Calls!Shared(e))' /\ Logged(exports[e])'
  BY <1>2 DEF Logged, Calls!Shared
<1>4. ASSUME NEW e \in Devices PROVE CitedAtHome(Calls!Shared(e))' /\ CitedAtHome(exports[e])'
  <2>1. ASSUME NEW r \in 1..Len(calls), r \in cited[calls[r]] PROVE r \in cited'[calls'[r]]
    <3>1. calls[r] \in Devices /\ calls' = calls
      BY DEF LogInv
    <3> QED
      BY <2>1, <3>1
  <2>2. ASSUME NEW r \in cited'[e] PROVE r \in cited'[calls'[r]]
    <3>1. CASE r \in cited[e]
      BY <1>2, <2>1, <3>1 DEF CitedAtHome, Calls!Shared, Logged
    <3>2. CASE r \in InHand(e)
      <4>1. calls'[r] = e
        BY <1>2, <3>2 DEF Made
      <4> QED
        BY <2>2, <4>1
    <3> QED
      BY <2>2, <3>1, <3>2
  <2>3. ASSUME NEW r \in exports[e].cited PROVE r \in cited'[calls'[r]]
    BY <1>2, <2>1, <2>3 DEF CitedAtHome, Logged
  <2> QED
    BY <2>2, <2>3 DEF CitedAtHome, Calls!Shared
<1>5. ASSUME NEW e \in Devices PROVE ByCap(Calls!Shared(e))' /\ ByCap(exports[e])'
  BY <1>2 DEF ByCap, Calls!Shared
<1>6. ASSUME NEW e \in Devices
      PROVE  (InHand(e) \cup Calls!Range(batched[e]))' \subseteq Made(e)' /\ Made(e)' \subseteq DOMAIN log'[e] \cup buried'[e]
  BY <1>2
<1>7. ASSUME NEW c \in capped, calls[c.call] = c.device, ~ c.held PROVE c.call \notin (InHand(c.device) \cup Calls!Referenced(c.device))'
  <2>1. c.device \in Devices /\ c.call \notin InHand(c.device) \cup Calls!Referenced(c.device)
    BY <1>7 DEF LogInv
  <2> QED
    BY <2>1 DEF Calls!Referenced
<1> QED
  BY <1>1, <1>3, <1>4, <1>5, <1>6, <1>7 DEF LogInv

(* A table with one more row has that row's value besides its own.         *)
LEMMA RangeOver ==
  ASSUME NEW f, NEW b, NEW v
  PROVE  Calls!Range(Calls!Over([x \in {b} |-> v], f)) \subseteq Calls!Range(f) \cup {v}
BY DEF Calls!Range, Calls!Over

LEMMA ReuseLogs ==
  ASSUME LogInv, NEW d \in Devices, Calls!Reuse(d)
  PROVE  LogInv'
<1>1. PICK b : b = Calls!NextBatch(d)
  OBVIOUS
<1>2. /\ b \in DOMAIN batched[d] /\ memory' = [memory EXCEPT ![d] = Calls!Over([x \in {b} |-> batched[d][x]], @)]
      /\ UNCHANGED <<log, buried, cited, batched, open, exports, calls, published, capped>>
  BY <1>1 DEF Calls!Reuse
<1>3. DOMAIN memory' = Devices /\ memory'[d] = Calls!Over([x \in {b} |-> batched[d][b]], memory[d])
      /\ \A e \in Devices \ {d} : memory'[e] = memory[e]
  <2>1. [x \in {b} |-> batched[d][x]] = [x \in {b} |-> batched[d][b]]
    OBVIOUS
  <2> QED
    BY <1>2, <2>1 DEF LogInv
<1>4. Calls!Range(memory'[d]) \subseteq Calls!Range(memory[d]) \cup Calls!Range(batched[d])
  <2>1. PICK v : v = batched[d][b]
    OBVIOUS
  <2>2. v \in Calls!Range(batched[d])
    BY <1>2, <2>1 DEF Calls!Range
  <2>3. PICK earlier : earlier = memory[d]
    OBVIOUS
  <2>4. Calls!Range(Calls!Over([x \in {b} |-> v], earlier)) \subseteq Calls!Range(earlier) \cup {v}
    BY RangeOver
  <2>5. memory'[d] = Calls!Over([x \in {b} |-> v], earlier)
    BY <1>3, <2>1, <2>3
  <2> QED
    BY <2>2, <2>3, <2>4, <2>5
<1>5. \A f \in LogTables' : DOMAIN f = Devices
  BY <1>2, <1>3 DEF LogInv, LogTables
<1>6. ASSUME NEW e \in Devices PROVE InHand(e)' \cup Calls!Range(batched'[e]) \subseteq InHand(e) \cup Calls!Range(batched[e])
  BY <1>2, <1>3, <1>4 DEF InHand
<1> QED
  BY <1>2, <1>5, <1>6, CompilesOn

LEMMA ClosingIs ==
  ASSUME LogInv, NEW d \in Devices, NEW status, Calls!Closing(d, status)
  PROVE  DOMAIN log' = Devices /\ \A e \in Devices : DOMAIN log'[e] = DOMAIN log[e]
BY DEF LogInv, Calls!Closing

LEMMA AnswerLogs ==
  ASSUME LogInv, NEW d \in Devices, Calls!Answer(d)
  PROVE  LogInv'
<1>1. PICK b, r : b = open[d].batch /\ r = open[d].call
  OBVIOUS
<1>2. /\ open[d] # Calls!Closed /\ memory' = [memory EXCEPT ![d] = Calls!Over([x \in {b} |-> r], @)]
      /\ batched' = [batched EXCEPT ![d] = Calls!Over([x \in {b} |-> r], @)] \/ batched' = batched
      /\ open' = [open EXCEPT ![d] = Calls!Closed] /\ UNCHANGED <<buried, cited, exports, calls, published, capped>>
  BY <1>1 DEF Calls!Answer
<1>3. DOMAIN log' = Devices /\ \A e \in Devices : DOMAIN log'[e] = DOMAIN log[e]
  BY ClosingIs DEF Calls!Answer
<1>4. /\ DOMAIN memory' = Devices /\ memory'[d] = Calls!Over([x \in {b} |-> r], memory[d])
      /\ DOMAIN batched' = Devices /\ batched'[d] \in {Calls!Over([x \in {b} |-> r], batched[d]), batched[d]}
      /\ DOMAIN open' = Devices /\ open'[d] = Calls!Closed
      /\ \A e \in Devices \ {d} : memory'[e] = memory[e] /\ batched'[e] = batched[e] /\ open'[e] = open[e]
  BY <1>2 DEF LogInv
<1>5. r \in InHand(d) /\ Calls!Range(memory[d]) \subseteq InHand(d)
  BY <1>1, <1>2 DEF InHand
<1>6. Calls!Range(memory'[d]) \subseteq Calls!Range(memory[d]) \cup {r} /\ Calls!Range(batched'[d]) \subseteq Calls!Range(batched[d]) \cup {r}
  BY <1>4, RangeOver
<1>7. \A f \in LogTables' : DOMAIN f = Devices
  BY <1>2, <1>3, <1>4 DEF LogInv, LogTables
<1>8. ASSUME NEW e \in Devices PROVE InHand(e)' \cup Calls!Range(batched'[e]) \subseteq InHand(e) \cup Calls!Range(batched[e])
  <2>1. CASE e = d
    <3>1. InHand(d)' = Calls!Range(memory'[d])
      BY <1>4 DEF InHand
    <3> QED
      BY <1>5, <1>6, <2>1, <3>1
  <2>2. CASE e # d
    BY <1>4, <2>2 DEF InHand
  <2> QED
    BY <2>1, <2>2
<1> QED
  BY <1>2, <1>3, <1>7, <1>8, CompilesOn

LEMMA RefuseLogs ==
  ASSUME LogInv, NEW d \in Devices, Calls!Refuse(d)
  PROVE  LogInv'
<1>1. DOMAIN log' = Devices /\ \A e \in Devices : DOMAIN log'[e] = DOMAIN log[e]
  BY ClosingIs DEF Calls!Refuse
<1>2. open' = [open EXCEPT ![d] = Calls!Closed] /\ UNCHANGED <<buried, cited, batched, memory, exports, calls, published, capped>>
  BY DEF Calls!Refuse
<1>3. \A f \in LogTables' : DOMAIN f = Devices
  BY <1>1, <1>2 DEF LogInv, LogTables
<1>4. ASSUME NEW e \in Devices PROVE InHand(e)' \cup Calls!Range(batched'[e]) \subseteq InHand(e) \cup Calls!Range(batched[e])
  BY <1>2 DEF InHand, LogInv
<1> QED
  BY <1>1, <1>2, <1>3, <1>4, CompilesOn

LEMMA NoRange == Calls!Range(<<>>) = {}
BY DEF Calls!Range

LEMMA AbandonLogs ==
  ASSUME LogInv, NEW d \in Devices, Calls!Abandon(d)
  PROVE  LogInv'
<1>1. /\ open' = [open EXCEPT ![d] = Calls!Closed] /\ memory' = [memory EXCEPT ![d] = <<>>]
      /\ UNCHANGED <<log, buried, cited, batched, exports, calls, published, capped>>
  BY DEF Calls!Abandon
<1>2. /\ DOMAIN open' = Devices /\ DOMAIN memory' = Devices /\ open'[d] = Calls!Closed /\ memory'[d] = <<>>
      /\ \A e \in Devices \ {d} : open'[e] = open[e] /\ memory'[e] = memory[e]
  BY <1>1 DEF LogInv
<1>3. \A f \in LogTables' : DOMAIN f = Devices
  BY <1>1, <1>2 DEF LogInv, LogTables
<1>4. ASSUME NEW e \in Devices PROVE InHand(e)' \cup Calls!Range(batched'[e]) \subseteq InHand(e) \cup Calls!Range(batched[e])
  BY <1>1, <1>2, NoRange DEF InHand
<1> QED
  BY <1>1, <1>3, <1>4, CompilesOn

LEMMA PublishLogs ==
  ASSUME LogInv, NEW d \in Devices, Calls!Publish(d)
  PROVE  LogInv'
<1>1. /\ cited' = [cited EXCEPT ![d] = @ \cup Calls!Range(memory[d])]
      /\ batched' = [batched EXCEPT ![d] = <<>>] /\ memory' = [memory EXCEPT ![d] = <<>>]
      /\ published' = [published EXCEPT ![d] = @ + 1] /\ UNCHANGED <<log, buried, open, exports, calls, capped>>
  BY DEF Calls!Publish
<1>2. /\ DOMAIN cited' = Devices /\ DOMAIN batched' = Devices /\ DOMAIN memory' = Devices /\ DOMAIN published' = Devices
      /\ cited'[d] = cited[d] \cup Calls!Range(memory[d]) /\ batched'[d] = <<>> /\ memory'[d] = <<>>
      /\ \A e \in Devices \ {d} : cited'[e] = cited[e] /\ batched'[e] = batched[e] /\ memory'[e] = memory[e]
  BY <1>1 DEF LogInv
<1>3. \A f \in LogTables' : DOMAIN f = Devices
  BY <1>1, <1>2 DEF LogInv, LogTables
<1>4. ASSUME NEW e \in Devices
      PROVE  /\ InHand(e)' \cup Calls!Range(batched'[e]) \subseteq InHand(e) \cup Calls!Range(batched[e])
             /\ cited[e] \subseteq cited'[e] /\ cited'[e] \subseteq cited[e] \cup InHand(e)
  BY <1>1, <1>2, NoRange DEF InHand
<1> QED
  BY <1>1, <1>3, <1>4, CompilesOn
(* A call starts: its number is new, and no row names it.                   *)
LEMMA StartLogs ==
  ASSUME LogInv, NEW d \in Devices, Calls!Start(d)
  PROVE  LogInv'
<1>1. PICK n : n = Len(calls) + 1
  OBVIOUS
<1>2. PICK b : b = Calls!NextBatch(d)
  OBVIOUS
<1>3. /\ open[d] = Calls!Closed /\ calls' = Append(calls, d)
      /\ log' = [log EXCEPT ![d] = Calls!Over([r \in {n} |-> "pending"], @)]
      /\ open' = [open EXCEPT ![d] = [call |-> n, batch |-> b]]
      /\ UNCHANGED <<buried, cited, batched, memory, exports, published, capped>>
  BY <1>1, <1>2 DEF Calls!Start, Calls!Going
<1>4. /\ calls \in Seq(Devices) /\ calls' \in Seq(Devices) /\ n \in Nat /\ Len(calls') = n /\ n \notin 1..Len(calls)
      /\ 1..Len(calls') = 1..Len(calls) \cup {n} /\ calls'[n] = d /\ \A r \in 1..Len(calls) : calls'[r] = calls[r]
  BY <1>1, <1>3 DEF LogInv
<1>5. /\ DOMAIN log' = Devices /\ DOMAIN open' = Devices
      /\ DOMAIN log'[d] = DOMAIN log[d] \cup {n} /\ open'[d] = [call |-> n, batch |-> b]
      /\ \A e \in Devices \ {d} : log'[e] = log[e] /\ open'[e] = open[e]
  BY <1>3 DEF LogInv, Calls!Over
<1>6. ASSUME NEW e \in Devices
      PROVE  /\ Logged(Calls!Shared(e)) /\ Logged(exports[e]) /\ CitedAtHome(Calls!Shared(e)) /\ CitedAtHome(exports[e])
             /\ ByCap(Calls!Shared(e)) /\ ByCap(exports[e])
             /\ InHand(e) \cup Calls!Range(batched[e]) \subseteq Made(e) /\ Made(e) \subseteq DOMAIN log[e] \cup buried[e]
  BY DEF LogInv
<1>7. ASSUME NEW e \in Devices PROVE n \notin buried[e]
  BY <1>4, <1>6 DEF Logged, Calls!Shared
<1>8. ASSUME NEW e \in Devices PROVE Logged(Calls!Shared(e))' /\ Logged(exports[e])'
  <2>1. /\ DOMAIN log[e] \subseteq 1..Len(calls) /\ buried[e] \subseteq 1..Len(calls)
        /\ cited[e] \subseteq 1..Len(calls) /\ DOMAIN log[e] \cap buried[e] = {}
    BY <1>6 DEF Logged, Calls!Shared
  <2>2. DOMAIN log'[e] \subseteq DOMAIN log[e] \cup {n} /\ buried'[e] = buried[e] /\ cited'[e] = cited[e]
    BY <1>3, <1>5
  <2>3. DOMAIN log'[e] \subseteq 1..Len(calls') /\ DOMAIN log'[e] \cap buried'[e] = {}
    BY <1>4, <1>7, <2>1, <2>2
  <2>4. Logged(Calls!Shared(e))'
    BY <1>4, <2>1, <2>2, <2>3 DEF Logged, Calls!Shared
  <2>5. Logged(exports[e])'
    BY <1>3, <1>4, <1>6 DEF Logged
  <2> QED
    BY <2>4, <2>5
<1>9. ASSUME NEW e \in Devices PROVE CitedAtHome(Calls!Shared(e))' /\ CitedAtHome(exports[e])'
  <2>1. ASSUME NEW r \in cited[e] PROVE r \in cited[calls'[r]]
    BY <1>4, <1>6, <2>1 DEF CitedAtHome, Calls!Shared, Logged
  <2>2. ASSUME NEW r \in exports[e].cited PROVE r \in cited[calls'[r]]
    BY <1>4, <1>6, <2>2 DEF CitedAtHome, Logged
  <2> QED
    BY <1>3, <2>1, <2>2 DEF CitedAtHome, Calls!Shared
<1>10. ASSUME NEW e \in Devices PROVE ByCap(Calls!Shared(e))' /\ ByCap(exports[e])'
  BY <1>3, <1>6 DEF ByCap, Calls!Shared
<1>11. ASSUME NEW e \in Devices PROVE Made(e)' = Made(e) \cup IF e = d THEN {n} ELSE {}
  BY <1>4 DEF Made
<1>12. ASSUME NEW e \in Devices PROVE InHand(e)' = InHand(e) \cup IF e = d THEN {n} ELSE {}
  <2>1. CASE e = d
    <3>1. open'[e] # Calls!Closed /\ open'[e].call = n /\ open[e] = Calls!Closed
      <4>1. DOMAIN open'[d] # DOMAIN Calls!Closed
        BY <1>5 DEF Calls!Closed
      <4> QED
        BY <1>3, <1>5, <2>1, <4>1
    <3> QED
      BY <1>3, <2>1, <3>1 DEF InHand
  <2>2. CASE e # d
    BY <1>3, <1>5, <2>2 DEF InHand
  <2> QED
    BY <2>1, <2>2
<1>13. ASSUME NEW e \in Devices
       PROVE  (InHand(e) \cup Calls!Range(batched[e]))' \subseteq Made(e)' /\ Made(e)' \subseteq DOMAIN log'[e] \cup buried'[e]
  <2>1. (InHand(e) \cup Calls!Range(batched[e]))' \subseteq Made(e)'
    BY <1>3, <1>6, <1>11, <1>12
  <2>2. DOMAIN log'[e] = DOMAIN log[e] \cup IF e = d THEN {n} ELSE {}
    BY <1>5
  <2> QED
    BY <1>3, <1>6, <1>11, <2>1, <2>2
<1>14. capped' \subseteq [device : Devices, call : 1..Len(calls'), held : BOOLEAN]
  BY <1>3, <1>4 DEF LogInv
<1>15. ASSUME NEW c \in capped, calls'[c.call] = c.device, ~ c.held
       PROVE  c.call \notin (InHand(c.device) \cup Calls!Referenced(c.device))'
  <2>1. c.device \in Devices /\ c.call \in 1..Len(calls)
    BY DEF LogInv
  <2>2. c.call \notin InHand(c.device) \cup Calls!Referenced(c.device)
    BY <1>4, <1>15, <2>1 DEF LogInv
  <2> QED
    BY <1>3, <1>4, <1>12, <2>1, <2>2 DEF Calls!Referenced
<1>16. \A f \in {log', buried', cited', batched', memory', open', exports', published'} : DOMAIN f = Devices
  BY <1>3, <1>5 DEF LogInv
<1>17. \A c \in capped' : c.call \in buried'[c.device]
  BY <1>3 DEF LogInv
<1> QED
  BY <1>3, <1>4, <1>8, <1>9, <1>10, <1>13, <1>14, <1>15, <1>16, <1>17 DEF LogInv

(* The cap: what it deletes no row of the device names, and a compile only  *)
(* where the deletion says so.                                              *)
LEMMA CapLogs ==
  ASSUME LogInv, NEW d \in Devices, Calls!Cap(d)
  PROVE  LogInv'
<1>1. PICK doomed : doomed = Calls!OverCap(d)
  OBVIOUS
<1>2. PICK held : held = Calls!Range(memory[d]) \cup {open[d].call}
  OBVIOUS
<1>3. /\ log' = [log EXCEPT ![d] = [r \in DOMAIN @ \ doomed |-> @[r]]]
      /\ buried' = [buried EXCEPT ![d] = @ \cup doomed]
      /\ capped' = capped \cup {[device |-> d, call |-> r, held |-> r \in held] : r \in doomed}
      /\ UNCHANGED <<cited, batched, memory, open, exports, calls, published>>
  BY <1>1, <1>2 DEF Calls!Cap, Calls!Buried
<1>4. doomed \subseteq DOMAIN log[d] /\ doomed \cap Calls!Referenced(d) = {}
  BY <1>1 DEF Calls!OverCap
<1>5. /\ DOMAIN log' = Devices /\ DOMAIN log'[d] = DOMAIN log[d] \ doomed
      /\ DOMAIN buried' = Devices /\ buried'[d] = buried[d] \cup doomed
      /\ \A e \in Devices \ {d} : log'[e] = log[e] /\ buried'[e] = buried[e]
  BY <1>3 DEF LogInv
<1>6. ASSUME NEW e \in Devices
      PROVE  /\ Logged(Calls!Shared(e)) /\ Logged(exports[e]) /\ CitedAtHome(Calls!Shared(e)) /\ CitedAtHome(exports[e])
             /\ ByCap(Calls!Shared(e)) /\ ByCap(exports[e])
             /\ InHand(e) \cup Calls!Range(batched[e]) \subseteq Made(e) /\ Made(e) \subseteq DOMAIN log[e] \cup buried[e]
  BY DEF LogInv
<1>7. doomed \subseteq 1..Len(calls)
  BY <1>4, <1>6 DEF Logged, Calls!Shared
<1>8. ASSUME NEW e \in Devices PROVE Logged(Calls!Shared(e))' /\ Logged(exports[e])'
  <2>1. CASE e = d
    <3>1. /\ DOMAIN log[e] \subseteq 1..Len(calls) /\ buried[e] \subseteq 1..Len(calls)
          /\ cited[e] \subseteq 1..Len(calls) /\ DOMAIN log[e] \cap buried[e] = {}
      BY <1>6 DEF Logged, Calls!Shared
    <3>2. /\ DOMAIN log'[e] \subseteq 1..Len(calls) /\ buried'[e] \subseteq 1..Len(calls)
          /\ DOMAIN log'[e] \cap buried'[e] = {}
      BY <1>5, <1>7, <2>1, <3>1
    <3>3. Logged(Calls!Shared(e))'
      BY <1>3, <3>1, <3>2 DEF Logged, Calls!Shared
    <3> QED
      BY <1>3, <1>6, <3>3 DEF Logged
  <2>2. CASE e # d
    BY <1>3, <1>5, <1>6, <2>2 DEF Logged, Calls!Shared
  <2> QED
    BY <2>1, <2>2
<1>9. ASSUME NEW e \in Devices PROVE CitedAtHome(Calls!Shared(e))' /\ CitedAtHome(exports[e])'
  BY <1>3, <1>6 DEF CitedAtHome, Calls!Shared
<1>10. ASSUME NEW r \in doomed PROVE \E c \in capped' : c.call = r
  <2>1. [device |-> d, call |-> r, held |-> r \in held] \in capped'
    BY <1>3
  <2> QED
    BY <2>1
<1>11. ASSUME NEW e \in Devices PROVE ByCap(Calls!Shared(e))' /\ ByCap(exports[e])'
  <2>1. capped \subseteq capped' /\ \A r \in buried'[e] : r \in buried[e] \/ r \in doomed
    BY <1>3, <1>5
  <2> QED
    BY <1>3, <1>6, <1>10, <2>1 DEF ByCap, Calls!Shared
<1>12. ASSUME NEW e \in Devices
       PROVE  (InHand(e) \cup Calls!Range(batched[e]))' \subseteq Made(e)' /\ Made(e)' \subseteq DOMAIN log'[e] \cup buried'[e]
  <2>1. Made(e)' = Made(e) /\ InHand(e)' = InHand(e) /\ batched' = batched
    BY <1>3 DEF Made, InHand
  <2> QED
    BY <1>5, <1>6, <2>1
<1>13. ASSUME NEW c \in capped'
       PROVE  c \in capped \/ \E r \in doomed : c = [device |-> d, call |-> r, held |-> r \in held]
  BY <1>3
<1>14. capped' \subseteq [device : Devices, call : 1..Len(calls'), held : BOOLEAN]
  <2>1. ASSUME NEW c \in capped' PROVE c \in [device : Devices, call : 1..Len(calls), held : BOOLEAN]
    <3>1. CASE c \in capped
      BY <3>1 DEF LogInv
    <3>2. ASSUME NEW r \in doomed, c = [device |-> d, call |-> r, held |-> r \in held]
          PROVE  c \in [device : Devices, call : 1..Len(calls), held : BOOLEAN]
      <4>1. r \in 1..Len(calls) /\ (r \in held) \in BOOLEAN
        BY <1>7
      <4> QED
        BY <3>2, <4>1
    <3> QED
      BY <1>13, <3>1, <3>2
  <2> QED
    BY <1>3, <2>1
<1>15. \A c \in capped' : c.call \in buried'[c.device]
  <2>1. ASSUME NEW c \in capped' PROVE c.call \in buried'[c.device]
    <3>1. CASE c \in capped
      <4>1. c.device \in Devices /\ c.call \in buried[c.device]
        BY <3>1 DEF LogInv
      <4> QED
        BY <1>5, <4>1
    <3>2. CASE \E r \in doomed : c = [device |-> d, call |-> r, held |-> r \in held]
      BY <1>5, <3>2
    <3> QED
      BY <1>13, <3>1, <3>2
  <2> QED
    BY <2>1
<1>16. ASSUME NEW c \in capped', calls'[c.call] = c.device, ~ c.held
       PROVE  c.call \notin (InHand(c.device) \cup Calls!Referenced(c.device))'
  <2>1. UNCHANGED <<cited, batched, memory, open, calls>>
    BY <1>3
  <2>2. CASE c \in capped
    BY <1>16, <2>1, <2>2 DEF LogInv, InHand, Calls!Referenced
  <2>3. ASSUME NEW r \in doomed, c = [device |-> d, call |-> r, held |-> r \in held]
        PROVE  c.call \notin (InHand(c.device) \cup Calls!Referenced(c.device))'
    <3>1. r \notin held /\ r \notin Calls!Referenced(d) /\ c.device = d /\ c.call = r
      BY <1>4, <1>16, <2>3
    <3>2. r \notin InHand(d)
      BY <1>2, <3>1 DEF InHand
    <3> QED
      BY <2>1, <3>1, <3>2 DEF InHand, Calls!Referenced
  <2> QED
    BY <1>13, <2>2, <2>3
<1>17. \A f \in {log', buried', cited', batched', memory', open', exports', published'} : DOMAIN f = Devices
  BY <1>3, <1>5 DEF LogInv
<1>18. calls' \in Seq(Devices)
  BY <1>3 DEF LogInv
<1> QED
  BY <1>8, <1>9, <1>11, <1>12, <1>14, <1>15, <1>16, <1>17, <1>18 DEF LogInv

LEMMA ExportLogs ==
  ASSUME LogInv, NEW d \in Devices, Calls!Export(d)
  PROVE  LogInv'
<1>1. /\ exports' = [exports EXCEPT ![d] = Calls!Shared(d)]
      /\ UNCHANGED <<log, buried, cited, batched, memory, open, calls, published, capped>>
  BY DEF Calls!Export
<1>2. DOMAIN exports' = Devices /\ \A e \in Devices : exports'[e] \in {exports[e], Calls!Shared(e)}
  BY <1>1 DEF LogInv
<1>3. ASSUME NEW e \in Devices
      PROVE  /\ Calls!Shared(e)' = Calls!Shared(e) /\ InHand(e)' = InHand(e) /\ Made(e)' = Made(e) /\ Calls!Referenced(e)' = Calls!Referenced(e)
             /\ Logged(Calls!Shared(e)) /\ Logged(exports[e]) /\ CitedAtHome(Calls!Shared(e)) /\ CitedAtHome(exports[e])
             /\ ByCap(Calls!Shared(e)) /\ ByCap(exports[e])
             /\ InHand(e) \cup Calls!Range(batched[e]) \subseteq Made(e) /\ Made(e) \subseteq DOMAIN log[e] \cup buried[e]
  BY <1>1 DEF LogInv, Calls!Shared, InHand, Made, Calls!Referenced
<1>4. ASSUME NEW e \in Devices PROVE Logged(Calls!Shared(e))' /\ Logged(exports[e])'
  BY <1>1, <1>2, <1>3 DEF Logged
<1>5. ASSUME NEW e \in Devices PROVE CitedAtHome(Calls!Shared(e))' /\ CitedAtHome(exports[e])'
  BY <1>1, <1>2, <1>3 DEF CitedAtHome
<1>6. ASSUME NEW e \in Devices PROVE ByCap(Calls!Shared(e))' /\ ByCap(exports[e])'
  BY <1>1, <1>2, <1>3 DEF ByCap
<1>7. ASSUME NEW e \in Devices
      PROVE  (InHand(e) \cup Calls!Range(batched[e]))' \subseteq Made(e)' /\ Made(e)' \subseteq DOMAIN log'[e] \cup buried'[e]
  BY <1>1, <1>3
<1>8. ASSUME NEW c \in capped, calls[c.call] = c.device, ~ c.held PROVE c.call \notin (InHand(c.device) \cup Calls!Referenced(c.device))'
  BY <1>3, <1>8 DEF LogInv
<1>9. /\ calls' \in Seq(Devices) /\ capped' \subseteq [device : Devices, call : 1..Len(calls'), held : BOOLEAN]
      /\ \A c \in capped' : c.call \in buried'[c.device]
      /\ \A f \in {log', buried', cited', batched', memory', open', exports', published'} : DOMAIN f = Devices
  BY <1>1, <1>2 DEF LogInv
<1> QED
  BY <1>1, <1>4, <1>5, <1>6, <1>7, <1>8, <1>9 DEF LogInv

(* An import: what the file has of the device's calls the device cites      *)
(* already, and what is deleted in either stays deleted.                    *)
LEMMA ImportLogs ==
  ASSUME LogInv, NEW d \in Devices, NEW peer \in Devices, Calls!Import(d, peer)
  PROVE  LogInv'
<1>1. PICK in : in = exports[peer]
  OBVIOUS
<1>2. PICK new : new = Calls!Merged(d, in)
  OBVIOUS
<1>3. /\ log' = [log EXCEPT ![d] = new.log] /\ buried' = [buried EXCEPT ![d] = new.buried]
      /\ cited' = [cited EXCEPT ![d] = new.cited]
      /\ UNCHANGED <<batched, memory, open, exports, calls, published, capped>>
  BY <1>1, <1>2 DEF Calls!Import
<1>4. /\ DOMAIN new.log = (DOMAIN log[d] \cup DOMAIN in.log) \ new.buried
      /\ new.buried = buried[d] \cup in.buried /\ new.cited = cited[d] \cup in.cited
  BY <1>2 DEF Calls!Merged, Calls!Over
<1>5. /\ DOMAIN log' = Devices /\ DOMAIN buried' = Devices /\ DOMAIN cited' = Devices
      /\ log'[d] = new.log /\ buried'[d] = new.buried /\ cited'[d] = new.cited
      /\ \A e \in Devices \ {d} : log'[e] = log[e] /\ buried'[e] = buried[e] /\ cited'[e] = cited[e]
  BY <1>3 DEF LogInv
<1>6. ASSUME NEW e \in Devices
      PROVE  /\ Logged(Calls!Shared(e)) /\ Logged(exports[e]) /\ CitedAtHome(Calls!Shared(e)) /\ CitedAtHome(exports[e])
             /\ ByCap(Calls!Shared(e)) /\ ByCap(exports[e])
             /\ InHand(e) \cup Calls!Range(batched[e]) \subseteq Made(e) /\ Made(e) \subseteq DOMAIN log[e] \cup buried[e]
  BY DEF LogInv
<1>7. Logged(in) /\ CitedAtHome(in) /\ ByCap(in)
  BY <1>1, <1>6
<1>8. /\ DOMAIN log[d] \subseteq 1..Len(calls) /\ buried[d] \subseteq 1..Len(calls) /\ cited[d] \subseteq 1..Len(calls)
  BY <1>6 DEF Logged, Calls!Shared
<1>9. ASSUME NEW e \in Devices PROVE Logged(Calls!Shared(e))' /\ Logged(exports[e])'
  <2>1. CASE e = d
    <3>1. /\ DOMAIN in.log \subseteq 1..Len(calls) /\ in.buried \subseteq 1..Len(calls) /\ in.cited \subseteq 1..Len(calls)
      BY <1>7 DEF Logged
    <3>2. /\ DOMAIN log'[e] \subseteq 1..Len(calls) /\ buried'[e] \subseteq 1..Len(calls)
          /\ cited'[e] \subseteq 1..Len(calls) /\ DOMAIN log'[e] \cap buried'[e] = {}
      BY <1>4, <1>5, <1>8, <2>1, <3>1
    <3>3. Logged(Calls!Shared(e))'
      BY <1>3, <3>2 DEF Logged, Calls!Shared
    <3> QED
      BY <1>3, <1>6, <3>3 DEF Logged
  <2>2. CASE e # d
    BY <1>3, <1>5, <1>6, <2>2 DEF Logged, Calls!Shared
  <2> QED
    BY <2>1, <2>2
<1>10. ASSUME NEW e \in Devices PROVE cited[e] \subseteq cited'[e]
  BY <1>4, <1>5
<1>11. ASSUME NEW r \in 1..Len(calls), r \in cited[calls[r]] PROVE r \in cited'[calls[r]]
  <2>1. calls[r] \in Devices
    BY DEF LogInv
  <2> QED
    BY <1>10, <1>11, <2>1
<1>12. ASSUME NEW e \in Devices PROVE CitedAtHome(Calls!Shared(e))' /\ CitedAtHome(exports[e])'
  <2>1. ASSUME NEW r \in cited'[e] PROVE r \in 1..Len(calls) /\ r \in cited[calls[r]]
    <3>1. CASE r \in cited[e]
      BY <1>6, <3>1 DEF CitedAtHome, Calls!Shared, Logged
    <3>2. CASE r \in in.cited
      BY <1>7, <3>2 DEF CitedAtHome, Logged
    <3> QED
      BY <1>4, <1>5, <2>1, <3>1, <3>2
  <2>2. ASSUME NEW r \in exports[e].cited PROVE r \in 1..Len(calls) /\ r \in cited[calls[r]]
    BY <1>6, <2>2 DEF CitedAtHome, Logged
  <2> QED
    BY <1>3, <1>11, <2>1, <2>2 DEF CitedAtHome, Calls!Shared
<1>13. ASSUME NEW e \in Devices PROVE ByCap(Calls!Shared(e))' /\ ByCap(exports[e])'
  <2>1. ASSUME NEW r \in buried'[e] PROVE \E c \in capped : c.call = r
    <3>1. CASE r \in buried[e]
      BY <1>6, <3>1 DEF ByCap, Calls!Shared
    <3>2. CASE r \in in.buried
      BY <1>7, <3>2 DEF ByCap
    <3> QED
      BY <1>4, <1>5, <2>1, <3>1, <3>2
  <2> QED
    BY <1>3, <1>6, <2>1 DEF ByCap, Calls!Shared
<1>14. ASSUME NEW e \in Devices
       PROVE  (InHand(e) \cup Calls!Range(batched[e]))' \subseteq Made(e)' /\ Made(e)' \subseteq DOMAIN log'[e] \cup buried'[e]
  <2>1. Made(e)' = Made(e) /\ InHand(e)' = InHand(e) /\ batched' = batched
    BY <1>3 DEF Made, InHand
  <2>2. DOMAIN log[e] \cup buried[e] \subseteq DOMAIN log'[e] \cup buried'[e]
    BY <1>4, <1>5
  <2> QED
    BY <1>6, <2>1, <2>2
<1>15. ASSUME NEW c \in capped PROVE c.device \in Devices /\ c.call \in buried'[c.device]
  <2>1. c.device \in Devices /\ c.call \in buried[c.device]
    BY DEF LogInv
  <2> QED
    BY <1>4, <1>5, <2>1
<1>16. ASSUME NEW c \in capped, calls[c.call] = c.device, ~ c.held
       PROVE  c.call \notin (InHand(c.device) \cup Calls!Referenced(c.device))'
  <2>1. c.device \in Devices /\ c.call \notin InHand(c.device) /\ c.call \notin Calls!Referenced(c.device)
    BY <1>16 DEF LogInv
  <2>2. c.call \notin cited'[c.device]
    <3>1. CASE c.call \in in.cited /\ c.device = d
      BY <1>7, <1>16, <2>1, <3>1 DEF CitedAtHome, Calls!Referenced
    <3>2. CASE c.call \notin in.cited \/ c.device # d
      BY <1>4, <1>5, <2>1, <3>2 DEF Calls!Referenced
    <3> QED
      BY <3>1, <3>2
  <2> QED
    BY <1>3, <2>1, <2>2 DEF InHand, Calls!Referenced
<1>17. /\ calls' \in Seq(Devices) /\ capped' \subseteq [device : Devices, call : 1..Len(calls'), held : BOOLEAN]
       /\ \A f \in {log', buried', cited', batched', memory', open', exports', published'} : DOMAIN f = Devices
  BY <1>3, <1>5 DEF LogInv
<1> QED
  BY <1>3, <1>9, <1>12, <1>13, <1>14, <1>15, <1>16, <1>17 DEF LogInv

LEMMA LogKeeps ==
  ASSUME MakersAssumption
  PROVE  LogInv /\ [Calls!Next]_Calls!vars => LogInv'
<1> SUFFICES ASSUME LogInv, [Calls!Next]_Calls!vars PROVE LogInv'
  OBVIOUS
<1>1. CASE UNCHANGED Calls!vars
  <2>1. UNCHANGED <<log, buried, cited, batched, memory, open, exports, calls, published, capped>>
    BY <1>1 DEF Calls!vars
  <2> QED
    BY <2>1 DEF LogInv, Logged, Calls!Shared, InHand, Made, CitedAtHome, ByCap, Calls!Referenced
<1>2. ASSUME NEW d \in Devices, Calls!Start(d) \/ Calls!Reuse(d) PROVE LogInv'
  BY <1>2, StartLogs, ReuseLogs
<1>3. ASSUME NEW d \in Devices, Calls!Answer(d) \/ Calls!Refuse(d) PROVE LogInv'
  BY <1>3, AnswerLogs, RefuseLogs
<1>4. ASSUME NEW d \in Devices, Calls!Abandon(d) \/ Calls!Publish(d) PROVE LogInv'
  BY <1>4, AbandonLogs, PublishLogs
<1>5. ASSUME NEW d \in Devices, Calls!Cap(d) \/ Calls!Export(d) PROVE LogInv'
  BY <1>5, CapLogs, ExportLogs
<1>6. ASSUME NEW d \in Devices, NEW peer \in Devices, Calls!Import(d, peer) PROVE LogInv'
  BY <1>6, ImportLogs
<1> QED
  BY <1>1, <1>2, <1>3, <1>4, <1>5, <1>6 DEF Calls!Next, MakersAssumption

(* The cap on the log of calls spares what its own device names, and what   *)
(* it deleted stays deleted, whatever is imported.                          *)
THEOREM CapsAlwaysHold ==
  ASSUME MakersAssumption
  PROVE  Calls!Spec => []CapsHold
<1>1. LogInv /\ [Calls!Next]_Calls!vars => LogInv'
  BY LogKeeps
<1>2. LogInv => CapsHold
  BY InvCaps DEF CapsHold
<1> QED
  BY <1>1, <1>2, LogStarts, PTL DEF Calls!Spec
=============================================================================
