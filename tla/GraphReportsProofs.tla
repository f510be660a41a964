-------------------------- MODULE GraphReportsProofs --------------------------
(***************************************************************************)
(* Proofs about GraphSystem, for any sources, entities, relations, texts   *)
(* and bounds: communities and what is served of them, merges of entities, *)
(* and the rows that devices have under ids of their own.                  *)
(***************************************************************************)
EXTENDS GraphSystem, SequenceTheorems, TLAPS

-----------------------------------------------------------------------------
(* Communities *)

(* A component is closed and holds its entity, and no closed set that      *)
(* holds the entity is smaller.                                            *)
LEMMA ComponentLeast ==
  ASSUME NEW R \in SUBSET Relations, NEW e \in Entities
  PROVE  /\ Component(R, e) \subseteq Entities /\ e \in Component(R, e) /\ Closed(R, Component(R, e))
         /\ \A S \in SUBSET Entities : e \in S /\ Closed(R, S) => Component(R, e) \subseteq S
  <1>1. \A r \in R : From[r] \in Entities /\ To[r] \in Entities
    BY ConstantsAssumption
  <1> QED
    BY <1>1 DEF Component, Closed

(* Two components with a common entity are the same.                       *)
LEMMA ComponentsApart ==
  ASSUME NEW R \in SUBSET Relations, NEW e \in Entities, NEW f \in Entities,
         Component(R, e) \cap Component(R, f) # {}
  PROVE  Component(R, e) = Component(R, f)
  <1>1. ASSUME NEW g \in Entities, NEW h \in Entities, Component(R, g) \cap Component(R, h) # {}
        PROVE  Component(R, h) \subseteq Component(R, g)
    <2>1. h \in Component(R, g)
      <3> SUFFICES ASSUME h \notin Component(R, g) PROVE FALSE
        OBVIOUS
      <3> DEFINE rest == Entities \ Component(R, g)
      <3>1. h \in rest /\ rest \subseteq Entities
        OBVIOUS
      <3>2. Closed(R, rest)
        BY ComponentLeast, ConstantsAssumption DEF Closed
      <3>3. Component(R, h) \subseteq rest
        BY <3>1, <3>2, ComponentLeast
      <3> QED
        BY <1>1, <3>3
    <2> QED
      BY <2>1, ComponentLeast
  <1> QED
    BY <1>1

(* What a rebuild makes a report of: a community and its supports.         *)
LEMMA KeysAre ==
  ASSUME NEW sup, NEW st
  PROVE  /\ \A k \in Keys(sup, st) : \E e \in Entities :
              k = [members |-> Component(Active(st), e),
                   by |-> {u \in sup : st[u.rel] = "active" /\ Ends(u.rel) \subseteq Component(Active(st), e)}]
         /\ \A k, l \in Keys(sup, st) : k # l => k.members \cap l.members = {}
  <1>1. \A k \in Keys(sup, st) : \E e \in Entities :
              k = [members |-> Component(Active(st), e),
                   by |-> {u \in sup : st[u.rel] = "active" /\ Ends(u.rel) \subseteq Component(Active(st), e)}]
    BY DEF Keys, Components
  <1>2. Active(st) \subseteq Relations
    BY DEF Active
  <1>3. ASSUME NEW k \in Keys(sup, st), NEW l \in Keys(sup, st), k.members \cap l.members # {}
        PROVE  k = l
    <2>1. PICK e \in Entities :
              k = [members |-> Component(Active(st), e),
                   by |-> {u \in sup : st[u.rel] = "active" /\ Ends(u.rel) \subseteq Component(Active(st), e)}]
      BY <1>1
    <2>2. PICK f \in Entities :
              l = [members |-> Component(Active(st), f),
                   by |-> {u \in sup : st[u.rel] = "active" /\ Ends(u.rel) \subseteq Component(Active(st), f)}]
      BY <1>1
    <2>3. Component(Active(st), e) = Component(Active(st), f)
      BY <1>2, <1>3, <2>1, <2>2, ComponentsApart
    <2> QED
      BY <2>1, <2>2, <2>3
  <1> QED
    BY <1>1, <1>3

-----------------------------------------------------------------------------
(* The rebuild *)

LEMMA VerdictKnown ==
  ASSUME NEW sup, NEW st, NEW risk, NEW r
  PROVE  Verdict(sup, st, risk, r) \in {"active"} \cup Reasons
  BY DEF Verdict, Reasons

(* The statuses a rebuild makes depend on what is known, and it forgets    *)
(* nothing.                                                                *)
LEMMA CompiledAgain ==
  ASSUME NEW sup, NEW st
  PROVE  /\ Compiled(sup, st) \in [Relations -> {"absent", "active"} \cup Reasons]
         /\ Known(Compiled(sup, st)) = Known(st)
         /\ Compiled(sup, Compiled(sup, st)) = Compiled(sup, st)
  <1> DEFINE new == Compiled(sup, st)
  <1>1. /\ new = [r \in Relations |-> IF r \in Known(st) THEN Verdict(sup, st, BridgeRisk(Known(st)), r)
                                                        ELSE "absent"]
        /\ Compiled(sup, new) = [r \in Relations |->
              IF r \in Known(new) THEN Verdict(sup, new, BridgeRisk(Known(new)), r) ELSE "absent"]
    BY DEF Compiled
  <1>2. Known(new) = Known(st)
    BY <1>1, VerdictKnown DEF Known, Reasons
  <1>3. \A r \in Relations : Denied(new, r) = Denied(st, r)
    BY <1>2 DEF Denied
  <1>4. \A r \in Relations :
           Verdict(sup, new, BridgeRisk(Known(new)), r) = Verdict(sup, st, BridgeRisk(Known(st)), r)
    BY <1>2, <1>3 DEF Verdict
  <1>5. new \in [Relations -> {"absent", "active"} \cup Reasons]
    BY <1>1, VerdictKnown
  <1>6. Compiled(sup, new) = new
    <2> HIDE DEF new
    <2> QED
      BY <1>1, <1>2, <1>4
  <1> QED
    BY <1>2, <1>5, <1>6

(* The reports a rebuild leaves: those of the keys are served, no prose is *)
(* lost, and to do it again changes nothing.                               *)
LEMMA RekeyedIs ==
  ASSUME NEW rep, NEW keys
  PROVE  /\ DOMAIN Rekeyed(rep, keys) = keys \cup DOMAIN rep
         /\ \A k \in keys \cup DOMAIN rep : Rekeyed(rep, keys)[k] \in [live : BOOLEAN, prose : BOOLEAN]
         /\ Serving(Rekeyed(rep, keys)) = keys
         /\ Rekeyed(Rekeyed(rep, keys), keys) = Rekeyed(rep, keys)
  <1> DEFINE new == Rekeyed(rep, keys)
             all == keys \cup DOMAIN rep
  <1>1. new = [k \in all |-> [live |-> k \in keys, prose |-> k \in DOMAIN rep /\ rep[k].prose]]
    BY DEF Rekeyed
  <1>2. DOMAIN new = all
    BY <1>1
  <1>3. \A k \in all : new[k].live = (k \in keys) /\ new[k].prose = (k \in DOMAIN rep /\ rep[k].prose)
    BY <1>1
  <1>4. \A k \in all : new[k] \in [live : BOOLEAN, prose : BOOLEAN]
    BY <1>1
  <1>5. Serving(new) = keys
    BY <1>2, <1>3 DEF Serving
  <1>6. Rekeyed(new, keys) = [k \in all |-> [live |-> k \in keys, prose |-> new[k].prose]]
    BY <1>2 DEF Rekeyed
  <1>7. Rekeyed(new, keys) = new
    BY <1>1, <1>3, <1>6
  <1> QED
    BY <1>2, <1>4, <1>5, <1>7

LEMMA RebuiltAgain ==
  ASSUME NEW sup, NEW st, NEW rep
  PROVE  LET g == Rebuilt(sup, st, rep) IN Rebuilt(sup, g.status, g.report) = g
  <1> DEFINE new == Compiled(sup, st)
             reports == Rekeyed(rep, Keys(sup, new))
  <1>1. Compiled(sup, new) = new /\ Rekeyed(reports, Keys(sup, new)) = reports
    BY CompiledAgain, RekeyedIs
  <1>2. Rebuilt(sup, st, rep) = [status |-> new, report |-> reports]
    BY DEF Rebuilt
  <1>3. Rebuilt(sup, new, reports) = [status |-> Compiled(sup, new),
                                      report |-> Rekeyed(reports, Keys(sup, Compiled(sup, new)))]
    BY DEF Rebuilt
  <1> HIDE DEF new, reports
  <1> QED
    BY <1>1, <1>2, <1>3

-----------------------------------------------------------------------------
(* Shape: whatever overlaps *)

Rows == [live : BOOLEAN, prose : BOOLEAN]
Statuses == {"absent", "provisional", "active"} \cup Reasons

(* A clustering that writes nodes has room for the next one.               *)
RunShape ==
  /\ run.at \in {"idle", "rebuilt", "prose", "asking", "writing", "end"}
  /\ run.at = "prose" =>
        /\ run = [at |-> "prose", todo |-> run.todo, err |-> run.err]
        /\ run.todo \subseteq DOMAIN report
  /\ run.at = "asking" =>
        /\ run = [at |-> "asking", of |-> run.of, err |-> run.err]
        /\ run.of \subseteq DOMAIN report
  /\ run.at = "writing" =>
        /\ run = [at |-> "writing", of |-> run.of, err |-> run.err, want |-> run.want]
        /\ run.of \subseteq DOMAIN report
        /\ run.want \in 1..MaxNodes /\ layer.have < run.want

LayerShape ==
  /\ layer = [of |-> layer.of, want |-> layer.want, have |-> layer.have]
  /\ layer.of \subseteq DOMAIN report
  /\ layer.want \in 0..MaxNodes /\ layer.have \in 0..layer.want
  /\ layer.have = 0 => layer = NoLayer

ReportShape ==
  /\ report = [k \in DOMAIN report |-> report[k]]
  /\ \A k \in DOMAIN report :
        k.members \subseteq Entities /\ k.by \subseteq Support /\ report[k] \in Rows

Shape ==
  /\ live \subseteq Sources /\ spans \in [Sources -> Texts \cup {{}}]
  /\ support \subseteq Support /\ status \in [Relations -> Statuses]
  /\ ReportShape /\ LayerShape /\ RunShape
  /\ published \in 0..MaxPublish /\ fails \in 0..MaxFails

LEMMA ShapeIsTypeOK == Shape => TypeOK
  BY DEF Shape, ReportShape, LayerShape, RunShape, TypeOK, Rows, Statuses

LEMMA InitShape == Init => Shape
  <1> SUFFICES ASSUME Init PROVE Shape
    OBVIOUS
  <1>1. DOMAIN report = {} /\ report = [k \in DOMAIN report |-> report[k]]
    BY DEF Init
  <1> QED
    BY <1>1, ConstantsAssumption
       DEF Init, Shape, ReportShape, LayerShape, RunShape, Statuses, Idle, NoLayer

(* A rebuild leaves rows of the right shape, and forgets none.             *)
LEMMA RebuiltShape ==
  ASSUME Shape, NEW sup \in SUBSET Support, NEW rep, NEW st,
         [status |-> st, report |-> rep] = Rebuilt(sup, status, report)
  PROVE  /\ st \in [Relations -> Statuses]
         /\ rep = [k \in DOMAIN rep |-> rep[k]]
         /\ \A k \in DOMAIN rep : k.members \subseteq Entities /\ k.by \subseteq Support /\ rep[k] \in Rows
         /\ DOMAIN report \subseteq DOMAIN rep
         /\ Serving(rep) = Keys(sup, st)
  <1>1. st = Compiled(sup, status) /\ rep = Rekeyed(report, Keys(sup, st))
    BY DEF Rebuilt
  <1>2. st \in [Relations -> Statuses]
    BY <1>1, CompiledAgain DEF Statuses
  <1>3. rep = [k \in DOMAIN rep |-> rep[k]]
    BY <1>1 DEF Rekeyed
  <1>4. \A k \in Keys(sup, st) : k.members \subseteq Entities /\ k.by \subseteq sup
    <2>1. Active(st) \subseteq Relations
      BY DEF Active
    <2> TAKE k \in Keys(sup, st)
    <2>2. PICK e \in Entities :
              k = [members |-> Component(Active(st), e),
                   by |-> {u \in sup : st[u.rel] = "active" /\ Ends(u.rel) \subseteq Component(Active(st), e)}]
      BY KeysAre
    <2> QED
      BY <2>1, <2>2, ComponentLeast
  <1>5. /\ DOMAIN rep = Keys(sup, st) \cup DOMAIN report
        /\ \A k \in DOMAIN rep : rep[k] \in Rows
        /\ Serving(rep) = Keys(sup, st)
    BY <1>1, RekeyedIs DEF Rows
  <1> QED
    BY <1>2, <1>3, <1>4, <1>5 DEF Shape, ReportShape

LEMMA UpsertedIs ==
  ASSUME ReportShape, NEW k \in DOMAIN report, report' = Upserted(report, k)
  PROVE  /\ ReportShape' /\ DOMAIN report' = DOMAIN report
         /\ Serving(report') = Serving(report) \cup {k}
         /\ k \in Serving(report) => Corpus(report') = Corpus(report) \cup {k}
  <1>1. DOMAIN report' = DOMAIN report /\ report' = [l \in DOMAIN report' |-> report'[l]]
    BY DEF Upserted, ReportShape
  <1>2. \A l \in DOMAIN report : report'[l] = IF l = k THEN [live |-> TRUE, prose |-> TRUE] ELSE report[l]
    BY DEF Upserted, ReportShape
  <1>3. Serving(report') = Serving(report) \cup {k}
    BY <1>1, <1>2 DEF Serving
  <1>4. k \in Serving(report) => Corpus(report') = Corpus(report) \cup {k}
    BY <1>1, <1>2, <1>3 DEF Corpus, Serving
  <1>5. \A l \in DOMAIN report : report'[l] \in Rows
    <2>1. [live |-> TRUE, prose |-> TRUE] \in Rows
      BY DEF Rows
    <2> QED
      BY <1>2, <2>1 DEF ReportShape
  <1> QED
    BY <1>1, <1>3, <1>4, <1>5 DEF ReportShape

(* A step of the clustering that leaves the reports.                       *)
LEMMA ShapeKept ==
  ASSUME Shape, UNCHANGED <<live, spans, support, status, report, published>>,
         LayerShape', RunShape', fails' \in 0..MaxFails
  PROVE  Shape'
  BY DEF Shape, ReportShape

LEMMA ShapeStep == Shape /\ [Next]_vars => Shape'
  <1> SUFFICES ASSUME Shape, [Next]_vars PROVE Shape'
    OBVIOUS
  <1> USE ConstantsAssumption
  <1>0. published \in Nat /\ fails \in Nat
    BY DEF Shape
  <1>1. CASE Rebuild
    <2>1. [status |-> status', report |-> report'] = Rebuilt(support, status, report)
      BY <1>1 DEF Rebuild, Rebuilt
    <2>2. ReportShape' /\ status' \in [Relations -> Statuses] /\ DOMAIN report \subseteq DOMAIN report'
      BY <2>1, RebuiltShape DEF Shape, ReportShape
    <2>3. LayerShape' /\ RunShape'
      BY <1>1, <2>2 DEF Rebuild, Shape, LayerShape, RunShape
    <2> QED
      BY <1>1, <2>2, <2>3 DEF Rebuild, Shape
  <1>2. CASE ListReports
    <2>1. RunShape'
      BY <1>2 DEF ListReports, RunShape, Serving
    <2> QED
      BY <1>2, <2>1, ShapeKept DEF ListReports, Shape, LayerShape
  <1>3. ASSUME NEW k \in DOMAIN report, WriteProse(k) PROVE Shape'
    <2>1. ReportShape' /\ DOMAIN report' = DOMAIN report
      BY <1>3, UpsertedIs DEF WriteProse, Shape
    <2>2. LayerShape' /\ RunShape'
      BY <1>3, <2>1 DEF WriteProse, Shape, LayerShape, RunShape
    <2> QED
      BY <1>3, <2>1, <2>2 DEF WriteProse, Shape
  <1>4. ASSUME NEW k \in DOMAIN report, FailProse(k) PROVE Shape'
    <2>1. run = [at |-> "prose", todo |-> run.todo, err |-> run.err] /\ run.todo \subseteq DOMAIN report
      BY <1>4 DEF FailProse, Shape, RunShape
    <2>2. run' = [at |-> "prose", todo |-> run.todo \ {k}, err |-> TRUE]
      BY <1>4, <2>1 DEF FailProse
    <2>3. RunShape'
      BY <1>4, <2>1, <2>2 DEF FailProse, RunShape
    <2>4. LayerShape' /\ fails' \in 0..MaxFails
      BY <1>0, <1>4 DEF FailProse, Shape, LayerShape
    <2> QED
      BY <1>4, <2>3, <2>4, ShapeKept DEF FailProse
  <1>5. CASE ReadCorpus
    <2>1. Corpus(report) \subseteq DOMAIN report
      BY DEF Corpus, Serving
    <2>2. LayerShape'
      <3>1. CASE layer' = layer
        BY <1>5, <3>1 DEF ReadCorpus, Shape, LayerShape
      <3>2. CASE layer' = NoLayer
        BY <3>2 DEF LayerShape, NoLayer
      <3> QED
        BY <1>5, <3>1, <3>2 DEF ReadCorpus
    <2>3. RunShape'
      BY <1>5, <2>1 DEF ReadCorpus, RunShape
    <2> QED
      BY <1>5, <2>2, <2>3, ShapeKept DEF ReadCorpus, Shape
  <1>6. CASE FailSynthesis
    <2>1. RunShape' /\ LayerShape' /\ fails' \in 0..MaxFails
      BY <1>0, <1>6 DEF FailSynthesis, Shape, LayerShape, RunShape
    <2> QED
      BY <1>6, <2>1, ShapeKept DEF FailSynthesis
  <1>7. ASSUME NEW n \in 0..MaxNodes, ClearLayer(n) PROVE Shape'
    <2>1. LayerShape'
      BY <1>7 DEF ClearLayer, LayerShape, NoLayer
    <2>2. RunShape'
      BY <1>7 DEF ClearLayer, Shape, RunShape, NoLayer
    <2> QED
      BY <1>7, <2>1, <2>2, ShapeKept DEF ClearLayer, Shape
  <1>8. CASE WriteNode
    <2>1. /\ run.at = "writing" /\ run.want \in 1..MaxNodes /\ layer.have \in Nat /\ layer.have < run.want
          /\ run = [at |-> "writing", of |-> run.of, err |-> run.err, want |-> run.want]
          /\ run.of \subseteq DOMAIN report
      BY <1>8 DEF WriteNode, Shape, RunShape, LayerShape
    <2>2. layer' = [of |-> run.of, want |-> run.want, have |-> layer.have + 1]
      BY <1>8 DEF WriteNode, NodeAdded
    <2>3. LayerShape'
      BY <1>8, <2>1, <2>2 DEF WriteNode, LayerShape
    <2>4. run' = [run EXCEPT !.at = IF layer.have + 1 = run.want THEN "end" ELSE "writing"]
      BY <1>8, <2>2 DEF WriteNode
    <2>5. RunShape'
      <3>1. CASE layer.have + 1 = run.want
        BY <2>1, <2>4, <3>1 DEF RunShape
      <3>2. CASE layer.have + 1 # run.want
        <4>1. run' = run
          BY <2>1, <2>4, <3>2
        <4>2. layer'.have < run.want
          BY <2>1, <2>2, <3>2
        <4> QED
          BY <1>8, <2>1, <4>1, <4>2 DEF WriteNode, RunShape
      <3> QED
        BY <3>1, <3>2
    <2> QED
      BY <1>8, <2>3, <2>5, ShapeKept DEF WriteNode, Shape
  <1>9. CASE EndRun
    BY <1>9, ShapeKept DEF EndRun, Shape, LayerShape, RunShape, Idle
  <1>10. CASE Abort
    BY <1>0, <1>10, ShapeKept DEF Abort, Shape, LayerShape, RunShape, Idle
  <1>11. ASSUME NEW s \in Sources, NEW text \in Texts, NEW X \in SUBSET text \ {{}}, Publish(s, text, X)
         PROVE Shape'
    <2>1. X \subseteq Relations
      OBVIOUS
    <2>2. support' \subseteq Support
      BY <1>11, <2>1 DEF Publish, Supports, Support, Shape
    <2>3. status' \in [Relations -> Statuses]
      BY <1>11 DEF Publish, Declared, Shape, Statuses
    <2>4. spans' \in [Sources -> Texts \cup {{}}]
      BY <1>11 DEF Publish, Shape
    <2>5. published' \in 0..MaxPublish
      BY <1>0, <1>11 DEF Publish, Shape
    <2> QED
      BY <1>11, <2>2, <2>3, <2>4, <2>5 DEF Publish, Shape, ReportShape, LayerShape, RunShape
  <1>12. ASSUME NEW s \in Sources, DeleteSource(s) PROVE Shape'
    <2>1. support' \subseteq Support
      BY <1>12 DEF DeleteSource, Withdrawn, Shape
    <2>2. [status |-> status', report |-> report'] = Rebuilt(support', status, report)
      BY <1>12 DEF DeleteSource, Rebuilt
    <2>3. ReportShape' /\ status' \in [Relations -> Statuses] /\ DOMAIN report \subseteq DOMAIN report'
      BY <2>1, <2>2, RebuiltShape DEF ReportShape
    <2>4. layer' \in {layer, NoLayer}
      BY <1>12 DEF DeleteSource, Pruned
    <2>5. LayerShape'
      <3>1. CASE layer' = layer
        BY <2>3, <3>1 DEF Shape, LayerShape
      <3>2. CASE layer' = NoLayer
        BY <3>2 DEF LayerShape, NoLayer
      <3> QED
        BY <2>4, <3>1, <3>2
    <2>6. layer'.have <= layer.have /\ layer'.have \in Nat /\ layer.have \in Nat
      BY <2>4 DEF NoLayer, Shape, LayerShape
    <2>7. RunShape'
      BY <1>12, <2>3, <2>6 DEF DeleteSource, Shape, RunShape
    <2>8. spans' \in [Sources -> Texts \cup {{}}] /\ live' \subseteq Sources
      BY <1>12 DEF DeleteSource, Shape
    <2> QED
      BY <1>12, <2>1, <2>3, <2>5, <2>7, <2>8 DEF DeleteSource, Shape
  <1>13. CASE UNCHANGED vars
    BY <1>13 DEF vars, Shape, ReportShape, LayerShape, RunShape
  <1> QED
    BY <1>1, <1>2, <1>3, <1>4, <1>5, <1>6, <1>7, <1>8, <1>9, <1>10, <1>11, <1>12, <1>13
       DEF Next, RunStep, PublishStep

-----------------------------------------------------------------------------
(* While no source is deleted in the middle of a clustering *)

(* What a clustering holds is still so: the rows it asks prose for are      *)
(* served, those it does not ask for have it unless a call failed, and a    *)
(* layer is written about the reports there are.                           *)
RunKnows ==
  /\ run.at = "prose" =>
        /\ run.todo \subseteq Serving(report)
        /\ ~run.err => Serving(report) \subseteq run.todo \cup Corpus(report)
  /\ run.at \in {"asking", "writing"} =>
        /\ run.of = Corpus(report)
        /\ ~run.err => Serving(report) = Corpus(report)
  /\ run.at = "writing" /\ layer.have > 0 => layer.of = run.of /\ layer.want = run.want
  /\ CleanEndIsComplete

SerialInv == Shape /\ ServedCitesActive /\ OneReportPerEntity /\ GoneIsGone /\ RunKnows

LEMMA InitSerial == Init => SerialInv
  <1> SUFFICES ASSUME Init PROVE SerialInv
    OBVIOUS
  <1>1. Serving(report) = {} /\ layer.of = {} /\ support = {} /\ run.at = "idle"
    BY DEF Init, Serving, NoLayer, Idle
  <1> QED
    BY <1>1, InitShape
       DEF SerialInv, ServedCitesActive, OneReportPerEntity, GoneIsGone, RunKnows, CleanEndIsComplete

(* What is served after a rebuild, of what lives.                          *)
LEMMA RebuiltServes ==
  ASSUME NEW sup, NEW st, NEW rep, [status |-> st, report |-> rep] = Rebuilt(sup, status, report)
  PROVE  /\ \A k \in Serving(rep) : k.by \subseteq sup /\ \A u \in k.by : st[u.rel] = "active"
         /\ \A k, l \in Serving(rep) : k # l => k.members \cap l.members = {}
  <1>1. st = Compiled(sup, status) /\ rep = Rekeyed(report, Keys(sup, st))
    BY DEF Rebuilt
  <1>2. Serving(rep) = Keys(sup, st)
    BY <1>1, RekeyedIs
  <1>3. ASSUME NEW k \in Keys(sup, st) PROVE k.by \subseteq sup /\ \A u \in k.by : st[u.rel] = "active"
    <2>1. PICK e \in Entities :
              k = [members |-> Component(Active(st), e),
                   by |-> {u \in sup : st[u.rel] = "active" /\ Ends(u.rel) \subseteq Component(Active(st), e)}]
      BY KeysAre
    <2> QED
      BY <2>1
  <1> QED
    BY <1>2, <1>3, KeysAre

(* A step that leaves the reports, the supports and the sources.           *)
LEMMA ServedKept ==
  ASSUME SerialInv, UNCHANGED <<live, support, status, report>>
  PROVE  /\ ServedCitesActive' /\ OneReportPerEntity'
         /\ layer'.of \subseteq layer.of \cup Serving(report) => GoneIsGone'
         /\ Serving(report)' = Serving(report) /\ Corpus(report)' = Corpus(report)
  <1>1. Serving(report') = Serving(report) /\ Corpus(report') = Corpus(report)
    OBVIOUS
  <1>2. ServedCitesActive' /\ OneReportPerEntity'
    BY DEF SerialInv, ServedCitesActive, OneReportPerEntity, Serving
  <1>3. layer'.of \subseteq layer.of \cup Serving(report) => GoneIsGone'
    BY <1>1 DEF SerialInv, GoneIsGone, Serving, Bases
  <1> QED
    BY <1>1, <1>2, <1>3 DEF Serving, Corpus

LEMMA SerialStep == SerialInv /\ [SerialNext]_vars => SerialInv'
  <1> SUFFICES ASSUME SerialInv, [SerialNext]_vars PROVE SerialInv'
    OBVIOUS
  <1>0. Shape'
    BY ShapeStep DEF SerialInv, SerialNext, Next
  <1>1. CASE Rebuild
    <2>1. [status |-> status', report |-> report'] = Rebuilt(support, status, report)
      BY <1>1 DEF Rebuild, Rebuilt
    <2>2. ServedCitesActive' /\ OneReportPerEntity'
      BY <1>1, <2>1, RebuiltServes DEF Rebuild, ServedCitesActive, OneReportPerEntity, Serving
    <2>3. GoneIsGone'
      BY <1>1, <2>1, RebuiltServes DEF Rebuild, SerialInv, GoneIsGone, Serving, Bases
    <2>4. RunKnows'
      BY <1>1 DEF Rebuild, RunKnows, CleanEndIsComplete
    <2> QED
      BY <1>0, <2>2, <2>3, <2>4 DEF SerialInv
  <1>2. CASE ListReports
    <2>1. /\ run' = [at |-> "prose", todo |-> Serving(report) \ Corpus(report), err |-> FALSE]
          /\ UNCHANGED <<live, support, status, report, layer>>
      BY <1>2 DEF ListReports
    <2>2. RunKnows'
      BY <2>1 DEF RunKnows, CleanEndIsComplete, Serving, Corpus
    <2> QED
      BY <1>0, <2>1, <2>2, ServedKept DEF SerialInv
  <1>3. ASSUME NEW k \in DOMAIN report, WriteProse(k) PROVE SerialInv'
    <2>1. /\ run = [at |-> "prose", todo |-> run.todo, err |-> run.err] /\ k \in run.todo
          /\ k \in Serving(report) /\ UNCHANGED <<live, support, status, layer>>
      BY <1>3 DEF WriteProse, SerialInv, Shape, RunShape, RunKnows
    <2>2. run' = [at |-> "prose", todo |-> run.todo \ {k}, err |-> run.err]
      BY <1>3, <2>1 DEF WriteProse
    <2>3. Serving(report') = Serving(report) /\ Corpus(report') = Corpus(report) \cup {k}
      BY <1>3, <2>1, UpsertedIs DEF WriteProse, SerialInv, Shape
    <2>4. ServedCitesActive' /\ OneReportPerEntity' /\ GoneIsGone'
      BY <2>1, <2>3 DEF SerialInv, ServedCitesActive, OneReportPerEntity, GoneIsGone, Serving, Bases
    <2>5. RunKnows'
      <3>1. /\ run.todo \subseteq Serving(report)
            /\ ~run.err => Serving(report) \subseteq run.todo \cup Corpus(report)
        BY <2>1 DEF SerialInv, RunKnows
      <3>2. /\ run'.todo \subseteq Serving(report')
            /\ ~run'.err => Serving(report') \subseteq run'.todo \cup Corpus(report')
        BY <2>2, <2>3, <3>1
      <3> QED
        BY <2>2, <3>2 DEF RunKnows, CleanEndIsComplete, Serving, Corpus
    <2> QED
      BY <1>0, <2>4, <2>5 DEF SerialInv
  <1>4. ASSUME NEW k \in DOMAIN report, FailProse(k) PROVE SerialInv'
    <2>1. /\ run = [at |-> "prose", todo |-> run.todo, err |-> run.err]
          /\ run.todo \subseteq Serving(report) /\ UNCHANGED <<live, support, status, report, layer>>
      BY <1>4 DEF FailProse, SerialInv, Shape, RunShape, RunKnows
    <2>2. run' = [at |-> "prose", todo |-> run.todo \ {k}, err |-> TRUE]
      BY <1>4, <2>1 DEF FailProse
    <2>3. RunKnows'
      BY <2>1, <2>2 DEF RunKnows, CleanEndIsComplete, Serving
    <2> QED
      BY <1>0, <2>1, <2>3, ServedKept DEF SerialInv
  <1>5. CASE ReadCorpus
    <2> DEFINE corpus == Corpus(report)
               ask == corpus # {} /\ ~Current(layer, corpus)
    <2>1. /\ run.at = "prose" /\ run.todo = {} /\ UNCHANGED <<live, support, status, report>>
          /\ layer' = IF corpus = {} THEN NoLayer ELSE layer
          /\ run' = [at |-> IF ask THEN "asking" ELSE "end", of |-> corpus, err |-> run.err]
      BY <1>5 DEF ReadCorpus
    <2>2. ~run.err => Serving(report) = corpus
      BY <2>1 DEF SerialInv, RunKnows, Corpus
    <2>3. Serving(report)' = Serving(report) /\ Corpus(report)' = Corpus(report)
      BY <2>1, ServedKept
    <2>4. CleanEndIsComplete'
      <3> SUFFICES ASSUME ~ask, ~run.err
                   PROVE  /\ Serving(report) = corpus /\ layer'.have = layer'.want
                          /\ layer' # NoLayer => layer'.of = corpus
        BY <2>1, <2>3 DEF CleanEndIsComplete
      <3>1. CASE corpus = {}
        BY <2>1, <2>2, <3>1 DEF NoLayer
      <3>2. CASE corpus # {}
        BY <2>1, <2>2, <3>2 DEF Current
      <3> QED
        BY <3>1, <3>2
    <2>5. RunKnows'
      BY <2>1, <2>2, <2>3, <2>4 DEF RunKnows
    <2>6. layer'.of \subseteq layer.of
      BY <2>1 DEF NoLayer
    <2> QED
      BY <1>0, <2>1, <2>5, <2>6, ServedKept DEF SerialInv
  <1>6. CASE FailSynthesis
    <2>1. /\ run = [at |-> "asking", of |-> run.of, err |-> run.err]
          /\ UNCHANGED <<live, support, status, report, layer>>
      BY <1>6 DEF FailSynthesis, SerialInv, Shape, RunShape
    <2>2. run' = [at |-> "end", of |-> run.of, err |-> TRUE]
      BY <1>6, <2>1 DEF FailSynthesis
    <2>3. RunKnows'
      BY <2>2 DEF RunKnows, CleanEndIsComplete
    <2> QED
      BY <1>0, <2>1, <2>3, ServedKept DEF SerialInv
  <1>7. ASSUME NEW n \in 0..MaxNodes, ClearLayer(n) PROVE SerialInv'
    <2>1. /\ run.at = "asking" /\ layer' = NoLayer /\ UNCHANGED <<live, support, status, report>>
          /\ run' = [at |-> IF n = 0 THEN "end" ELSE "writing", of |-> run.of, err |-> run.err, want |-> n]
      BY <1>7 DEF ClearLayer
    <2>2. run.of = Corpus(report) /\ (~run.err => Serving(report) = Corpus(report))
      BY <2>1 DEF SerialInv, RunKnows
    <2>3. Serving(report)' = Serving(report) /\ Corpus(report)' = Corpus(report)
      BY <2>1, ServedKept
    <2>4. RunKnows'
      BY <2>1, <2>2, <2>3 DEF RunKnows, CleanEndIsComplete, NoLayer
    <2>5. layer'.of \subseteq layer.of
      BY <2>1 DEF NoLayer
    <2> QED
      BY <1>0, <2>1, <2>4, <2>5, ServedKept DEF SerialInv
  <1>8. CASE WriteNode
    <2>1. /\ run = [at |-> "writing", of |-> run.of, err |-> run.err, want |-> run.want]
          /\ run.of = Corpus(report) /\ (~run.err => Serving(report) = Corpus(report))
      BY <1>8 DEF WriteNode, SerialInv, Shape, RunShape, RunKnows
    <2>2. /\ layer' = [of |-> run.of, want |-> run.want, have |-> layer.have + 1]
          /\ UNCHANGED <<live, support, status, report>>
      BY <1>8 DEF WriteNode, NodeAdded
    <2>3. run' = [at |-> IF layer'.have = run.want THEN "end" ELSE "writing",
                  of |-> run.of, err |-> run.err, want |-> run.want]
      BY <1>8, <2>1 DEF WriteNode
    <2>4. Serving(report)' = Serving(report) /\ Corpus(report)' = Corpus(report)
      BY <2>2, ServedKept
    <2>5. RunKnows'
      BY <2>1, <2>2, <2>3, <2>4 DEF RunKnows, CleanEndIsComplete
    <2>6. layer'.of \subseteq Serving(report)
      BY <2>1, <2>2 DEF Corpus
    <2> QED
      BY <1>0, <2>2, <2>5, <2>6, ServedKept DEF SerialInv
  <1>9. CASE EndRun \/ Abort
    <2>1. run'.at = "idle" /\ UNCHANGED <<live, support, status, report, layer>>
      BY <1>9 DEF EndRun, Abort, Idle
    <2>2. RunKnows'
      BY <2>1 DEF RunKnows, CleanEndIsComplete
    <2> QED
      BY <1>0, <2>1, <2>2, ServedKept DEF SerialInv
  <1>10. ASSUME NEW s \in Sources, NEW text \in Texts, NEW X \in SUBSET text \ {{}}, Publish(s, text, X)
         PROVE SerialInv'
    <2>1. /\ support' = support \cup Supports(s, text, X) /\ status' = Declared(status, X)
          /\ s \in live /\ UNCHANGED <<live, report, layer, run>>
      BY <1>10 DEF Publish
    <2>2. Serving(report') = Serving(report) /\ Corpus(report') = Corpus(report)
      BY <2>1
    <2>3. \A u \in support' : u.src \in live
      BY <2>1 DEF Supports, SerialInv, GoneIsGone
    <2>4. \A u \in support : status[u.rel] = "active" => status'[u.rel] = "active"
      BY <2>1 DEF Declared, SerialInv, Shape, Support
    <2>5. ServedCitesActive'
      BY <2>1, <2>2, <2>4 DEF SerialInv, ServedCitesActive, Serving
    <2>6. OneReportPerEntity' /\ GoneIsGone' /\ RunKnows'
      BY <2>1, <2>2, <2>3
         DEF SerialInv, OneReportPerEntity, GoneIsGone, RunKnows, CleanEndIsComplete, Serving, Corpus, Bases
    <2> QED
      BY <1>0, <2>5, <2>6 DEF SerialInv
  <1>11. ASSUME NEW s \in Sources, run = Idle, DeleteSource(s) PROVE SerialInv'
    <2>1. /\ live' = live \ {s} /\ support' = Withdrawn(support, s) /\ run' = run
          /\ [status |-> status', report |-> report'] = Rebuilt(support', status, report)
          /\ layer' = Pruned(layer, s, report')
      BY <1>11 DEF DeleteSource, Rebuilt
    <2>2. /\ \A k \in Serving(report') : k.by \subseteq support' /\ \A u \in k.by : status'[u.rel] = "active"
          /\ \A k, l \in Serving(report') : k # l => k.members \cap l.members = {}
      BY <2>1, RebuiltServes
    <2>3. ServedCitesActive' /\ OneReportPerEntity'
      BY <2>2 DEF ServedCitesActive, OneReportPerEntity, Serving
    <2>4. \A u \in support' : u.src \in live'
      BY <2>1 DEF Withdrawn, SerialInv, GoneIsGone
    <2>5. \A k \in Serving(report') : Bases(k) \subseteq live'
      BY <2>2, <2>4 DEF Bases
    <2>6. \A k \in layer'.of : Bases(k) \subseteq live'
      <3>1. CASE layer' = NoLayer
        BY <3>1 DEF NoLayer
      <3>2. CASE layer' # NoLayer
        <4>1. layer' = layer /\ \A k \in layer.of : s \notin Bases(k)
          BY <2>1, <3>2 DEF Pruned
        <4> QED
          BY <2>1, <4>1 DEF SerialInv, GoneIsGone
      <3> QED
        BY <3>1, <3>2
    <2>7. GoneIsGone'
      BY <2>4, <2>5, <2>6 DEF GoneIsGone, Serving, Bases
    <2>8. RunKnows'
      BY <1>11, <2>1 DEF RunKnows, CleanEndIsComplete, Idle
    <2> QED
      BY <1>0, <2>3, <2>7, <2>8 DEF SerialInv
  <1>12. CASE UNCHANGED vars
    <2>1. RunKnows'
      BY <1>12 DEF vars, SerialInv, RunKnows, CleanEndIsComplete, Serving, Corpus
    <2> QED
      BY <1>0, <1>12, <2>1, ServedKept DEF vars, SerialInv
  <1> QED
    BY <1>1, <1>2, <1>3, <1>4, <1>5, <1>6, <1>7, <1>8, <1>9, <1>10, <1>11, <1>12
       DEF SerialNext, RunStep, PublishStep

-----------------------------------------------------------------------------
(* Every reachable state is well typed, whatever overlaps.                 *)
THEOREM TypeCorrect == Spec => []TypeOK
  <1>1. Shape /\ [Next]_vars => Shape'
    BY ShapeStep
  <1> QED
    BY <1>1, InitShape, ShapeIsTypeOK, PTL DEF Spec

(* While no source is deleted in the middle of a clustering, what is served *)
(* cites active relations with supports that still count, an entity is in   *)
(* one served report, and nothing deleted is reported or synthesized.      *)
THEOREM ServesWhatIsFounded == SerialSpec => []ServedIsFounded
  <1>1. SerialInv => ServedIsFounded
    BY ShapeIsTypeOK DEF SerialInv, ServedIsFounded
  <1> QED
    BY <1>1, InitSerial, SerialStep, PTL DEF SerialSpec

(* A rebuild right after a rebuild changes nothing, and a clustering that   *)
(* ends without an error leaves nothing to do.                             *)
THEOREM ClusteringSettles == SerialSpec => []RebuildsSettle
  <1>1. SerialInv => RebuildsSettle
    BY RebuiltAgain DEF SerialInv, RunKnows, RebuildsSettle, RebuildIsNoop
  <1> QED
    BY <1>1, InitSerial, SerialStep, PTL DEF SerialSpec

-----------------------------------------------------------------------------
(* Merges of entities *)

MergeGraphs == [ends : [Moving -> [Merge!Fields -> Merged]], redirect : [Merged -> Merged \cup {None}]]

Proposals ==
    {p \in [origin : Merged, survivor : Merged, decision : {"proposed", "accepted", "reversed"}] :
        p.origin # p.survivor}

(* A decision that is there can be told from one that is not.              *)
NoneIsNoProposal == None \notin Proposals

Recordings == SUBSET (Moving \X Merge!Fields)

Acceptances == [decision : Decisions, before : MergeGraphs]

MergeShape ==
    /\ Merge!Graph \in MergeGraphs
    /\ proposal \in [Decisions -> Proposals \cup {None}]
    /\ lineage \in [Decisions -> Recordings \cup {None}]
    /\ \A d \in Decisions : lineage[d] # None => proposal[d] # None
    /\ history \in [done : Seq(Acceptances), tidy : BOOLEAN, back : BOOLEAN]

(* No relation of a graph ends at an entity that is merged away in it.     *)
Canonical(g) == \A r \in Moving, f \in Merge!Fields : g.redirect[g.ends[r][f]] = None

(* Graph g is b after the merge that is proposed as p, and the recorded    *)
(* moves tell b from g.                                                    *)
Merges(p, moves, b, g) ==
    /\ p # None /\ p.decision = "accepted"
    /\ b.redirect[p.origin] = None
    /\ \A r \in Moving, f \in Merge!Fields : <<r, f>> \in moves <=> b.ends[r][f] = p.origin
    /\ \A r \in Moving, f \in Merge!Fields :
          g.ends[r][f] = IF b.ends[r][f] = p.origin THEN p.survivor ELSE b.ends[r][f]
    /\ \A e \in Merged : g.redirect[e] = IF e = p.origin THEN p.survivor ELSE b.redirect[e]

(* The graph after the k-th of the acceptances that lead to graph g.       *)
After(done, g, k) == IF k = Len(done) THEN g ELSE done[k + 1].before

(* The acceptances that are not reversed lead, one by one, to the graph.   *)
Leads(props, moves, done, g) ==
    /\ \A k \in 1..Len(done) :
          Merges(props[done[k].decision], moves[done[k].decision], done[k].before, After(done, g, k))
    /\ \A j, k \in 1..Len(done) : j # k => done[j].decision # done[k].decision
    /\ \A k \in 1..Len(done) : Canonical(done[k].before)
    /\ Canonical(g)

Tidy == history.back /\ Leads(proposal, lineage, history.done, Merge!Graph)

MergeInv == MergeShape /\ (history.tidy => Tidy)

-----------------------------------------------------------------------------
LEMMA DoneIs ==
  ASSUME MergeShape
  PROVE  /\ history.done \in Seq(Acceptances) /\ Len(history.done) \in Nat
         /\ \A k \in 1..Len(history.done) : /\ history.done[k] \in Acceptances
                                            /\ history.done[k].decision \in Decisions
                                            /\ history.done[k].before \in MergeGraphs
  <1>1. history.done \in Seq(Acceptances)
    BY DEF MergeShape
  <1>2. \A k \in 1..Len(history.done) : history.done[k] \in Acceptances
    BY <1>1
  <1> QED
    BY <1>1, <1>2 DEF Acceptances

LEMMA FrontIs ==
  ASSUME NEW S, NEW s \in Seq(S), s # <<>>
  PROVE  /\ Merge!Front(s) \in Seq(S) /\ Len(Merge!Front(s)) = Len(s) - 1
         /\ \A k \in 1..(Len(s) - 1) : Merge!Front(s)[k] = s[k]
  <1>1. Len(s) \in Nat \ {0} /\ Merge!Front(s) = SubSeq(s, 1, Len(s) - 1)
    BY DEF Merge!Front
  <1>2. \A k \in 1..(Len(s) - 1) : s[k] \in S
    BY <1>1
  <1> DEFINE m == Len(s) - 1
  <1>3. m \in Nat
    BY <1>1
  <1> HIDE DEF m
  <1>4. /\ SubSeq(s, 1, m) \in Seq(S) /\ Len(SubSeq(s, 1, m)) = m
        /\ \A k \in 1..m : SubSeq(s, 1, m)[k] = s[k]
    <2>1. m - 1 + 1 = m /\ (~ 1 <= m => m = 0) /\ \A k \in 1..m : 1 + k - 1 = k
      BY <1>3
    <2> QED
      BY <1>2, <1>3, <2>1, SubSeqProperties DEF m
  <1> QED
    BY <1>1, <1>4 DEF m

LEMMA MergeInit == Merge!Init => MergeInv
  <1> SUFFICES ASSUME Merge!Init PROVE MergeInv
    OBVIOUS
  <1>1. history = [done |-> <<>>, tidy |-> TRUE, back |-> TRUE] /\ Len(history.done) = 0
    BY DEF Merge!Init
  <1>2. Merge!Graph \in MergeGraphs
    BY DEF Merge!Init, Merge!Graph, MergeGraphs
  <1>3. history \in [done : Seq(Acceptances), tidy : BOOLEAN, back : BOOLEAN]
    BY <1>1
  <1>4. /\ proposal \in [Decisions -> Proposals \cup {None}]
        /\ lineage \in [Decisions -> Recordings \cup {None}]
        /\ \A d \in Decisions : lineage[d] = None
    BY DEF Merge!Init
  <1>5. Canonical(Merge!Graph)
    BY DEF Merge!Init, Canonical, Merge!Graph
  <1> QED
    BY <1>1, <1>2, <1>3, <1>4, <1>5 DEF MergeInv, MergeShape, Tidy, Leads

(* A proposal concerns a decision that merged nothing.                     *)
LEMMA ProposeKeeps ==
  ASSUME NoneIsNoProposal, MergeInv, NEW d \in Decisions, NEW origin \in Merged, NEW survivor \in Merged,
         Merge!Propose(d, origin, survivor)
  PROVE  MergeInv'
  <1> DEFINE p == [origin |-> origin, survivor |-> survivor, decision |-> "proposed"]
             done == history.done
  <1>1. p \in Proposals
    BY DEF Merge!Propose, Proposals
  <1>2. proposal' = [proposal EXCEPT ![d] = p] /\ proposal[d] = None /\ Merge!Graph' = Merge!Graph
    BY DEF Merge!Propose, Merge!Graph
  <1>3. MergeShape'
    BY <1>1, <1>2 DEF Merge!Propose, MergeInv, MergeShape, NoneIsNoProposal
  <1>4. ASSUME history.tidy PROVE Leads(proposal', lineage, done, Merge!Graph)
    <2>1. Leads(proposal, lineage, done, Merge!Graph)
      BY <1>4 DEF MergeInv, Tidy
    <2>2. \A k \in 1..Len(done) : done[k].decision \in Decisions \ {d}
      BY <2>1, <1>2, DoneIs DEF Leads, Merges, MergeInv
    <2>3. \A k \in 1..Len(done) : proposal'[done[k].decision] = proposal[done[k].decision]
      BY <2>2, <1>2 DEF MergeInv, MergeShape
    <2> QED
      BY <2>1, <2>3 DEF Leads
  <1> QED
    BY <1>2, <1>3, <1>4 DEF MergeInv, Tidy, Merge!Propose

(* An acceptance with entities that are not merged away is one more merge. *)
LEMMA AcceptKeeps ==
  ASSUME NoneIsNoProposal, MergeInv, NEW d \in Decisions, Merge!AcceptMerge(d)
  PROVE  MergeInv'
  <1> DEFINE p == proposal[d]
             x == [decision |-> d, before |-> Merge!Graph]
             n == Len(history.done)
  <1>1. p \in Proposals /\ p # None
    BY DEF Merge!AcceptMerge, MergeInv, MergeShape
  <1>2. /\ \A r \in Moving, f \in Merge!Fields : <<r, f>> \in Merge!Moves(p.origin) <=> ends[r][f] = p.origin
        /\ Merge!Moves(p.origin) \in Recordings
    BY DEF Merge!Moves, Recordings
  <1>3. /\ ends' = Merge!Moved(Merge!Moves(p.origin), p.survivor)
        /\ redirect' = [redirect EXCEPT ![p.origin] = p.survivor]
        /\ lineage' = [lineage EXCEPT ![d] = Merge!Moves(p.origin)]
        /\ proposal' = [proposal EXCEPT ![d].decision = "accepted"]
        /\ history' = [done |-> Append(history.done, x),
                       tidy |-> history.tidy /\ p.decision # "accepted"
                                /\ {redirect[p.origin], redirect[p.survivor]} = {None},
                       back |-> TRUE]
    BY DEF Merge!AcceptMerge, Merge!Recorded
  <1>4. /\ \A r \in Moving, f \in Merge!Fields :
              ends'[r][f] = IF ends[r][f] = p.origin THEN p.survivor ELSE ends[r][f]
        /\ ends' \in [Moving -> [Merge!Fields -> Merged]]
    BY <1>1, <1>2, <1>3 DEF Merge!Moved, MergeInv, MergeShape, Merge!Graph, MergeGraphs, Proposals
  <1>5. /\ \A e \in Merged : redirect'[e] = IF e = p.origin THEN p.survivor ELSE redirect[e]
        /\ redirect' \in [Merged -> Merged \cup {None}]
    BY <1>1, <1>3 DEF MergeInv, MergeShape, Merge!Graph, MergeGraphs, Proposals
  <1>6. /\ proposal'[d] \in Proposals
        /\ proposal'[d].decision = "accepted" /\ proposal'[d].origin = p.origin /\ proposal'[d].survivor = p.survivor
        /\ proposal' \in [Decisions -> Proposals \cup {None}]
        /\ \A c \in Decisions \ {d} : proposal'[c] = proposal[c] /\ lineage'[c] = lineage[c]
        /\ lineage'[d] = Merge!Moves(p.origin)
        /\ lineage' \in [Decisions -> Recordings \cup {None}]
    BY <1>1, <1>2, <1>3 DEF MergeInv, MergeShape, Proposals
  <1>7. /\ x \in Acceptances /\ history.done \in Seq(Acceptances)
        /\ history'.done = Append(history.done, x)
        /\ history' \in [done : Seq(Acceptances), tidy : BOOLEAN, back : BOOLEAN]
    <2>1. x \in Acceptances /\ history.done \in Seq(Acceptances) /\ history.tidy \in BOOLEAN
      BY DEF Acceptances, MergeInv, MergeShape
    <2>2. Append(history.done, x) \in Seq(Acceptances)
      BY <2>1
    <2> QED
      BY <2>1, <2>2, <1>3
  <1>8. MergeShape'
    BY <1>4, <1>5, <1>6, <1>7 DEF MergeShape, Merge!Graph, MergeGraphs, MergeInv, NoneIsNoProposal
  <1>9. ASSUME history'.tidy PROVE Leads(proposal', lineage', history'.done, Merge!Graph')
    <2>1. /\ history.tidy /\ p.decision # "accepted" /\ redirect[p.origin] = None /\ redirect[p.survivor] = None
          /\ Leads(proposal, lineage, history.done, Merge!Graph)
      BY <1>3, <1>9 DEF MergeInv, Tidy
    <2>2. /\ n \in Nat /\ Len(history'.done) = n + 1
          /\ \A k \in 1..n : history'.done[k] = history.done[k]
          /\ history'.done[n + 1] = x
      BY <1>7
    <2>3. \A k \in 1..n : history.done[k].decision \in Decisions \ {d}
      <3>1. MergeShape
        BY DEF MergeInv
      <3>2. ASSUME NEW k \in 1..n
            PROVE  history.done[k].decision \in Decisions /\ proposal[history.done[k].decision].decision = "accepted"
        BY <2>1, <3>1, DoneIs DEF Leads, Merges
      <3> QED
        BY <2>1, <3>2
    <2>4. \A k \in 1..n : After(history'.done, Merge!Graph', k) = After(history.done, Merge!Graph, k)
      BY SMTT(30), <2>2 DEF After
    <2>5. ASSUME NEW k \in 1..n
          PROVE  Merges(proposal'[history'.done[k].decision], lineage'[history'.done[k].decision],
                        history'.done[k].before, After(history'.done, Merge!Graph', k))
      BY <2>1, <2>2, <2>3, <2>4, <1>6 DEF Leads
    <2>6. Merges(proposal'[d], lineage'[d], Merge!Graph, Merge!Graph')
      <3>1. proposal'[d] # None
        BY <1>6 DEF NoneIsNoProposal
      <3>2. Merge!Graph.ends = ends /\ Merge!Graph.redirect = redirect /\ Merge!Graph'.ends = ends' /\ Merge!Graph'.redirect = redirect'
        BY DEF Merge!Graph
      <3>3. \A r \in Moving, f \in Merge!Fields : <<r, f>> \in lineage'[d] <=> Merge!Graph.ends[r][f] = p.origin
        BY <3>2, <1>2, <1>6
      <3> QED
        BY <3>1, <3>2, <3>3, <2>1, <1>4, <1>5, <1>6 DEF Merges
    <2>7. After(history'.done, Merge!Graph', n + 1) = Merge!Graph'
      BY <2>2 DEF After
    <2>8. ASSUME NEW k \in 1..(n + 1)
          PROVE  Merges(proposal'[history'.done[k].decision], lineage'[history'.done[k].decision],
                        history'.done[k].before, After(history'.done, Merge!Graph', k))
      <3>1. CASE k = n + 1
        BY <3>1, <2>2, <2>6, <2>7
      <3>2. CASE k \in 1..n
        BY <3>2, <2>5
      <3> QED
        BY <3>1, <3>2, <2>2
    <2>9. \A j, k \in 1..(n + 1) : j # k => history'.done[j].decision # history'.done[k].decision
      <3>1. \A k \in 1..n : history'.done[k].decision # history'.done[n + 1].decision
        BY <2>2, <2>3
      <3>2. \A j, k \in 1..n : j # k => history'.done[j].decision # history'.done[k].decision
        <4>1. \A j, k \in 1..n : j # k => history.done[j].decision # history.done[k].decision
          BY <2>1 DEF Leads
        <4> QED
          BY <4>1, <2>2
      <3>3. ASSUME NEW j \in 1..(n + 1), NEW k \in 1..(n + 1), j # k
            PROVE  history'.done[j].decision # history'.done[k].decision
        <4>1. CASE j = n + 1
          <5>1. k \in 1..n
            BY <3>3, <4>1, <2>2
          <5> QED
            BY <3>1, <4>1, <5>1
        <4>2. CASE k = n + 1
          <5>1. j \in 1..n
            BY <3>3, <4>2, <2>2
          <5> QED
            BY <3>1, <4>2, <5>1
        <4>3. CASE j # n + 1 /\ k # n + 1
          <5>1. j \in 1..n /\ k \in 1..n
            BY <3>3, <4>3, <2>2
          <5> QED
            BY <3>2, <3>3, <5>1
        <4> QED
          BY <4>1, <4>2, <4>3
      <3> QED
        BY <3>3
    <2>10. \A k \in 1..(n + 1) : Canonical(history'.done[k].before)
      <3>1. Canonical(Merge!Graph) /\ \A k \in 1..n : Canonical(history.done[k].before)
        BY <2>1, <2>2 DEF Leads
      <3>2. history'.done[n + 1].before = Merge!Graph
        BY <2>2
      <3>3. ASSUME NEW k \in 1..(n + 1) PROVE Canonical(history'.done[k].before)
        <4>1. CASE k = n + 1
          BY <4>1, <3>1, <3>2
        <4>2. CASE k \in 1..n
          BY <4>2, <3>1, <2>2
        <4> QED
          BY <4>1, <4>2, <2>2
      <3> QED
        BY <3>3
    <2>11. Canonical(Merge!Graph')
      <3>1. \A r \in Moving, f \in Merge!Fields : redirect[ends[r][f]] = None /\ ends[r][f] \in Merged
        BY SMTT(40), <2>1 DEF Leads, Canonical, Merge!Graph, MergeInv, MergeShape, MergeGraphs
      <3>2. p.survivor \in Merged /\ p.survivor # p.origin
        BY <1>1 DEF Proposals
      <3> QED
        BY <3>1, <3>2, <2>1, <1>4, <1>5 DEF Canonical, Merge!Graph
    <2> QED
      BY <2>2, <2>8, <2>9, <2>10, <2>11 DEF Leads
  <1> QED
    BY <1>3, <1>8, <1>9 DEF MergeInv, Tidy

(* A reversal of the latest acceptance gives its graph back; any other is  *)
(* not tidy.                                                               *)
LEMMA ReverseKeeps ==
  ASSUME NoneIsNoProposal, MergeInv, NEW d \in Decisions, Merge!ReverseMerge(d)
  PROVE  MergeInv'
  <1> DEFINE p == proposal[d]
             done == history.done
             n == Len(done)
             latest == done # <<>> /\ Merge!Last(done).decision = d
             ends1 == Merge!Moved(lineage[d], p.origin)
             redirect1 == [redirect EXCEPT ![p.origin] = None]
  <1>1. p \in Proposals /\ p # None
    BY DEF Merge!ReverseMerge, MergeInv, MergeShape
  <1>2. /\ ends' = ends1 /\ redirect' = redirect1
        /\ proposal' = [proposal EXCEPT ![d].decision = "reversed"]
        /\ lineage' = lineage
        /\ history' = IF latest
                      THEN [history EXCEPT !.done = Merge!Front(@),
                              !.back = [ends |-> ends1, redirect |-> redirect1] = Merge!Last(done).before]
                      ELSE [history EXCEPT !.tidy = FALSE, !.back = TRUE]
    BY DEF Merge!ReverseMerge
  <1>3. history \in [done : Seq(Acceptances), tidy : BOOLEAN, back : BOOLEAN]
    BY DEF MergeInv, MergeShape
  <1>4. Merge!Graph' \in MergeGraphs
    BY <1>1, <1>2 DEF Merge!Moved, MergeInv, MergeShape, Merge!Graph, MergeGraphs, Proposals
  <1>5. /\ proposal' \in [Decisions -> Proposals \cup {None}]
        /\ proposal'[d] \in Proposals
        /\ \A c \in Decisions \ {d} : proposal'[c] = proposal[c]
    BY <1>1, <1>2 DEF MergeInv, MergeShape, Proposals
  <1>6. done \in Seq(Acceptances) /\ n \in Nat /\ (done # <<>> => n > 0)
    BY <1>3
  <1>7. latest => /\ Merge!Front(done) \in Seq(Acceptances) /\ Len(Merge!Front(done)) = n - 1
                  /\ \A k \in 1..(n - 1) : Merge!Front(done)[k] = done[k]
    BY <1>6, FrontIs
  <1>8. history' \in [done : Seq(Acceptances), tidy : BOOLEAN, back : BOOLEAN]
    BY <1>2, <1>3, <1>7
  <1>9. MergeShape'
    BY <1>2, <1>4, <1>5, <1>8 DEF MergeShape, MergeInv, NoneIsNoProposal
  <1>10. ASSUME history'.tidy
         PROVE  history'.back /\ Leads(proposal', lineage', history'.done, Merge!Graph')
    <2>1. latest /\ history.tidy
      BY <1>2, <1>3, <1>10
    <2>2. Leads(proposal, lineage, done, Merge!Graph) /\ n > 0 /\ done[n].decision = d
      BY <2>1, <1>6 DEF MergeInv, Tidy, Merge!Last
    <2>3. /\ history'.done = Merge!Front(done) /\ Len(history'.done) = n - 1
          /\ history'.back = ([ends |-> ends1, redirect |-> redirect1] = done[n].before)
          /\ \A k \in 1..(n - 1) : history'.done[k] = done[k]
      BY <2>1, <1>2, <1>3, <1>7 DEF Merge!Last
    <2>4. \A k \in 1..n : done[k].decision \in Decisions /\ done[k].before \in MergeGraphs
      BY DoneIs DEF MergeInv
    <2> DEFINE b == done[n].before
    <2>5. b \in MergeGraphs
      BY <2>2, <2>4, <1>6
    <2>6. Merges(p, lineage[d], b, Merge!Graph)
      BY <2>2, <1>6 DEF Leads, After
    <2>7. ends1 = b.ends
      <3>1. b.ends \in [Moving -> [Merge!Fields -> Merged]]
        BY <2>5 DEF MergeGraphs
      <3>2. ASSUME NEW r \in Moving, NEW f \in Merge!Fields PROVE ends1[r][f] = b.ends[r][f]
        BY <2>6, <3>1 DEF Merges, Merge!Moved, Merge!Graph
      <3>3. ends1 = [r \in Moving |-> [f \in Merge!Fields |-> ends1[r][f]]]
        BY DEF Merge!Moved
      <3>4. b.ends = [r \in Moving |-> [f \in Merge!Fields |-> b.ends[r][f]]]
        BY <3>1
      <3> HIDE DEF b, ends1
      <3> QED
        BY <3>2, <3>3, <3>4
    <2>8. redirect1 = b.redirect
      <3>1. b.redirect \in [Merged -> Merged \cup {None}]
        BY <2>5 DEF MergeGraphs
      <3>2. redirect \in [Merged -> Merged \cup {None}]
        BY DEF MergeInv, MergeShape, Merge!Graph, MergeGraphs
      <3> QED
        BY ZenonT(60), <3>1, <3>2, <2>6 DEF Merges, Merge!Graph
    <2>9. Merge!Graph' = b /\ history'.back
      BY <2>3, <2>5, <2>7, <2>8, <1>2 DEF Merge!Graph, MergeGraphs
    <2>10. \A k \in 1..(n - 1) : /\ After(history'.done, Merge!Graph', k) = After(done, Merge!Graph, k)
                                 /\ k \in 1..n /\ done[k].decision # d
      BY SMTT(30), <2>2, <2>3, <2>9, <1>6 DEF After, Leads
    <2>11. ASSUME NEW k \in 1..(n - 1)
           PROVE  Merges(proposal'[history'.done[k].decision], lineage'[history'.done[k].decision],
                         history'.done[k].before, After(history'.done, Merge!Graph', k))
      <3>1. Merges(proposal[done[k].decision], lineage[done[k].decision], done[k].before, After(done, Merge!Graph, k))
        BY <2>2, <2>10 DEF Leads
      <3>2. proposal'[done[k].decision] = proposal[done[k].decision]
        BY <2>4, <2>10, <1>5
      <3> QED
        BY <3>1, <3>2, <2>3, <2>10, <1>2
    <2>12. \A j, k \in 1..(n - 1) : j # k => history'.done[j].decision # history'.done[k].decision
      BY ZenonT(60), <2>2, <2>3, <2>10 DEF Leads
    <2>13. \A k \in 1..(n - 1) : Canonical(history'.done[k].before)
      BY <2>2, <2>3, <2>10 DEF Leads
    <2>14. Canonical(Merge!Graph')
      BY <2>2, <2>9, <1>6 DEF Leads
    <2> QED
      BY <2>3, <2>9, <2>11, <2>12, <2>13, <2>14 DEF Leads
  <1> QED
    BY <1>9, <1>10 DEF MergeInv, Tidy

-----------------------------------------------------------------------------
(* Merges that are undone latest first give the graphs before them back,   *)
(* and leave no relation at an entity that is merged away, whatever is     *)
(* merged with what: what reverse_entity_merge replays is what             *)
(* accept_entity_merge moved.                                              *)
THEOREM MergesAreUndone == ASSUME NoneIsNoProposal PROVE Merge!Spec => []MergesUndo
  <1>1. Merge!Init => MergeInv
    BY MergeInit
  <1>2. MergeInv /\ [Merge!Next]_Merge!vars => MergeInv'
    <2> SUFFICES ASSUME MergeInv, [Merge!Next]_Merge!vars PROVE MergeInv'
      OBVIOUS
    <2>1. CASE \E d \in Decisions, origin, survivor \in Merged : Merge!Propose(d, origin, survivor)
      BY <2>1, ProposeKeeps
    <2>2. CASE \E d \in Decisions : Merge!AcceptMerge(d)
      BY <2>2, AcceptKeeps
    <2>3. CASE \E d \in Decisions : Merge!ReverseMerge(d)
      BY <2>3, ReverseKeeps
    <2>4. CASE UNCHANGED Merge!vars
      BY <2>4 DEF Merge!vars, MergeInv, MergeShape, Tidy, Merge!Graph
    <2> QED
      BY <2>1, <2>2, <2>3, <2>4 DEF Merge!Next
  <1>3. MergeInv => MergesUndo
    BY DEF MergeInv, Tidy, Leads, MergesUndo, Merge!MergesUndo, Merge!UndoneInOrder, Merge!EndsAreCanonical, Canonical, Merge!Graph
  <1> QED
    BY <1>1, <1>2, <1>3, PTL DEF Merge!Spec

-----------------------------------------------------------------------------
(* Identities across devices *)

RanksAssumption == Rank \in [Devices -> Nat] /\ Tick \in Nat /\ MaxWrites \in Nat

(* Tables with keys in K and rows in R.                                    *)
TablesOf(K, R) == UNION {[D -> R] : D \in SUBSET K}

RelationRow == [ends : Alike!Ends, rev : Nat]
Revision == [rev : Nat]
Identities == TablesOf(Alike!Names, Alike!Names \X Devices)
RelationRows == TablesOf(Devices, RelationRow)
Stamped == TablesOf(Devices \X Units, Revision)
Snapshots == [ids : Identities, rels : RelationRows, supports : Stamped, tombs : Stamped]

(* A device has at most one row of the relation, between its own entities. *)
Coherent(s) ==
    /\ s \in Snapshots
    /\ \A n \in DOMAIN s.ids : s.ids[n][1] = n
    /\ \A r \in DOMAIN s.rels : DOMAIN s.ids = Alike!Names /\ s.rels[r].ends = Alike!EndsOf(s.ids)
    /\ \A r, q \in DOMAIN s.rels : r = q
    /\ \A key \in DOMAIN s.supports : key[1] \in DOMAIN s.rels
    /\ DOMAIN s.supports \cap DOMAIN s.tombs = {}

MeetInv ==
    /\ base \in [Devices -> Snapshots] /\ \A d \in Devices : Coherent(base[d])
    /\ file \in [Devices -> Snapshots] /\ \A d \in Devices : Coherent(file[d])
    /\ writes \in 0..MaxWrites

-----------------------------------------------------------------------------
LEMMA TableOf ==
  ASSUME NEW K, NEW R, NEW t
  PROVE  t \in TablesOf(K, R) <=>
            /\ t = [x \in DOMAIN t |-> t[x]]
            /\ DOMAIN t \subseteq K
            /\ \A x \in DOMAIN t : t[x] \in R
<1>1. t \in TablesOf(K, R) => t = [x \in DOMAIN t |-> t[x]] /\ DOMAIN t \subseteq K /\ \A x \in DOMAIN t : t[x] \in R
  BY DEF TablesOf
<1>2. ASSUME t = [x \in DOMAIN t |-> t[x]], DOMAIN t \subseteq K, \A x \in DOMAIN t : t[x] \in R
      PROVE  t \in TablesOf(K, R)
  <2>1. t \in [DOMAIN t -> R]
    BY <1>2
  <2> QED
    BY <1>2, <2>1 DEF TablesOf
<1> QED
  BY <1>1, <1>2

LEMMA TableMade ==
  ASSUME NEW K, NEW R, NEW D, D \subseteq K, NEW t, t \in [D -> R]
  PROVE  t \in TablesOf(K, R)
BY DEF TablesOf

(* The rows of f lie over those of t.                                      *)
Covers(o, f, t) ==
    /\ DOMAIN o = DOMAIN f \cup DOMAIN t
    /\ \A x \in DOMAIN f : o[x] = f[x]
    /\ \A x \in DOMAIN t \ DOMAIN f : o[x] = t[x]

LEMMA OverMade ==
  ASSUME NEW K, NEW R, NEW f \in TablesOf(K, R), NEW t \in TablesOf(K, R)
  PROVE  Alike!Over(f, t) \in TablesOf(K, R) /\ Covers(Alike!Over(f, t), f, t)
<1>1. /\ DOMAIN f \subseteq K /\ \A x \in DOMAIN f : f[x] \in R
      /\ DOMAIN t \subseteq K /\ \A x \in DOMAIN t : t[x] \in R
  BY TableOf
<1>2. PICK o : o = Alike!Over(f, t)
  OBVIOUS
<1>3. o = [x \in DOMAIN f \cup DOMAIN t |-> IF x \in DOMAIN f THEN f[x] ELSE t[x]]
  BY <1>2 DEF Alike!Over
<1>4. o \in [DOMAIN f \cup DOMAIN t -> R]
  BY <1>1, <1>3
<1>5. o \in TablesOf(K, R)
  BY <1>1, <1>4, TableMade
<1> QED
  BY <1>2, <1>3, <1>5 DEF Covers

(* The rows of t whose keys are in D.                                      *)
Cuts(o, t, D) == DOMAIN o = D /\ \A x \in D : o[x] = t[x]

LEMMA WithoutMade ==
  ASSUME NEW K, NEW R, NEW t \in TablesOf(K, R), NEW S
  PROVE  Alike!Without(t, S) \in TablesOf(K, R) /\ Cuts(Alike!Without(t, S), t, DOMAIN t \ S)
<1>1. DOMAIN t \subseteq K /\ \A x \in DOMAIN t : t[x] \in R
  BY TableOf
<1>2. PICK o : o = Alike!Without(t, S)
  OBVIOUS
<1>3. o = [x \in DOMAIN t \ S |-> t[x]]
  BY <1>2 DEF Alike!Without, Alike!Restrict
<1>4. o \in [DOMAIN t \ S -> R]
  BY <1>1, <1>3
<1>5. o \in TablesOf(K, R)
  BY <1>1, <1>4, TableMade
<1> QED
  BY <1>2, <1>3, <1>5 DEF Cuts

LEMMA RestrictMade ==
  ASSUME NEW K, NEW R, NEW t \in TablesOf(K, R), NEW S, S \subseteq DOMAIN t
  PROVE  Alike!Restrict(t, S) \in TablesOf(K, R) /\ Cuts(Alike!Restrict(t, S), t, S)
<1>1. DOMAIN t \subseteq K /\ \A x \in DOMAIN t : t[x] \in R
  BY TableOf
<1>2. PICK o : o = Alike!Restrict(t, S)
  OBVIOUS
<1>3. o = [x \in S |-> t[x]]
  BY <1>2 DEF Alike!Restrict
<1>4. o \in [S -> R] /\ S \subseteq K
  BY <1>1, <1>3
<1>5. o \in TablesOf(K, R)
  BY <1>4, TableMade
<1> QED
  BY <1>2, <1>3, <1>5 DEF Cuts

(* Whatever is newer, a key of either table is in the result.              *)
Unites(o, mine, theirs) ==
    /\ DOMAIN o = DOMAIN mine \cup DOMAIN theirs
    /\ \A x \in DOMAIN o : (x \in DOMAIN mine /\ o[x] = mine[x]) \/ (x \in DOMAIN theirs /\ o[x] = theirs[x])

LEMMA NewerMade ==
  ASSUME NEW K, NEW R, NEW mine \in TablesOf(K, R), NEW theirs \in TablesOf(K, R)
  PROVE  Alike!Newer(mine, theirs) \in TablesOf(K, R) /\ Unites(Alike!Newer(mine, theirs), mine, theirs)
<1>1. PICK S : S = Alike!Taken(mine, theirs)
  OBVIOUS
<1>2. S \subseteq DOMAIN theirs /\ \A x \in DOMAIN theirs \ S : x \in DOMAIN mine
  BY <1>1 DEF Alike!Taken
<1>3. PICK t : t = Alike!Restrict(theirs, S)
  OBVIOUS
<1>4. t \in TablesOf(K, R) /\ DOMAIN t = S /\ \A x \in S : t[x] = theirs[x]
  BY <1>2, <1>3, RestrictMade DEF Cuts
<1>5. PICK o : o = Alike!Over(t, mine)
  OBVIOUS
<1>6. o \in TablesOf(K, R) /\ Covers(o, t, mine)
  BY <1>4, <1>5, OverMade
<1>7. o = Alike!Newer(mine, theirs)
  BY <1>1, <1>3, <1>5 DEF Alike!Newer
<1> QED
  BY <1>2, <1>4, <1>6, <1>7 DEF Covers, Unites

(* The newest of at most two revisions.                                    *)
LEMMA NewestOfTwo ==
  ASSUME NEW x \in Nat, NEW y \in Nat, NEW S, S \subseteq {x, y}
  PROVE  Alike!Newest(S) \in Nat /\ \A z \in S : z <= Alike!Newest(S)
<1>1. PICK T : T = S \cup {0}
  OBVIOUS
<1>2. T \subseteq Nat /\ \E m \in T : \A z \in T : m >= z
  <2>1. T \subseteq {x, y, 0} /\ 0 \in T
    BY <1>1
  <2>2. CASE x \in T /\ (y \in T => x >= y)
    BY <2>1, <2>2
  <2>3. CASE y \in T /\ (x \in T => y >= x)
    BY <2>1, <2>3
  <2>4. CASE x \notin T /\ y \notin T
    BY <2>1, <2>4
  <2> QED
    BY <2>1, <2>2, <2>3, <2>4
<1>3. PICK m : m = Alike!Newest(S)
  OBVIOUS
<1>4. m = CHOOSE a \in T : \A z \in T : a >= z
  BY <1>1, <1>3 DEF Alike!Newest, Alike!Max
<1>5. m \in T /\ \A z \in T : m >= z
  BY <1>2, <1>4
<1> QED
  BY <1>1, <1>2, <1>3, <1>5

LEMMA SuccessorIsNat ==
  ASSUME NEW x \in Nat, NEW S, S \subseteq {x}, NEW now \in Nat
  PROVE  Alike!Successor(now, S) \in Nat
<1>1. PICK n \in Nat : n = Alike!Newest(S)
  BY NewestOfTwo
<1> QED
  BY <1>1 DEF Alike!Successor

-----------------------------------------------------------------------------
(* Identities *)

LEMMA CoherentParts ==
  ASSUME NEW s, Coherent(s)
  PROVE  /\ DOMAIN s.ids \subseteq Alike!Names
         /\ \A n \in DOMAIN s.ids : s.ids[n] \in Alike!Names \X Devices /\ s.ids[n][1] = n
         /\ DOMAIN s.rels \subseteq Devices
         /\ \A r \in DOMAIN s.rels : s.rels[r] \in RelationRow
         /\ DOMAIN s.supports \subseteq Devices \X Units
         /\ \A key \in DOMAIN s.supports : s.supports[key] \in Revision
         /\ DOMAIN s.tombs \subseteq Devices \X Units
         /\ \A key \in DOMAIN s.tombs : s.tombs[key] \in Revision
<1>1. s.ids \in Identities /\ s.rels \in RelationRows /\ s.supports \in Stamped /\ s.tombs \in Stamped
  BY DEF Coherent, Snapshots
<1>2. DOMAIN s.ids \subseteq Alike!Names /\ \A n \in DOMAIN s.ids : s.ids[n] \in Alike!Names \X Devices
  BY <1>1, TableOf DEF Identities
<1>3. DOMAIN s.rels \subseteq Devices /\ \A r \in DOMAIN s.rels : s.rels[r] \in RelationRow
  BY <1>1, TableOf DEF RelationRows
<1>4. DOMAIN s.supports \subseteq Devices \X Units /\ \A key \in DOMAIN s.supports : s.supports[key] \in Revision
  BY <1>1, TableOf DEF Stamped
<1>5. DOMAIN s.tombs \subseteq Devices \X Units /\ \A key \in DOMAIN s.tombs : s.tombs[key] \in Revision
  BY <1>1, TableOf DEF Stamped
<1>6. \A n \in DOMAIN s.ids : s.ids[n][1] = n
  BY DEF Coherent
<1> QED
  BY <1>2, <1>3, <1>4, <1>5, <1>6

(* What a map makes of the ids of this device and of the peer.             *)
Maps(E, mine, theirs) ==
    /\ \A n \in DOMAIN theirs \cap DOMAIN mine : Alike!Image(E, theirs[n]) = mine[n]
    /\ \A n \in DOMAIN theirs \ DOMAIN mine : Alike!Image(E, theirs[n]) = theirs[n]
    /\ \A n \in DOMAIN mine : Alike!Image(E, mine[n]) = mine[n]

LEMMA EntityMapIs ==
  ASSUME NEW s, NEW f, Coherent(s), Coherent(f)
  PROVE  /\ Maps(Alike!EntityMap(s, f), s.ids, f.ids)
         /\ \A n \in DOMAIN f.ids \cap DOMAIN s.ids : f.ids[n] # s.ids[n] => Alike!EntityMap(s, f) # <<>>
<1>1. PICK met : met = {n \in DOMAIN f.ids \cap DOMAIN s.ids : f.ids[n] # s.ids[n]}
  OBVIOUS
<1>2. PICK E : E = Alike!EntityMap(s, f)
  OBVIOUS
<1>3. E = [id \in {f.ids[n] : n \in met} |-> s.ids[CHOOSE n \in met : f.ids[n] = id]]
  BY <1>1, <1>2 DEF Alike!EntityMap
<1>4. (\A n \in DOMAIN s.ids : s.ids[n][1] = n) /\ (\A n \in DOMAIN f.ids : f.ids[n][1] = n)
  BY DEF Coherent
<1>5. ASSUME NEW n \in met PROVE f.ids[n] \in DOMAIN E /\ E[f.ids[n]] = s.ids[n]
  <2>1. PICK m : m = CHOOSE k \in met : f.ids[k] = f.ids[n]
    OBVIOUS
  <2>2. m \in met /\ f.ids[m] = f.ids[n]
    BY <2>1
  <2>3. m = n
    BY <1>1, <1>4, <2>2
  <2> QED
    BY <1>3, <2>1, <2>3
<1>6. ASSUME NEW n, NEW id, id[1] = n, id \in DOMAIN E PROVE n \in met /\ id = f.ids[n]
  BY <1>1, <1>3, <1>4, <1>6
<1>7. \A n \in DOMAIN f.ids \cap DOMAIN s.ids : Alike!Image(E, f.ids[n]) = s.ids[n]
  BY <1>1, <1>4, <1>5, <1>6 DEF Alike!Image
<1>8. \A n \in DOMAIN f.ids \ DOMAIN s.ids : Alike!Image(E, f.ids[n]) = f.ids[n]
  BY <1>1, <1>4, <1>6 DEF Alike!Image
<1>9. \A n \in DOMAIN s.ids : Alike!Image(E, s.ids[n]) = s.ids[n]
  BY <1>1, <1>4, <1>6 DEF Alike!Image
<1>10. ASSUME NEW n \in met PROVE E # <<>>
  <2>1. DOMAIN E # {}
    BY <1>5
  <2>2. DOMAIN <<>> = {}
    OBVIOUS
  <2> QED
    BY <2>1, <2>2
<1> QED
  BY <1>1, <1>2, <1>7, <1>8, <1>9, <1>10 DEF Maps

(* The ends of the peer's relation, translated, are those that it has here *)
(* once the peer's entities are taken over.                                *)
Translates(ids, s, f) ==
    /\ ids \in Identities /\ DOMAIN ids = DOMAIN s.ids \cup DOMAIN f.ids
    /\ \A n \in DOMAIN ids : ids[n][1] = n
    /\ \A n \in DOMAIN s.ids : ids[n] = s.ids[n]
    /\ \A r \in DOMAIN f.rels : DOMAIN ids = Alike!Names /\ Alike!EndsIn(Alike!EntityMap(s, f), f.rels[r].ends) = Alike!EndsOf(ids)
    /\ \A r \in DOMAIN s.rels : DOMAIN ids = Alike!Names /\ s.rels[r].ends = Alike!EndsOf(ids)
    /\ DOMAIN ids = Alike!Names => Alike!EndsIn(Alike!EntityMap(s, f), Alike!EndsOf(ids)) = Alike!EndsOf(ids)

LEMMA EndsTranslated ==
  ASSUME NEW s, NEW f, Coherent(s), Coherent(f)
  PROVE  Translates(Alike!Over(s.ids, f.ids), s, f)
<1>0. PICK ids : ids = Alike!Over(s.ids, f.ids)
  OBVIOUS
<1>1. PICK E : E = Alike!EntityMap(s, f)
  OBVIOUS
<1>2. Maps(E, s.ids, f.ids)
  BY <1>1, EntityMapIs
<1>3. s.ids \in Identities /\ f.ids \in Identities
  BY DEF Coherent, Snapshots
<1>4. /\ ids \in Identities /\ DOMAIN ids = DOMAIN s.ids \cup DOMAIN f.ids
      /\ \A n \in DOMAIN s.ids : ids[n] = s.ids[n]
      /\ \A n \in DOMAIN f.ids \ DOMAIN s.ids : ids[n] = f.ids[n]
  <2>1. ids \in Identities /\ Covers(ids, s.ids, f.ids)
    BY <1>0, <1>3, OverMade DEF Identities
  <2> QED
    BY <2>1 DEF Covers
<1>5. \A n \in DOMAIN f.ids : Alike!Image(E, f.ids[n]) = ids[n]
  BY <1>2, <1>4 DEF Maps
<1>6. \A n \in DOMAIN ids : Alike!Image(E, ids[n]) = ids[n]
  BY <1>2, <1>4 DEF Maps
<1>7. \A n \in DOMAIN ids : ids[n][1] = n
  BY <1>4 DEF Coherent
<1>8. DOMAIN s.ids \subseteq Alike!Names /\ DOMAIN f.ids \subseteq Alike!Names
  BY CoherentParts
<1>9. ASSUME NEW r \in DOMAIN f.rels PROVE DOMAIN ids = Alike!Names /\ Alike!EndsIn(E, f.rels[r].ends) = Alike!EndsOf(ids)
  <2>1. DOMAIN f.ids = Alike!Names /\ f.rels[r].ends = Alike!EndsOf(f.ids)
    BY DEF Coherent
  <2>2. DOMAIN ids = Alike!Names
    BY <1>4, <1>8, <2>1
  <2> QED
    BY <1>5, <2>1, <2>2 DEF Alike!EndsIn, Alike!EndsOf, Alike!Names
<1>10. ASSUME NEW r \in DOMAIN s.rels PROVE DOMAIN ids = Alike!Names /\ s.rels[r].ends = Alike!EndsOf(ids)
  <2>1. DOMAIN s.ids = Alike!Names /\ s.rels[r].ends = Alike!EndsOf(s.ids)
    BY DEF Coherent
  <2>2. DOMAIN ids = Alike!Names
    BY <1>4, <1>8, <2>1
  <2> QED
    BY <1>4, <2>1, <2>2 DEF Alike!EndsOf, Alike!Names
<1>11. DOMAIN ids = Alike!Names => Alike!EndsIn(E, Alike!EndsOf(ids)) = Alike!EndsOf(ids)
  BY <1>6 DEF Alike!EndsIn, Alike!EndsOf, Alike!Names
<1> QED
  BY <1>0, <1>1, <1>4, <1>7, <1>9, <1>10, <1>11 DEF Translates

(* The relation of the peer is that of this device, if it has one.         *)
Meets(M, s, f) ==
    /\ DOMAIN M \subseteq DOMAIN f.rels
    /\ \A x : Alike!Image(M, x) = x \/ Alike!Image(M, x) \in DOMAIN s.rels
    /\ \A r \in DOMAIN f.rels, q \in DOMAIN s.rels : Alike!Image(M, r) = q
    /\ \A q \in DOMAIN s.rels : Alike!Image(M, q) = q

LEMMA MetIs ==
  ASSUME NEW s, NEW f, Coherent(s), Coherent(f)
  PROVE  Meets(Alike!Met(s, f), s, f)
<1>1. PICK ids : ids = Alike!Over(s.ids, f.ids)
  OBVIOUS
<1>2. PICK E : E = Alike!EntityMap(s, f)
  OBVIOUS
<1>3. \A r \in DOMAIN f.rels : Alike!Between(s, Alike!EndsIn(E, f.rels[r].ends)) = DOMAIN s.rels
  <2> TAKE r \in DOMAIN f.rels
  <2>1. Translates(ids, s, f)
    BY <1>1, EndsTranslated
  <2>2. Alike!EndsIn(E, f.rels[r].ends) = Alike!EndsOf(ids) /\ \A q \in DOMAIN s.rels : s.rels[q].ends = Alike!EndsOf(ids)
    BY <1>2, <2>1 DEF Translates
  <2> QED
    BY <2>2 DEF Alike!Between
<1>4. PICK M : M = Alike!Met(s, f)
  OBVIOUS
<1>5. PICK met : met = {r \in DOMAIN f.rels : DOMAIN s.rels \ {r} # {}}
  OBVIOUS
<1>6. M = [r \in met |-> CHOOSE x \in DOMAIN s.rels \ {r} : TRUE]
  BY <1>2, <1>3, <1>4, <1>5 DEF Alike!Met
<1>7. \A r, q \in DOMAIN s.rels : r = q
  BY DEF Coherent
<1>8. ASSUME NEW r \in DOMAIN f.rels, NEW q \in DOMAIN s.rels PROVE Alike!Image(M, r) = q
  <2>1. CASE r = q
    BY <1>5, <1>6, <1>7, <2>1 DEF Alike!Image
  <2>2. CASE r # q
    <3>1. r \in met
      BY <1>5, <2>2
    <3>2. PICK x : x = CHOOSE y \in DOMAIN s.rels \ {r} : TRUE
      OBVIOUS
    <3>3. x \in DOMAIN s.rels
      BY <2>2, <3>2
    <3> QED
      BY <1>6, <1>7, <3>1, <3>2, <3>3 DEF Alike!Image
  <2> QED
    BY <2>1, <2>2
<1>9. ASSUME NEW q \in DOMAIN s.rels PROVE Alike!Image(M, q) = q
  BY <1>5, <1>6, <1>8 DEF Alike!Image
<1>10. \A x : Alike!Image(M, x) = x \/ Alike!Image(M, x) \in DOMAIN s.rels
  BY <1>5, <1>6 DEF Alike!Image
<1> QED
  BY <1>4, <1>5, <1>6, <1>8, <1>9, <1>10 DEF Meets

-----------------------------------------------------------------------------
(* An import, table by table *)

LEMMA CoherentMade ==
  ASSUME NEW s \in Snapshots,
         \A n \in DOMAIN s.ids : s.ids[n][1] = n,
         \A r \in DOMAIN s.rels : DOMAIN s.ids = Alike!Names /\ s.rels[r].ends = Alike!EndsOf(s.ids),
         \A r, q \in DOMAIN s.rels : r = q,
         \A key \in DOMAIN s.supports : key[1] \in DOMAIN s.rels,
         DOMAIN s.supports \cap DOMAIN s.tombs = {}
  PROVE  Coherent(s)
BY DEF Coherent

(* A translated tombstone: at most two of the peer's are for one key here. *)
LEMMA TombstonesAre ==
  ASSUME NEW s, NEW f, Coherent(s), Coherent(f)
  PROVE  /\ Alike!Tombstones(s, f) \in Stamped
         /\ \A k \in DOMAIN f.tombs : /\ Alike!Key(Alike!Prescanned(s, f), k) \in DOMAIN Alike!Tombstones(s, f)
                                      /\ f.tombs[k].rev <= Alike!Tombstones(s, f)[Alike!Key(Alike!Prescanned(s, f), k)].rev
<1>1. PICK P : P = Alike!Prescanned(s, f)
  OBVIOUS
<1>2. DOMAIN P \subseteq DOMAIN f.rels /\ \A x : Alike!Image(P, x) = x \/ Alike!Image(P, x) \in DOMAIN s.rels
  <2>1. Meets(Alike!Met(s, f), s, f)
    BY MetIs
  <2>2. CASE Alike!EntityMap(s, f) = <<>>
    <3>1. P = <<>>
      BY <1>1, <2>2 DEF Alike!Prescanned
    <3> QED
      BY <3>1 DEF Alike!Image
  <2>3. CASE Alike!EntityMap(s, f) # <<>>
    BY <1>1, <2>1, <2>3 DEF Alike!Prescanned, Meets
  <2> QED
    BY <2>2, <2>3
<1>3. PICK keys : keys = {Alike!Key(P, k) : k \in DOMAIN f.tombs}
  OBVIOUS
<1>4. PICK ts : ts = Alike!Tombstones(s, f)
  OBVIOUS
<1>5. PICK Sent : Sent = [key \in keys |-> {k \in DOMAIN f.tombs : Alike!Key(P, k) = key}]
  OBVIOUS
<1>6. ts = [key \in keys |-> [rev |-> Alike!Newest({f.tombs[k].rev : k \in Sent[key]})]]
  BY <1>1, <1>3, <1>4, <1>5 DEF Alike!Tombstones
<1>7. keys \subseteq Devices \X Units
  <2> SUFFICES ASSUME NEW key \in keys PROVE key \in Devices \X Units
    OBVIOUS
  <2>1. PICK k \in DOMAIN f.tombs : key = <<Alike!Image(P, k[1]), k[2]>>
    BY <1>3 DEF Alike!Key
  <2>2. k \in Devices \X Units /\ DOMAIN s.rels \subseteq Devices
    BY CoherentParts
  <2> QED
    BY <1>2, <2>1, <2>2
<1>8. ASSUME NEW key \in keys
      PROVE  /\ Alike!Newest({f.tombs[k].rev : k \in Sent[key]}) \in Nat
             /\ \A k \in Sent[key] : f.tombs[k].rev <= Alike!Newest({f.tombs[j].rev : j \in Sent[key]})
  <2>1. \A r, q \in DOMAIN f.rels : r = q
    BY DEF Coherent
  <2>2. \A k \in DOMAIN f.tombs : k \in Devices \X Units /\ f.tombs[k].rev \in Nat
    BY CoherentParts DEF Revision
  <2>3. ASSUME NEW k \in Sent[key] PROVE k \in DOMAIN f.tombs /\ Alike!Image(P, k[1]) = key[1] /\ k[2] = key[2]
    BY <1>5 DEF Alike!Key
  <2>4. \A k \in Sent[key] : k[1] = key[1] \/ k[1] \in DOMAIN P
    BY <2>3 DEF Alike!Image
  <2>5. \E x, y \in Nat : {f.tombs[k].rev : k \in Sent[key]} \subseteq {x, y}
    <3>1. PICK a : \A k \in Sent[key] : k[1] # key[1] => k[1] = a
      BY <1>2, <2>1, <2>4
    <3>2. \A k \in Sent[key] : k = <<key[1], key[2]>> \/ k = <<a, key[2]>>
      BY <2>2, <2>3, <3>1
    <3>3. PICK x \in Nat : <<key[1], key[2]>> \in Sent[key] => x = f.tombs[<<key[1], key[2]>>].rev
      BY <2>2, <2>3
    <3>4. PICK y \in Nat : <<a, key[2]>> \in Sent[key] => y = f.tombs[<<a, key[2]>>].rev
      BY <2>2, <2>3
    <3> QED
      BY <3>2, <3>3, <3>4
  <2> QED
    BY <2>5, NewestOfTwo
<1>9. ts \in Stamped
  <2>1. ts \in [keys -> Revision]
    BY <1>6, <1>8 DEF Revision
  <2> QED
    BY <1>7, <2>1, TableMade DEF Stamped
<1>10. ASSUME NEW k \in DOMAIN f.tombs PROVE Alike!Key(P, k) \in DOMAIN ts /\ f.tombs[k].rev <= ts[Alike!Key(P, k)].rev
  <2>1. Alike!Key(P, k) \in keys
    BY <1>3
  <2>2. k \in Sent[Alike!Key(P, k)]
    BY <1>5, <2>1
  <2> QED
    BY <1>6, <1>8, <2>1, <2>2
<1> QED
  BY <1>1, <1>4, <1>9, <1>10

(* The supports that a tombstone meets are gone, the other rows as before. *)
Buries(b, s, f) ==
    /\ Coherent(b) /\ b.ids = s.ids /\ b.rels = s.rels
    /\ DOMAIN b.supports \subseteq DOMAIN s.supports
    /\ \A key \in DOMAIN b.supports : b.supports[key] = s.supports[key]
    /\ \A k \in DOMAIN f.tombs : LET key == Alike!Key(Alike!Prescanned(s, f), k) IN
          key \in DOMAIN s.supports /\ s.supports[key].rev <= f.tombs[k].rev => key \notin DOMAIN b.supports

LEMMA BuriedIs ==
  ASSUME NEW s, NEW f, Coherent(s), Coherent(f)
  PROVE  Buries(Alike!Buried(s, f), s, f)
<1>1. PICK ts \in Stamped : ts = Alike!Tombstones(s, f)
  BY TombstonesAre
<1>2. PICK applied : applied = {key \in DOMAIN ts :
                      /\ key \in DOMAIN s.tombs => s.tombs[key].rev < ts[key].rev
                      /\ key \in DOMAIN s.supports => s.supports[key].rev <= ts[key].rev}
  OBVIOUS
<1>3. PICK tombs : tombs = Alike!Over(Alike!Restrict(ts, applied), s.tombs)
  OBVIOUS
<1>4. PICK supports : supports = Alike!Without(s.supports, applied)
  OBVIOUS
<1>5. PICK b : b = [s EXCEPT !.tombs = tombs, !.supports = supports]
  OBVIOUS
<1>6. b = Alike!Buried(s, f)
  BY <1>1, <1>2, <1>3, <1>4, <1>5 DEF Alike!Buried
<1>7. s \in Snapshots /\ s.tombs \in Stamped /\ s.supports \in Stamped
  BY DEF Coherent, Snapshots
<1>8. Alike!Restrict(ts, applied) \in Stamped /\ DOMAIN Alike!Restrict(ts, applied) = applied
  BY <1>1, <1>2, RestrictMade DEF Stamped, Cuts
<1>9. tombs \in Stamped /\ DOMAIN tombs = applied \cup DOMAIN s.tombs
  <2>1. tombs \in Stamped /\ Covers(tombs, Alike!Restrict(ts, applied), s.tombs)
    BY <1>3, <1>7, <1>8, OverMade DEF Stamped
  <2> QED
    BY <1>8, <2>1 DEF Covers
<1>10. /\ supports \in Stamped /\ DOMAIN supports = DOMAIN s.supports \ applied
       /\ \A key \in DOMAIN supports : supports[key] = s.supports[key]
  <2>1. supports \in Stamped /\ Cuts(supports, s.supports, DOMAIN s.supports \ applied)
    BY <1>4, <1>7, WithoutMade DEF Stamped
  <2> QED
    BY <2>1 DEF Cuts
<1>11. b \in Snapshots /\ b.ids = s.ids /\ b.rels = s.rels /\ b.tombs = tombs /\ b.supports = supports
  BY <1>5, <1>7, <1>9, <1>10 DEF Snapshots
<1>12. Coherent(b)
  BY <1>9, <1>10, <1>11 DEF Coherent
<1>13. ASSUME NEW k \in DOMAIN f.tombs, NEW key, key = Alike!Key(Alike!Prescanned(s, f), k),
              key \in DOMAIN s.supports, s.supports[key].rev <= f.tombs[k].rev
       PROVE  key \in applied
  <2>1. key \in DOMAIN ts /\ f.tombs[k].rev <= ts[key].rev
    BY <1>1, <1>13, TombstonesAre
  <2>2. s.supports[key].rev \in Nat /\ f.tombs[k].rev \in Nat /\ ts[key].rev \in Nat
    <3>1. s.supports[key] \in Revision /\ f.tombs[k] \in Revision
      BY <1>13, CoherentParts
    <3>2. ts[key] \in Revision
      BY <1>1, <2>1, TableOf DEF Stamped
    <3> QED
      BY <3>1, <3>2 DEF Revision
  <2>3. key \notin DOMAIN s.tombs
    BY <1>13 DEF Coherent
  <2> QED
    BY <1>2, <1>13, <2>1, <2>2, <2>3
<1> QED
  BY <1>6, <1>10, <1>11, <1>12, <1>13 DEF Buries

(* The peer's entities and its relation, under the ids they have here.     *)
Grows(g, b, f) ==
    /\ Coherent(g) /\ g.ids = Alike!Over(b.ids, f.ids) /\ g.supports = b.supports /\ g.tombs = b.tombs
    /\ DOMAIN f.rels # {} => DOMAIN g.rels # {}
    /\ \A q \in DOMAIN g.rels : Alike!Image(Alike!Met(b, f), q) = q

LEMMA GraphMergedIs ==
  ASSUME NEW b, NEW f, Coherent(b), Coherent(f)
  PROVE  Grows(Alike!GraphMerged(b, f), b, f)
<1>1. PICK M : M = Alike!Met(b, f)
  OBVIOUS
<1>2. PICK E : E = Alike!EntityMap(b, f)
  OBVIOUS
<1>3. PICK ids : ids = Alike!Over(b.ids, f.ids)
  OBVIOUS
<1>4. PICK named : named = {Alike!Image(M, x) : x \in DOMAIN f.rels}
  OBVIOUS
<1>5. PICK rows : rows = [r \in named |-> LET theirs == CHOOSE y \in DOMAIN f.rels : Alike!Image(M, y) = r IN
                                          [f.rels[theirs] EXCEPT !.ends = Alike!EndsIn(E, @)]]
  OBVIOUS
<1>6. PICK rels : rels = Alike!Newer(b.rels, rows)
  OBVIOUS
<1>7. PICK g : g = [b EXCEPT !.ids = ids, !.rels = rels]
  OBVIOUS
<1>8. g = Alike!GraphMerged(b, f)
  BY <1>1, <1>2, <1>3, <1>4, <1>5, <1>6, <1>7 DEF Alike!GraphMerged
<1>9. Meets(M, b, f) /\ Translates(ids, b, f)
  BY <1>1, <1>3, MetIs, EndsTranslated
<1>10. named \subseteq Devices
  <2>1. DOMAIN b.rels \subseteq Devices /\ DOMAIN f.rels \subseteq Devices
    BY CoherentParts
  <2> QED
    BY <1>4, <1>9, <2>1 DEF Meets
<1>11. ASSUME NEW r \in named
       PROVE  rows[r] \in RelationRow /\ DOMAIN ids = Alike!Names /\ rows[r].ends = Alike!EndsOf(ids)
  <2>1. PICK y : y = CHOOSE z \in DOMAIN f.rels : Alike!Image(M, z) = r
    OBVIOUS
  <2>2. y \in DOMAIN f.rels
    BY <1>4, <2>1
  <2>3. DOMAIN ids = Alike!Names /\ Alike!EndsIn(E, f.rels[y].ends) = Alike!EndsOf(ids)
    BY <1>2, <1>9, <2>2 DEF Translates
  <2>4. f.rels[y] \in RelationRow
    BY <2>2, CoherentParts
  <2>5. rows[r] = [f.rels[y] EXCEPT !.ends = Alike!EndsOf(ids)]
    BY <1>5, <2>1, <2>3
  <2>6. Alike!EndsOf(ids) \in Alike!Ends
    <3>1. \A n \in DOMAIN ids : ids[n] \in Alike!Names \X Devices
      BY <1>9, TableOf DEF Translates, Identities
    <3> QED
      BY <2>3, <3>1 DEF Alike!EndsOf, Alike!Ends, Alike!Names
  <2> QED
    BY <2>3, <2>4, <2>5, <2>6 DEF RelationRow
<1>12. rows \in RelationRows /\ DOMAIN rows = named
  <2>1. rows \in [named -> RelationRow]
    BY <1>5, <1>11
  <2> QED
    BY <1>10, <2>1, TableMade DEF RelationRows
<1>13. b \in Snapshots /\ b.rels \in RelationRows
  BY DEF Coherent, Snapshots
<1>14. /\ rels \in RelationRows /\ DOMAIN rels = DOMAIN b.rels \cup named
       /\ \A r \in DOMAIN rels : (r \in DOMAIN b.rels /\ rels[r] = b.rels[r]) \/ (r \in named /\ rels[r] = rows[r])
  <2>1. rels \in RelationRows /\ Unites(rels, b.rels, rows)
    BY <1>6, <1>12, <1>13, NewerMade DEF RelationRows
  <2> QED
    BY <1>12, <2>1 DEF Unites
<1>15. g \in Snapshots /\ g.ids = ids /\ g.rels = rels /\ g.supports = b.supports /\ g.tombs = b.tombs
  BY <1>7, <1>9, <1>13, <1>14 DEF Snapshots, Translates
<1>16. \A r \in DOMAIN rels : DOMAIN ids = Alike!Names /\ rels[r].ends = Alike!EndsOf(ids)
  BY <1>9, <1>11, <1>14 DEF Translates
<1>17. \A r, q \in DOMAIN rels : r = q
  <2>1. (\A r, q \in DOMAIN b.rels : r = q) /\ (\A r, q \in DOMAIN f.rels : r = q)
    BY DEF Coherent
  <2>2. \A r \in named, q \in DOMAIN b.rels : r = q
    BY <1>4, <1>9 DEF Meets
  <2>3. \A r, q \in named : r = q
    BY <1>4, <2>1
  <2> QED
    BY <1>14, <2>1, <2>2, <2>3
<1>18. Coherent(g)
  BY <1>9, <1>14, <1>15, <1>16, <1>17 DEF Coherent, Translates
<1>19. \A q \in DOMAIN rels : Alike!Image(M, q) = q
  BY <1>4, <1>9, <1>14 DEF Meets
<1>20. DOMAIN f.rels # {} => DOMAIN rels # {}
  BY <1>4, <1>14
<1> QED
  BY <1>1, <1>3, <1>8, <1>15, <1>18, <1>19, <1>20 DEF Grows

(* The peer's supports, each here, or barred by a tombstone that is not    *)
(* older.                                                                  *)
Receives(h, g, f) ==
    /\ Coherent(h) /\ h.ids = g.ids /\ h.rels = g.rels
    /\ \A key \in DOMAIN h.supports : \/ key \in DOMAIN g.supports
                                      \/ \E k \in DOMAIN f.supports : key = Alike!Key(Alike!Met(g, f), k)
    /\ \A k \in DOMAIN f.supports : LET key == Alike!Key(Alike!Met(g, f), k) IN
          \/ key \in DOMAIN h.supports
          \/ key \in DOMAIN h.tombs /\ ~ (h.tombs[key].rev < f.supports[k].rev)

LEMMA SupportsMergedIs ==
  ASSUME NEW g, NEW f, Coherent(g), Coherent(f), DOMAIN f.rels # {} => DOMAIN g.rels # {}
  PROVE  Receives(Alike!SupportsMerged(g, f), g, f)
<1>1. PICK M : M = Alike!Met(g, f)
  OBVIOUS
<1>2. PICK keys : keys = {Alike!Key(M, k) : k \in DOMAIN f.supports}
  OBVIOUS
<1>3. PICK rows : rows = [key \in keys |-> f.supports[CHOOSE k \in DOMAIN f.supports : Alike!Key(M, k) = key]]
  OBVIOUS
<1>4. PICK back : back = {key \in keys : key \in DOMAIN g.tombs => g.tombs[key].rev < rows[key].rev}
  OBVIOUS
<1>5. PICK supports : supports = Alike!Newer(g.supports, Alike!Restrict(rows, back))
  OBVIOUS
<1>6. PICK tombs : tombs = Alike!Without(g.tombs, back)
  OBVIOUS
<1>7. PICK h : h = [g EXCEPT !.supports = supports, !.tombs = tombs]
  OBVIOUS
<1>8. h = Alike!SupportsMerged(g, f)
  <2>1. DOMAIN rows = keys
    BY <1>3
  <2>2. back = {key \in DOMAIN rows : key \in DOMAIN g.tombs => g.tombs[key].rev < rows[key].rev}
    BY <1>4, <2>1
  <2>3. rows = [key \in {Alike!Key(M, k) : k \in DOMAIN f.supports} |->
                    f.supports[CHOOSE k \in DOMAIN f.supports : Alike!Key(M, k) = key]]
    BY <1>2, <1>3
  <2>4. Alike!SupportsMerged(g, f) = [g EXCEPT !.supports = Alike!Newer(g.supports, Alike!Restrict(rows, back)),
                                               !.tombs = Alike!Without(g.tombs, back)]
    BY <1>1, <2>2, <2>3 DEF Alike!SupportsMerged
  <2> QED
    BY <1>5, <1>6, <1>7, <2>4
<1>9. Meets(M, g, f)
  BY <1>1, MetIs
<1>10. ASSUME NEW k \in DOMAIN f.supports
       PROVE  /\ k \in Devices \X Units /\ k[1] \in DOMAIN f.rels
              /\ Alike!Key(M, k) = <<Alike!Image(M, k[1]), k[2]>> /\ Alike!Image(M, k[1]) \in DOMAIN g.rels
  <2>1. k \in Devices \X Units /\ k[1] \in DOMAIN f.rels
    BY CoherentParts DEF Coherent
  <2> QED
    BY <1>9, <2>1 DEF Meets, Alike!Key
<1>11. ASSUME NEW k \in DOMAIN f.supports PROVE Alike!Key(M, k) \in keys /\ rows[Alike!Key(M, k)] = f.supports[k]
  <2>1. PICK key : key = Alike!Key(M, k)
    OBVIOUS
  <2>2. PICK j : j = CHOOSE i \in DOMAIN f.supports : Alike!Key(M, i) = key
    OBVIOUS
  <2>3. j \in DOMAIN f.supports /\ Alike!Key(M, j) = key
    BY <2>1, <2>2
  <2>4. \A r, q \in DOMAIN f.rels : r = q
    BY DEF Coherent
  <2>5. j = k
    <3>1. j[1] = k[1] /\ j[2] = k[2]
      BY <1>10, <2>1, <2>3, <2>4
    <3> QED
      BY <1>10, <2>3, <3>1
  <2> QED
    BY <1>2, <1>3, <2>1, <2>2, <2>5
<1>12. keys \subseteq Devices \X Units /\ \A key \in keys : key[1] \in DOMAIN g.rels
  <2>1. DOMAIN g.rels \subseteq Devices
    BY CoherentParts
  <2> QED
    BY <1>2, <1>10, <2>1
<1>13. rows \in Stamped
  <2>1. \A k \in DOMAIN f.supports : f.supports[k] \in Revision
    BY CoherentParts
  <2>2. \A key \in keys : rows[key] \in Revision
    BY <1>2, <1>11, <2>1
  <2>3. rows \in [keys -> Revision]
    BY <1>3, <2>2
  <2> QED
    BY <1>12, <2>3, TableMade DEF Stamped
<1>14. g \in Snapshots /\ g.supports \in Stamped /\ g.tombs \in Stamped
  BY DEF Coherent, Snapshots
<1>15. back \subseteq keys /\ DOMAIN rows = keys
  BY <1>3, <1>4
<1>16. Alike!Restrict(rows, back) \in Stamped /\ DOMAIN Alike!Restrict(rows, back) = back
  <2>1. Alike!Restrict(rows, back) \in Stamped /\ Cuts(Alike!Restrict(rows, back), rows, back)
    BY <1>13, <1>15, RestrictMade DEF Stamped
  <2> QED
    BY <2>1 DEF Cuts
<1>17. supports \in Stamped /\ DOMAIN supports = DOMAIN g.supports \cup back
  <2>1. supports \in Stamped /\ Unites(supports, g.supports, Alike!Restrict(rows, back))
    BY <1>5, <1>14, <1>16, NewerMade DEF Stamped
  <2> QED
    BY <1>16, <2>1 DEF Unites
<1>18. tombs \in Stamped /\ DOMAIN tombs = DOMAIN g.tombs \ back /\ \A key \in DOMAIN tombs : tombs[key] = g.tombs[key]
  <2>1. tombs \in Stamped /\ Cuts(tombs, g.tombs, DOMAIN g.tombs \ back)
    BY <1>6, <1>14, WithoutMade DEF Stamped
  <2> QED
    BY <2>1 DEF Cuts
<1>19. h \in Snapshots /\ h.ids = g.ids /\ h.rels = g.rels /\ h.supports = supports /\ h.tombs = tombs
  BY <1>7, <1>14, <1>17, <1>18 DEF Snapshots
<1>20. Coherent(h)
  BY <1>12, <1>15, <1>17, <1>18, <1>19 DEF Coherent
<1>21. ASSUME NEW k \in DOMAIN f.supports, NEW key, key = Alike!Key(M, k)
       PROVE  key \in DOMAIN supports \/ (key \in DOMAIN tombs /\ ~ (tombs[key].rev < f.supports[k].rev))
  BY <1>4, <1>11, <1>17, <1>18, <1>21
<1>22. \A key \in DOMAIN supports : key \in DOMAIN g.supports \/ \E k \in DOMAIN f.supports : key = Alike!Key(M, k)
  BY <1>2, <1>15, <1>17
<1> QED
  BY <1>1, <1>8, <1>19, <1>20, <1>21, <1>22 DEF Receives

(* The last translation finds nothing left over.                           *)
Rests(a, h) ==
    /\ Coherent(a) /\ a.ids = h.ids /\ DOMAIN a.rels = DOMAIN h.rels
    /\ DOMAIN a.supports = DOMAIN h.supports /\ a.tombs = h.tombs

LEMMA RemappedIs ==
  ASSUME NEW h, Coherent(h), NEW E, NEW M,
         DOMAIN h.ids = Alike!Names => Alike!EndsIn(E, Alike!EndsOf(h.ids)) = Alike!EndsOf(h.ids),
         \A q \in DOMAIN h.rels : Alike!Image(M, q) = q
  PROVE  Rests(Alike!Remapped(h, E, M), h)
<1>1. PICK rels : rels = [r \in DOMAIN h.rels |-> [h.rels[r] EXCEPT !.ends = Alike!EndsIn(E, @)]]
  OBVIOUS
<1>2. PICK keys : keys = {Alike!Key(M, k) : k \in DOMAIN h.supports}
  OBVIOUS
<1>3. PICK supports : supports = [key \in keys |-> h.supports[CHOOSE k \in DOMAIN h.supports : Alike!Key(M, k) = key]]
  OBVIOUS
<1>4. PICK a : a = [h EXCEPT !.rels = rels, !.supports = supports]
  OBVIOUS
<1>5. a = Alike!Remapped(h, E, M)
  BY <1>1, <1>2, <1>3, <1>4 DEF Alike!Remapped
<1>6. ASSUME NEW r \in DOMAIN h.rels
      PROVE  h.rels[r] \in RelationRow /\ rels[r] = [h.rels[r] EXCEPT !.ends = h.rels[r].ends]
  <2>1. DOMAIN h.ids = Alike!Names /\ h.rels[r].ends = Alike!EndsOf(h.ids)
    BY DEF Coherent
  <2>2. Alike!EndsIn(E, h.rels[r].ends) = h.rels[r].ends
    BY <2>1
  <2>3. h.rels[r] \in RelationRow
    BY CoherentParts
  <2> QED
    BY <1>1, <2>2, <2>3
<1>7. ASSUME NEW r \in DOMAIN h.rels PROVE rels[r] \in RelationRow /\ rels[r].ends = h.rels[r].ends
  BY <1>6 DEF RelationRow
<1>8. \A k \in DOMAIN h.supports : Alike!Key(M, k) = k
  <2> TAKE k \in DOMAIN h.supports
  <2>1. k \in Devices \X Units /\ k[1] \in DOMAIN h.rels
    BY CoherentParts DEF Coherent
  <2> QED
    BY <2>1 DEF Alike!Key
<1>9. keys = DOMAIN h.supports
  BY <1>2, <1>8
<1>10. \A key \in keys : supports[key] \in Revision
  <2> TAKE key \in keys
  <2>1. PICK j : j = CHOOSE k \in DOMAIN h.supports : Alike!Key(M, k) = key
    OBVIOUS
  <2>2. j \in DOMAIN h.supports
    BY <1>2, <2>1
  <2>3. h.supports[j] \in Revision
    BY <2>2, CoherentParts
  <2> QED
    BY <1>3, <2>1, <2>3
<1>11. rels \in RelationRows /\ DOMAIN rels = DOMAIN h.rels
  <2>1. rels \in [DOMAIN h.rels -> RelationRow] /\ DOMAIN h.rels \subseteq Devices
    BY <1>1, <1>7, CoherentParts
  <2> QED
    BY <2>1, TableMade DEF RelationRows
<1>12. supports \in Stamped /\ DOMAIN supports = DOMAIN h.supports
  <2>1. supports \in [keys -> Revision] /\ keys \subseteq Devices \X Units
    BY <1>3, <1>9, <1>10, CoherentParts
  <2> QED
    BY <1>9, <2>1, TableMade DEF Stamped
<1>13. a \in Snapshots /\ a.ids = h.ids /\ a.rels = rels /\ a.supports = supports /\ a.tombs = h.tombs
  <2>1. h \in Snapshots
    BY DEF Coherent
  <2> QED
    BY <1>4, <1>11, <1>12, <2>1 DEF Snapshots
<1>14. Coherent(a)
  BY <1>7, <1>11, <1>12, <1>13 DEF Coherent
<1> QED
  BY <1>5, <1>11, <1>12, <1>13, <1>14 DEF Rests

(* What an import makes of a device's rows s and a peer's file f.          *)
Imported(s, f) ==
    Alike!Remapped(Alike!SupportsMerged(Alike!GraphMerged(Alike!Buried(s, f), f), f), Alike!EntityMap(s, f), Alike!Met(s, f))

LEMMA ImportIs ==
  ASSUME NEW s, NEW f, Coherent(s), Coherent(f)
  PROVE  \E b, g, h : /\ Buries(b, s, f) /\ Grows(g, b, f) /\ Receives(h, g, f)
                      /\ Rests(Imported(s, f), h)
<1>1. PICK b : b = Alike!Buried(s, f)
  OBVIOUS
<1>2. Buries(b, s, f)
  BY <1>1, BuriedIs
<1>3. PICK g : g = Alike!GraphMerged(b, f)
  OBVIOUS
<1>4. Coherent(b) /\ b.ids = s.ids /\ b.rels = s.rels
  BY <1>2 DEF Buries
<1>5. Grows(g, b, f)
  BY <1>3, <1>4, GraphMergedIs
<1>6. Coherent(g) /\ (DOMAIN f.rels # {} => DOMAIN g.rels # {}) /\ g.ids = Alike!Over(s.ids, f.ids)
  BY <1>4, <1>5 DEF Grows
<1>7. PICK h : h = Alike!SupportsMerged(g, f)
  OBVIOUS
<1>8. Receives(h, g, f)
  BY <1>6, <1>7, SupportsMergedIs
<1>9. Coherent(h) /\ h.ids = Alike!Over(s.ids, f.ids) /\ h.rels = g.rels
  BY <1>6, <1>8 DEF Receives
<1>10. Alike!EntityMap(b, f) = Alike!EntityMap(s, f)
  BY <1>4 DEF Alike!EntityMap
<1>11. Alike!Met(b, f) = Alike!Met(s, f)
  BY <1>4, <1>10 DEF Alike!Met, Alike!Between
<1>12. \A q \in DOMAIN h.rels : Alike!Image(Alike!Met(s, f), q) = q
  BY <1>5, <1>9, <1>11 DEF Grows
<1>13. DOMAIN h.ids = Alike!Names => Alike!EndsIn(Alike!EntityMap(s, f), Alike!EndsOf(h.ids)) = Alike!EndsOf(h.ids)
  <2>1. Translates(h.ids, s, f)
    BY <1>9, EndsTranslated
  <2> QED
    BY <2>1 DEF Translates
<1>14. Imported(s, f) = Alike!Remapped(h, Alike!EntityMap(s, f), Alike!Met(s, f))
  BY <1>1, <1>3, <1>7 DEF Imported
<1>15. Rests(Alike!Remapped(h, Alike!EntityMap(s, f), Alike!Met(s, f)), h)
  BY <1>9, <1>12, <1>13, RemappedIs
<1> QED
  BY <1>2, <1>5, <1>8, <1>14, <1>15

-----------------------------------------------------------------------------
(* The local writers *)

LEMMA WriteKeepsOne ==
  ASSUME MeetInv, RanksAssumption, NEW d \in Devices, NEW s, Coherent(s), Alike!Write(d, s)
  PROVE  MeetInv'
<1>1. s \in Snapshots
  BY DEF Coherent
<1>2. base' = [base EXCEPT ![d] = s] /\ file' = file /\ writes' = writes + 1 /\ writes < MaxWrites
  BY DEF Alike!Write
<1>3. base' \in [Devices -> Snapshots] /\ \A e \in Devices : base'[e] = IF e = d THEN s ELSE base[e]
  BY <1>1, <1>2 DEF MeetInv
<1>4. writes' \in 0..MaxWrites
  BY <1>2 DEF MeetInv, RanksAssumption
<1>5. \A e \in Devices : Coherent(base'[e])
  BY <1>3 DEF MeetInv
<1> QED
  BY <1>2, <1>3, <1>4, <1>5 DEF MeetInv

LEMMA MomentIsNat ==
  ASSUME MeetInv, RanksAssumption, NEW d \in Devices
  PROVE  Alike!Now(d) \in Nat
<1>1. Tick \in Nat /\ writes + 1 \in Nat /\ Rank[d] \in Nat
  BY DEF MeetInv, RanksAssumption
<1>2. Tick * (writes + 1) \in Nat
  BY <1>1
<1> QED
  BY <1>1, <1>2 DEF Alike!Now

LEMMA EntitiesAre ==
  ASSUME NEW s, Coherent(s), NEW d \in Devices, NEW ids, ids = Alike!EntitiesOf(s, d)
  PROVE  /\ ids \in Identities /\ DOMAIN ids = Alike!Names
         /\ \A n \in Alike!Names : ids[n] \in Alike!Names \X Devices /\ ids[n][1] = n
         /\ DOMAIN s.rels # {} => ids = s.ids
         /\ \A n \in DOMAIN s.ids : ids[n] = s.ids[n]
<1>1. PICK own : own = [n \in Alike!Names |-> <<n, d>>]
  OBVIOUS
<1>2. s.ids \in Identities /\ own \in Identities
  BY <1>1, TableMade DEF Coherent, Snapshots, Identities
<1>3. ids \in Identities /\ Covers(ids, s.ids, own)
  BY <1>1, <1>2, OverMade DEF Alike!EntitiesOf, Identities
<1>4. /\ DOMAIN s.ids \subseteq Alike!Names
      /\ \A n \in DOMAIN s.ids : s.ids[n] \in Alike!Names \X Devices /\ s.ids[n][1] = n
  BY CoherentParts
<1>5. DOMAIN ids = Alike!Names /\ \A n \in DOMAIN s.ids : ids[n] = s.ids[n]
  BY <1>1, <1>3, <1>4 DEF Covers
<1>6. \A n \in Alike!Names : ids[n] \in Alike!Names \X Devices /\ ids[n][1] = n
  <2> TAKE n \in Alike!Names
  <2>1. CASE n \in DOMAIN s.ids
    BY <1>4, <1>5, <2>1
  <2>2. CASE n \notin DOMAIN s.ids
    BY <1>1, <1>3, <2>2 DEF Covers
  <2> QED
    BY <2>1, <2>2
<1>7. DOMAIN s.rels # {} => ids = s.ids
  <2> HAVE DOMAIN s.rels # {}
  <2>1. DOMAIN s.ids = Alike!Names
    BY DEF Coherent
  <2>2. ids = [n \in DOMAIN ids |-> ids[n]] /\ s.ids = [n \in DOMAIN s.ids |-> s.ids[n]]
    BY <1>2, <1>3, TableOf DEF Identities
  <2> QED
    BY <1>5, <2>1, <2>2
<1> QED
  BY <1>3, <1>5, <1>6, <1>7

LEMMA MentionKeeps ==
  ASSUME MeetInv, RanksAssumption, NEW d \in Devices, Alike!Mention(d)
  PROVE  MeetInv'
<1>1. PICK s : s = base[d]
  OBVIOUS
<1>2. Coherent(s) /\ s \in Snapshots
  BY <1>1 DEF MeetInv, Coherent
<1>3. PICK ids : ids = Alike!EntitiesOf(s, d)
  OBVIOUS
<1>4. ids \in Identities /\ DOMAIN ids = Alike!Names /\ \A n \in Alike!Names : ids[n][1] = n
  BY <1>2, <1>3, EntitiesAre
<1>5. PICK n : n = [s EXCEPT !.ids = ids]
  OBVIOUS
<1>6. Alike!Write(d, n) /\ DOMAIN s.ids # Alike!Names
  BY <1>1, <1>3, <1>5 DEF Alike!Mention
<1>7. /\ n \in Snapshots /\ n.ids = ids /\ n.rels = s.rels /\ n.supports = s.supports /\ n.tombs = s.tombs
      /\ DOMAIN n.rels = {}
  BY <1>2, <1>4, <1>5, <1>6 DEF Snapshots, Coherent
<1>8. Coherent(n)
  BY <1>2, <1>4, <1>7 DEF Coherent
<1> QED
  BY <1>6, <1>8, WriteKeepsOne

LEMMA StatedIs ==
  ASSUME NEW s, Coherent(s), NEW d \in Devices, NEW ids, ids = Alike!EntitiesOf(s, d),
         NEW r \in Devices, DOMAIN s.rels = {} \/ r \in DOMAIN s.rels,
         NEW u \in Units, NEW now \in Nat
  PROVE  Coherent(Alike!Stated(s, r, u, ids, now))
<1>1. /\ ids \in Identities /\ DOMAIN ids = Alike!Names /\ \A n \in Alike!Names : ids[n] \in Alike!Names \X Devices /\ ids[n][1] = n
      /\ DOMAIN s.rels # {} => ids = s.ids
  BY EntitiesAre
<1>2. PICK buried : buried = IF <<r, u>> \in DOMAIN s.tombs THEN {s.tombs[<<r, u>>].rev} ELSE {}
  OBVIOUS
<1>3. PICK rev : rev = Alike!Successor(now, buried)
  OBVIOUS
<1>4. rev \in Nat
  <2>1. CASE <<r, u>> \in DOMAIN s.tombs
    <3>1. s.tombs[<<r, u>>].rev \in Nat
      BY <2>1, CoherentParts DEF Revision
    <3> QED
      BY <1>2, <1>3, <2>1, <3>1, SuccessorIsNat
  <2>2. CASE <<r, u>> \notin DOMAIN s.tombs
    <3>1. buried \subseteq {0}
      BY <1>2, <2>2
    <3> QED
      BY <1>3, <3>1, SuccessorIsNat
  <2> QED
    BY <2>1, <2>2
<1>5. PICK row : row = [x \in {r} |-> [ends |-> Alike!EndsOf(ids), rev |-> now]]
  OBVIOUS
<1>6. PICK noted : noted = [x \in {<<r, u>>} |-> [rev |-> rev]]
  OBVIOUS
<1>7. Alike!EndsOf(ids) \in Alike!Ends
  BY <1>1 DEF Alike!EndsOf, Alike!Ends, Alike!Names
<1>8. row \in RelationRows
  <2>1. row \in [{r} -> RelationRow]
    BY <1>5, <1>7 DEF RelationRow
  <2> QED
    BY <2>1, TableMade DEF RelationRows
<1>9. noted \in Stamped
  <2>1. noted \in [{<<r, u>>} -> Revision] /\ {<<r, u>>} \subseteq Devices \X Units
    BY <1>4, <1>6 DEF Revision
  <2> QED
    BY <2>1, TableMade DEF Stamped
<1>10. s.rels \in RelationRows /\ s.supports \in Stamped /\ s.tombs \in Stamped
  BY DEF Coherent, Snapshots
<1>11. PICK rels : rels = Alike!Over(row, s.rels)
  OBVIOUS
<1>12. PICK supports : supports = Alike!Over(noted, s.supports)
  OBVIOUS
<1>13. PICK tombs : tombs = Alike!Without(s.tombs, {<<r, u>>})
  OBVIOUS
<1>14. rels \in RelationRows /\ Covers(rels, row, s.rels)
  BY <1>8, <1>10, <1>11, OverMade DEF RelationRows
<1>15. supports \in Stamped /\ Covers(supports, noted, s.supports)
  BY <1>9, <1>10, <1>12, OverMade DEF Stamped
<1>16. tombs \in Stamped /\ Cuts(tombs, s.tombs, DOMAIN s.tombs \ {<<r, u>>})
  BY <1>10, <1>13, WithoutMade DEF Stamped
<1>17. DOMAIN rels = {r} \cup DOMAIN s.rels /\ \A x \in DOMAIN rels : rels[x].ends = Alike!EndsOf(ids)
  <2>1. DOMAIN rels = {r} \cup DOMAIN s.rels /\ rels[r].ends = Alike!EndsOf(ids)
    BY <1>5, <1>14 DEF Covers
  <2>2. \A x \in DOMAIN s.rels : s.rels[x].ends = Alike!EndsOf(ids)
    BY <1>1 DEF Coherent
  <2>3. \A x \in DOMAIN s.rels \ {r} : rels[x] = s.rels[x]
    BY <1>5, <1>14 DEF Covers
  <2> QED
    BY <2>1, <2>2, <2>3
<1>18. \A x, y \in DOMAIN rels : x = y
  BY <1>17 DEF Coherent
<1>19. DOMAIN supports = {<<r, u>>} \cup DOMAIN s.supports
  BY <1>6, <1>15 DEF Covers
<1>20. DOMAIN tombs = DOMAIN s.tombs \ {<<r, u>>}
  BY <1>16 DEF Cuts
<1>21. PICK n : n = [ids |-> ids, rels |-> rels, supports |-> supports, tombs |-> tombs]
  OBVIOUS
<1>22. n = Alike!Stated(s, r, u, ids, now)
  BY <1>2, <1>3, <1>5, <1>6, <1>11, <1>12, <1>13, <1>21 DEF Alike!Stated
<1>23. n \in Snapshots /\ n.ids = ids /\ n.rels = rels /\ n.supports = supports /\ n.tombs = tombs
  BY <1>1, <1>14, <1>15, <1>16, <1>21 DEF Snapshots
<1>24. Coherent(n)
  BY <1>1, <1>17, <1>18, <1>19, <1>20, <1>23 DEF Coherent
<1> QED
  BY <1>22, <1>24

LEMMA ExtractKeeps ==
  ASSUME MeetInv, RanksAssumption, NEW d \in Devices, NEW u \in Units, Alike!Extract(d, u)
  PROVE  MeetInv'
<1>1. PICK s : s = base[d]
  OBVIOUS
<1>2. Coherent(s)
  BY <1>1 DEF MeetInv
<1>3. PICK ids : ids = Alike!EntitiesOf(s, d)
  OBVIOUS
<1>4. PICK known : known = Alike!Between(s, Alike!EndsOf(ids))
  OBVIOUS
<1>5. PICK r : r = IF known = {} THEN d ELSE CHOOSE x \in known : TRUE
  OBVIOUS
<1>6. Alike!Write(d, Alike!Stated(s, r, u, ids, Alike!Now(d)))
  BY <1>1, <1>3, <1>4, <1>5 DEF Alike!Extract
<1>7. known = DOMAIN s.rels
  <2>1. \A x \in DOMAIN s.rels : s.rels[x].ends = Alike!EndsOf(ids)
    BY <1>2, <1>3, EntitiesAre DEF Coherent
  <2> QED
    BY <1>4, <2>1 DEF Alike!Between
<1>8. r \in Devices /\ (DOMAIN s.rels = {} \/ r \in DOMAIN s.rels)
  BY <1>2, <1>5, <1>7, CoherentParts
<1>9. Coherent(Alike!Stated(s, r, u, ids, Alike!Now(d)))
  BY <1>2, <1>3, <1>8, MomentIsNat, StatedIs
<1> QED
  BY <1>6, <1>9, WriteKeepsOne

LEMMA DeleteKeeps ==
  ASSUME MeetInv, RanksAssumption, NEW d \in Devices, NEW key \in DOMAIN base[d].supports, Alike!Delete(d, key)
  PROVE  MeetInv'
<1>1. PICK s : s = base[d]
  OBVIOUS
<1>2. Coherent(s) /\ s \in Snapshots /\ s.supports \in Stamped /\ s.tombs \in Stamped
  BY <1>1 DEF MeetInv, Coherent, Snapshots
<1>3. key \in DOMAIN s.supports /\ key \in Devices \X Units /\ s.supports[key].rev \in Nat
  BY <1>1, <1>2, CoherentParts DEF Revision
<1>4. PICK rev \in Nat : rev = Alike!Successor(Alike!Now(d), {s.supports[key].rev})
  BY <1>3, MomentIsNat, SuccessorIsNat
<1>5. PICK tomb : tomb = [x \in {key} |-> [rev |-> rev]]
  OBVIOUS
<1>6. tomb \in Stamped
  <2>1. tomb \in [{key} -> Revision] /\ {key} \subseteq Devices \X Units
    BY <1>3, <1>5 DEF Revision
  <2> QED
    BY <2>1, TableMade DEF Stamped
<1>7. PICK supports : supports = Alike!Without(s.supports, {key})
  OBVIOUS
<1>8. PICK tombs : tombs = Alike!Over(tomb, s.tombs)
  OBVIOUS
<1>9. supports \in Stamped /\ DOMAIN supports = DOMAIN s.supports \ {key}
  <2>1. supports \in Stamped /\ Cuts(supports, s.supports, DOMAIN s.supports \ {key})
    BY <1>2, <1>7, WithoutMade DEF Stamped
  <2> QED
    BY <2>1 DEF Cuts
<1>10. tombs \in Stamped /\ DOMAIN tombs = {key} \cup DOMAIN s.tombs
  <2>1. tombs \in Stamped /\ Covers(tombs, tomb, s.tombs)
    BY <1>2, <1>6, <1>8, OverMade DEF Stamped
  <2> QED
    BY <1>5, <2>1 DEF Covers
<1>11. PICK n : n = [s EXCEPT !.supports = supports, !.tombs = tombs]
  OBVIOUS
<1>12. Alike!Write(d, n)
  BY <1>1, <1>4, <1>5, <1>7, <1>8, <1>11 DEF Alike!Delete
<1>13. n \in Snapshots /\ n.ids = s.ids /\ n.rels = s.rels /\ n.supports = supports /\ n.tombs = tombs
  BY <1>2, <1>9, <1>10, <1>11 DEF Snapshots
<1>14. Coherent(n)
  BY <1>2, <1>9, <1>10, <1>13 DEF Coherent
<1> QED
  BY <1>12, <1>14, WriteKeepsOne

-----------------------------------------------------------------------------
(* The exchange *)

LEMMA ImportKeepsOne ==
  ASSUME MeetInv, NEW d \in Devices, NEW p \in Devices, Alike!Import(d, p)
  PROVE  MeetInv'
<1>1. PICK a : a = Imported(base[d], file[p])
  OBVIOUS
<1>2. base' = [base EXCEPT ![d] = a] /\ file' = file /\ writes' = writes
  BY <1>1 DEF Alike!Import, Alike!After, Imported
<1>3. Coherent(a)
  BY <1>1, ImportIs DEF MeetInv, Rests
<1>4. a \in Snapshots
  BY <1>3 DEF Coherent
<1>5. base' \in [Devices -> Snapshots] /\ \A e \in Devices : base'[e] = IF e = d THEN a ELSE base[e]
  BY <1>2, <1>4 DEF MeetInv
<1> QED
  BY <1>2, <1>3, <1>5 DEF MeetInv

LEMMA ExportKeepsOne ==
  ASSUME MeetInv, NEW d \in Devices, Alike!Export(d)
  PROVE  MeetInv'
<1>1. file' = [file EXCEPT ![d] = base[d]] /\ base' = base /\ writes' = writes
  BY DEF Alike!Export
<1>2. file' \in [Devices -> Snapshots] /\ \A e \in Devices : file'[e] = IF e = d THEN base[d] ELSE file[e]
  BY <1>1 DEF MeetInv
<1> QED
  BY <1>1, <1>2 DEF MeetInv

LEMMA MeetInit == Alike!Init /\ RanksAssumption => MeetInv
<1> SUFFICES ASSUME Alike!Init, RanksAssumption PROVE MeetInv
  OBVIOUS
<1>1. <<>> \in Identities /\ <<>> \in RelationRows /\ <<>> \in Stamped
  <2>1. \A R : <<>> \in [{} -> R]
    OBVIOUS
  <2> QED
    BY <2>1, TableMade DEF Identities, RelationRows, Stamped
<1>2. Alike!Empty \in Snapshots
  BY <1>1 DEF Alike!Empty, Snapshots
<1>3. DOMAIN Alike!Empty.ids = {} /\ DOMAIN Alike!Empty.rels = {} /\ DOMAIN Alike!Empty.supports = {}
  BY DEF Alike!Empty
<1>4. Coherent(Alike!Empty)
  BY <1>2, <1>3 DEF Coherent
<1> QED
  BY <1>2, <1>4 DEF Alike!Init, MeetInv, RanksAssumption

LEMMA MeetStep == MeetInv /\ RanksAssumption /\ [Alike!Next]_Alike!vars => MeetInv'
<1> SUFFICES ASSUME MeetInv, RanksAssumption, [Alike!Next]_Alike!vars PROVE MeetInv'
  OBVIOUS
<1>1. CASE UNCHANGED Alike!vars
  BY <1>1 DEF Alike!vars, MeetInv
<1>2. ASSUME NEW d \in Devices, Alike!Mention(d) PROVE MeetInv'
  BY <1>2, MentionKeeps
<1>3. ASSUME NEW d \in Devices, NEW u \in Units, Alike!Extract(d, u) PROVE MeetInv'
  BY <1>3, ExtractKeeps
<1>4. ASSUME NEW d \in Devices, NEW key \in DOMAIN base[d].supports, Alike!Delete(d, key) PROVE MeetInv'
  BY <1>4, DeleteKeeps
<1>5. ASSUME NEW d \in Devices, Alike!Export(d) PROVE MeetInv'
  BY <1>5, ExportKeepsOne
<1>6. ASSUME NEW d \in Devices, NEW p \in Devices, Alike!Import(d, p) PROVE MeetInv'
  BY <1>6, ImportKeepsOne
<1> QED
  BY <1>1, <1>2, <1>3, <1>4, <1>5, <1>6 DEF Alike!Next

-----------------------------------------------------------------------------
(* What the invariant says of devices at rest *)

(* A support of the peer is here after an import, or a tombstone of this   *)
(* device bars it.                                                         *)
LEMMA SupportArrives ==
  ASSUME NEW s, NEW f, Coherent(s), Coherent(f), NEW k \in DOMAIN f.supports
  PROVE  \E q \in DOMAIN Imported(s, f).rels : LET key == <<q, k[2]>> IN
            \/ key \in DOMAIN Imported(s, f).supports
            \/ /\ key \in DOMAIN Imported(s, f).tombs
               /\ ~ (Imported(s, f).tombs[key].rev < f.supports[k].rev)
<1>1. PICK b, g, h : Buries(b, s, f) /\ Grows(g, b, f) /\ Receives(h, g, f) /\ Rests(Imported(s, f), h)
  BY ImportIs
<1>2. PICK key : key = Alike!Key(Alike!Met(g, f), k)
  OBVIOUS
<1>3. key \in DOMAIN h.supports \/ (key \in DOMAIN h.tombs /\ ~ (h.tombs[key].rev < f.supports[k].rev))
  BY <1>1, <1>2 DEF Receives
<1>4. k[1] \in DOMAIN f.rels
  BY DEF Coherent
<1>5. PICK q \in DOMAIN g.rels : TRUE
  BY <1>1, <1>4 DEF Grows
<1>6. key = <<q, k[2]>>
  <2>1. Meets(Alike!Met(g, f), g, f)
    BY <1>1, MetIs DEF Grows
  <2> QED
    BY <1>2, <1>4, <2>1 DEF Meets, Alike!Key
<1>7. q \in DOMAIN Imported(s, f).rels
  BY <1>1 DEF Receives, Rests
<1>8. DOMAIN Imported(s, f).supports = DOMAIN h.supports /\ Imported(s, f).tombs = h.tombs
  BY <1>1 DEF Rests
<1> QED
  BY <1>3, <1>6, <1>7, <1>8

(* A tombstone of the peer takes the support of this device, under the id  *)
(* that the relation has here.                                             *)
LEMMA TombstoneArrives ==
  ASSUME NEW s, NEW f, Coherent(s), Coherent(f),
         NEW q \in DOMAIN f.rels, NEW r \in DOMAIN s.rels, NEW u,
         <<q, u>> \in DOMAIN f.tombs, <<r, u>> \in DOMAIN s.supports,
         ~ (f.tombs[<<q, u>>].rev < s.supports[<<r, u>>].rev),
         q = r \/ s.ids # f.ids
  PROVE  <<r, u>> \notin DOMAIN Imported(s, f).supports
<1>1. PICK b, g, h : Buries(b, s, f) /\ Grows(g, b, f) /\ Receives(h, g, f) /\ Rests(Imported(s, f), h)
  BY ImportIs
<1>2. Meets(Alike!Met(s, f), s, f)
  BY MetIs
<1>3. Alike!Key(Alike!Prescanned(s, f), <<q, u>>) = <<r, u>>
  <2>1. CASE Alike!EntityMap(s, f) = <<>>
    <3>1. DOMAIN s.ids = Alike!Names /\ DOMAIN f.ids = Alike!Names
      BY DEF Coherent
    <3>2. \A n \in Alike!Names : f.ids[n] = s.ids[n]
      BY <2>1, <3>1, EntityMapIs
    <3>3. s.ids \in Identities /\ f.ids \in Identities
      BY DEF Coherent, Snapshots
    <3>4. s.ids = [n \in Alike!Names |-> s.ids[n]] /\ f.ids = [n \in Alike!Names |-> f.ids[n]]
      BY <3>1, <3>3, TableOf DEF Identities
    <3>5. s.ids = f.ids
      BY <3>2, <3>4
    <3>6. q = r
      BY <3>5
    <3>7. DOMAIN <<>> = {}
      OBVIOUS
    <3> QED
      BY <2>1, <3>6, <3>7 DEF Alike!Prescanned, Alike!Key, Alike!Image
  <2>2. CASE Alike!EntityMap(s, f) # <<>>
    BY <1>2, <2>2 DEF Alike!Prescanned, Alike!Key, Meets
  <2> QED
    BY <2>1, <2>2
<1>4. <<r, u>> \notin DOMAIN b.supports
  <2>1. s.supports[<<r, u>>].rev \in Nat /\ f.tombs[<<q, u>>].rev \in Nat
    BY CoherentParts DEF Revision
  <2>2. s.supports[<<r, u>>].rev <= f.tombs[<<q, u>>].rev
    BY <2>1
  <2> QED
    BY <1>1, <1>3, <2>2 DEF Buries
<1>5. <<r, u>> \notin DOMAIN g.supports
  BY <1>1, <1>4 DEF Grows
<1>6. ASSUME NEW k \in DOMAIN f.supports, <<r, u>> = Alike!Key(Alike!Met(g, f), k) PROVE FALSE
  <2>1. k \in Devices \X Units /\ k[1] \in DOMAIN f.rels
    BY CoherentParts DEF Coherent
  <2>2. k[1] = q /\ k[2] = u
    BY <1>6, <2>1 DEF Alike!Key, Coherent
  <2>3. k = <<q, u>>
    BY <2>1, <2>2
  <2> QED
    BY <2>3 DEF Coherent
<1>7. <<r, u>> \notin DOMAIN h.supports
  BY <1>1, <1>5, <1>6 DEF Receives
<1> QED
  BY <1>1, <1>7 DEF Rests

LEMMA DeletesArriveAtRest == MeetInv => Alike!DeletesArrive
<1> SUFFICES ASSUME MeetInv, Alike!Quiet, ~ Alike!MintedAlone, NEW d \in Devices, NEW p \in Devices,
                    NEW u \in Alike!SupportedBy(base[p])
             PROVE  u \in Alike!SupportedBy(base[d])
  BY DEF Alike!DeletesArrive
<1>1. \A e \in Devices : Coherent(base[e]) /\ file[e] = base[e]
  BY DEF MeetInv, Alike!Quiet
<1>2. CASE d = p
  BY <1>2
<1>3. CASE d # p
  <2>1. Imported(base[d], base[p]) = base[d] /\ Imported(base[p], base[d]) = base[p]
    BY <1>1, <1>3 DEF Alike!Quiet, Alike!After, Imported
  <2>2. PICK k \in DOMAIN base[p].supports : u = k[2]
    BY DEF Alike!SupportedBy
  <2>3. PICK r \in DOMAIN base[p].rels : k = <<r, u>>
    <3>1. k \in Devices \X Units /\ k[1] \in DOMAIN base[p].rels
      BY <1>1, CoherentParts DEF Coherent
    <3> QED
      BY <2>2, <3>1
  <2>4. PICK q \in DOMAIN base[d].rels :
            \/ <<q, u>> \in DOMAIN base[d].supports
            \/ /\ <<q, u>> \in DOMAIN base[d].tombs
               /\ ~ (base[d].tombs[<<q, u>>].rev < base[p].supports[k].rev)
    BY <1>1, <2>1, <2>2, SupportArrives
  <2>5. CASE <<q, u>> \in DOMAIN base[d].supports
    BY <2>5 DEF Alike!SupportedBy
  <2>6. CASE <<q, u>> \in DOMAIN base[d].tombs /\ ~ (base[d].tombs[<<q, u>>].rev < base[p].supports[k].rev)
    <3>1. q = r \/ base[p].ids # base[d].ids
      <4>1. DOMAIN base[p].rels = DOMAIN base[d].rels \/ base[p].ids # base[d].ids
        BY DEF Alike!MintedAlone
      <4> QED
        BY <1>1, <4>1 DEF Coherent
    <3>2. <<r, u>> \notin DOMAIN base[p].supports
      BY <1>1, <2>1, <2>2, <2>3, <2>6, <3>1, TombstoneArrives
    <3> QED
      BY <2>2, <2>3, <3>2
  <2> QED
    BY <2>4, <2>5, <2>6
<1> QED
  BY <1>2, <1>3

LEMMA CoherentMeets == MeetInv => Alike!TypeOK /\ Alike!NothingDangles /\ Alike!OneRowPerRelation
<1> SUFFICES ASSUME MeetInv PROVE Alike!TypeOK /\ Alike!NothingDangles /\ Alike!OneRowPerRelation
  OBVIOUS
<1>1. ASSUME NEW s, Coherent(s)
      PROVE  /\ \A n \in DOMAIN s.ids : n \in Alike!Names /\ s.ids[n] \in {n} \X Devices
             /\ DOMAIN s.rels \subseteq Devices
             /\ \A r \in DOMAIN s.rels : s.rels[r] \in [ends : Alike!Ends, rev : Nat]
             /\ \A T \in {s.supports, s.tombs} :
                   DOMAIN T \subseteq Devices \X Units /\ \A key \in DOMAIN T : T[key] \in [rev : Nat]
             /\ DOMAIN s.supports \cap DOMAIN s.tombs = {}
  <2>1. \A n \in DOMAIN s.ids : n \in Alike!Names /\ s.ids[n] \in {n} \X Devices
    BY <1>1, CoherentParts
  <2>2. \A r \in DOMAIN s.rels : s.rels[r] \in [ends : Alike!Ends, rev : Nat]
    BY <1>1, CoherentParts DEF RelationRow
  <2>3. \A T \in {s.supports, s.tombs} :
           DOMAIN T \subseteq Devices \X Units /\ \A key \in DOMAIN T : T[key] \in [rev : Nat]
    BY <1>1, CoherentParts DEF Revision
  <2> QED
    BY <1>1, <2>1, <2>2, <2>3, CoherentParts DEF Coherent
<1>2. Alike!TypeOK
  <2>1. \A s \in {base[d] : d \in Devices} \cup {file[d] : d \in Devices} : Coherent(s)
    BY DEF MeetInv
  <2>2. writes \in 0..MaxWrites
    BY DEF MeetInv
  <2> QED
    BY <1>1, <2>1, <2>2 DEF Alike!TypeOK
<1>3. Alike!NothingDangles
  <2> SUFFICES ASSUME NEW d \in Devices
               PROVE  LET s == base[d] IN
                         /\ \A r \in DOMAIN s.rels :
                               {s.rels[r].ends.from, s.rels[r].ends.to} \subseteq {s.ids[n] : n \in DOMAIN s.ids}
                         /\ \A key \in DOMAIN s.supports : key[1] \in DOMAIN s.rels
    BY DEF Alike!NothingDangles
  <2>1. PICK s : s = base[d] /\ Coherent(s)
    BY DEF MeetInv
  <2>2. ASSUME NEW r \in DOMAIN s.rels
        PROVE  {s.rels[r].ends.from, s.rels[r].ends.to} \subseteq {s.ids[n] : n \in DOMAIN s.ids}
    <3>1. DOMAIN s.ids = Alike!Names /\ s.rels[r].ends = Alike!EndsOf(s.ids)
      BY <2>1 DEF Coherent
    <3>2. s.rels[r].ends.from = s.ids["subject"] /\ s.rels[r].ends.to = s.ids["object"]
      BY <3>1 DEF Alike!EndsOf
    <3> QED
      BY <3>1, <3>2 DEF Alike!Names
  <2> QED
    BY <2>1, <2>2 DEF Coherent
<1>4. Alike!OneRowPerRelation
  BY DEF MeetInv, Coherent, Alike!OneRowPerRelation
<1> QED
  BY <1>2, <1>3, <1>4

(* Identities that devices chose alone become one: for any number of       *)
(* devices, whatever they extract and delete, an import leaves no row that *)
(* refers to another device's id, no second row of the relation, and at    *)
(* rest no support that a peer has deleted.                                *)
THEOREM IdentitiesAlwaysMeet ==
  ASSUME RanksAssumption
  PROVE  Alike!Spec => []IdentitiesMeet
<1>1. MeetInv => IdentitiesMeet
  BY DeletesArriveAtRest, CoherentMeets DEF IdentitiesMeet, Alike!IdentitiesMeet
<1>2. Alike!Init => MeetInv
  BY MeetInit
<1>3. MeetInv /\ [Alike!Next]_Alike!vars => MeetInv'
  BY MeetStep
<1> QED
  BY <1>1, <1>2, <1>3, PTL DEF Alike!Spec
=============================================================================
