--------------------------- MODULE CompileSource ---------------------------
(***************************************************************************)
(* The L2 compile of one source (pipeline/compile.py compile_source_l2,     *)
(* knowledge_units.extract_knowledge_units, claim_support.reconcile_source): *)
(* knowledge units are extracted batch by batch and stored without a        *)
(* generation, stamped with a staged generation, and published with it in   *)
(* one transaction; the pages are a projection emitted after the commit.    *)
(*                                                                         *)
(* A text is the set of its spans, one batch per span; a claim is a         *)
(* statement, and Grounded are the ones the support check verifies.  A      *)
(* retired or deleted row is out of the model, and its id can be given out  *)
(* again once nobody refers to it.                                          *)
(***************************************************************************)
EXTENDS Naturals, FiniteSets

CONSTANTS
    Compiles,     \* processes that compile this source
    Spans,        \* span contents
    Texts,        \* what the source may contain: sets of spans
    Edits,        \* bound: the edits of it, pairs of texts
    Claims,       \* statements a batch may yield
    Grounded,     \* those the span's text supports
    Prompts,      \* packings of spans into prompts (the client's budget decides)
    MaxUnits,     \* bound: rows of knowledge_units in use at a time
    MaxGens       \* bound: rows of compiler_generations in use at a time

UnitIds == 1 .. MaxUnits
GenIds  == 1 .. MaxGens
NoGen   == 0
None    == "none"     \* no row, no marker, no prompt

ASSUME ConstantsAssumption ==
    /\ MaxUnits \in Nat /\ MaxGens \in Nat
    /\ Texts # {} /\ Texts \subseteq SUBSET Spans /\ Edits \subseteq Texts \X Texts
    /\ Grounded \subseteq Claims /\ None \notin Prompts

VARIABLES
    file,       \* the text in the vault
    content,    \* sources.content_hash: the text that was registered last
    stored,     \* source_spans of the source
    unit,       \* live knowledge_units: span, claim, prompt, gen, support; or none
    gen,        \* compiler_generations: status, content_hash of the audit;
                \* history: the text its units were extracted from
    l2, marker, \* sources.l2_status; sources.layer_error, as far as code reads it
    pages,      \* the ATM pages on disk: unit ids with their claims
    clustering, \* compile_global_l3 read this source as L2-done, has yet to write
    pc,         \* where each compile is
    prompt,     \* what it renders batches with
    text,       \* the text it parsed
    adoptable,  \* unit ids an extraction may adopt
    todo,       \* spans whose batch it has not run
    mine,       \* unit ids its extraction returned so far
    staged,     \* its generation
    hash,       \* the fingerprint it read before publishing
    owed,       \* history: a published generation is not projected yet
    paid        \* history: batches extracted and not published

source  == <<file, content, l2, marker>>
process == <<prompt, text, adoptable, todo, mine, staged, hash>>
vars == <<file, content, stored, unit, gen, l2, marker, pages, clustering, pc,
          prompt, text, adoptable, todo, mine, staged, hash, owed, paid>>

NoUnit == [span |-> None, claim |-> None, prompt |-> None, gen |-> NoGen, support |-> None]

Live == {u \in UnitIds : unit[u].support # None}
Authoritative == {g \in GenIds : gen[g].status = "authoritative"}

(* list_serving_units *)
Served == {u \in Live : unit[u].support = "verified" /\ unit[u].gen \in Authoritative}

(* What a reader gets: the ids with their claims. *)
Serving == {<<u, unit[u].claim>> : u \in Served}

Discarded == [status |-> "discarded", hash |-> {}, text |-> {}]

Idle(c) == pc[c] = "idle"
Alone   == \A c \in Compiles : Idle(c)
Goto(c, label) == pc' = [pc EXCEPT ![c] = label]

(* What the compile knows of its extraction is of no use any more. *)
Forget(c, label) ==
    /\ Goto(c, label)
    /\ prompt' = [prompt EXCEPT ![c] = None]
    /\ text' = [text EXCEPT ![c] = {}]
    /\ adoptable' = [adoptable EXCEPT ![c] = {}]
    /\ todo' = [todo EXCEPT ![c] = {}]
    /\ mine' = [mine EXCEPT ![c] = {}]
    /\ staged' = [staged EXCEPT ![c] = NoGen]
    /\ hash' = [hash EXCEPT ![c] = {}]

(* The compile returns, or its process is gone. *)
Leave(c) == Forget(c, "idle")

Init ==
    /\ file \in Texts /\ content = file
    /\ stored = {}
    /\ unit = [u \in UnitIds |-> NoUnit]
    /\ gen = [g \in GenIds |-> Discarded]
    /\ l2 = "pending" /\ marker = None
    /\ pages = {}
    /\ clustering = FALSE
    /\ pc = [c \in Compiles |-> "idle"]
    /\ prompt = [c \in Compiles |-> None]
    /\ text = [c \in Compiles |-> {}]
    /\ adoptable = [c \in Compiles |-> {}]
    /\ todo = [c \in Compiles |-> {}]
    /\ mine = [c \in Compiles |-> {}]
    /\ staged = [c \in Compiles |-> NoGen]
    /\ hash = [c \in Compiles |-> {}]
    /\ owed = FALSE
    /\ paid = {}

-----------------------------------------------------------------------------
(* The user and the other commands *)

EditFile(t) ==
    /\ <<file, t>> \in Edits
    /\ file' = t
    /\ UNCHANGED <<content, stored, unit, gen, l2, marker, pages, clustering, pc, process, owed, paid>>

(* `wiki add` of a changed file: everything is pending again. *)
Register ==
    /\ content # file
    /\ content' = file
    /\ l2' = "pending" /\ marker' = None /\ owed' = FALSE
    /\ UNCHANGED <<file, stored, unit, gen, pages, clustering, pc, process, paid>>

(* A forced build starts over. *)
ForceBuild ==
    /\ l2' = "pending" /\ marker' = None /\ owed' = FALSE
    /\ UNCHANGED <<file, content, stored, unit, gen, pages, clustering, pc, process, paid>>

(* Mutant: recovery clears the post-publish marker too.                     *)
ClearOnRecovery ==
    /\ l2 = "running"
    /\ l2' = "pending" /\ marker' = None
    /\ UNCHANGED <<file, content, stored, unit, gen, pages, clustering, pc, process, owed, paid>>

(* recover_stale_jobs keeps the post-publish marker and nothing else. *)
RecoverStale ==
    /\ l2 = "running"
    /\ l2' = "pending"
    /\ marker' = IF marker \in {"pending", "failed"} THEN marker ELSE None
    /\ UNCHANGED <<file, content, stored, unit, gen, pages, clustering, pc, process, owed, paid>>

(* compile_global_l3 reads the sources whose L2 is done and, some queries   *)
(* later, writes their L3 status, and with it layer_error.                  *)
ClusterRead ==
    /\ l2 = "done"
    /\ clustering' = TRUE
    /\ UNCHANGED <<source, stored, unit, gen, pages, pc, process, owed, paid>>

ClusterWrite ==
    /\ clustering
    /\ clustering' = FALSE
    /\ marker' \in {None, "other"}
    /\ UNCHANGED <<file, content, stored, unit, gen, l2, pages, pc, process, owed, paid>>

-----------------------------------------------------------------------------
(* Starting a compile *)

(* The authoritative generation is published from the registered text and   *)
(* its projection is still owed.                                            *)
Recoverable ==
    /\ \E g \in Authoritative : gen[g].hash = content
    /\ marker = "pending" \/ (l2 = "error" /\ marker = "failed")

StartRecovery(c) ==
    /\ Idle(c)
    /\ Recoverable
    /\ Goto(c, "published")
    /\ UNCHANGED <<source, stored, unit, gen, pages, clustering, process, owed, paid>>

StartCompile(c) ==
    /\ Idle(c)
    /\ ~Recoverable
    /\ l2' = "running" /\ marker' = None
    /\ \E p \in Prompts : prompt' = [prompt EXCEPT ![c] = p]
    /\ Goto(c, "started")
    /\ UNCHANGED <<file, content, stored, unit, gen, pages, clustering,
                   text, adoptable, todo, mine, staged, hash, owed, paid>>

(* Parse the file and store its spans. *)
Parse(c) ==
    /\ pc[c] = "started"
    /\ text' = [text EXCEPT ![c] = file]
    /\ stored' = stored \cup file
    /\ Goto(c, "parsed")
    /\ UNCHANGED <<source, unit, gen, pages, clustering,
                   prompt, adoptable, todo, mine, staged, hash, owed, paid>>

(* Mutant: what a killed compile staged stays pinned to its generation. *)
KeepOrphans(c) ==
    /\ pc[c] = "parsed"
    /\ gen' = [g \in GenIds |-> IF gen[g].status = "staged" THEN Discarded ELSE gen[g]]
    /\ Goto(c, "released")
    /\ UNCHANGED <<source, stored, unit, pages, clustering, process, owed, paid>>

(* Every generation still staged is taken for a dead run's: its units go    *)
(* back to the pool a resume adopts from.                                   *)
ReleaseOrphans(c) ==
    /\ pc[c] = "parsed"
    /\ unit' = [u \in UnitIds |-> IF unit[u].gen # NoGen /\ gen[unit[u].gen].status = "staged"
                                 THEN [unit[u] EXCEPT !.gen = NoGen] ELSE unit[u]]
    /\ gen' = [g \in GenIds |-> IF gen[g].status = "staged" THEN Discarded ELSE gen[g]]
    /\ Goto(c, "released")
    /\ UNCHANGED <<source, stored, pages, clustering, process, owed, paid>>

-----------------------------------------------------------------------------
(* Extraction *)

(* _adoptable_unit_ids *)
Pool == {u \in Live : unit[u].gen = NoGen /\ unit[u].span \in stored}

(* What a resume cannot adopt is discarded before the first batch. *)
Sweep(c) ==
    /\ pc[c] = "released"
    /\ adoptable' = [adoptable EXCEPT ![c] = Pool]
    /\ unit' = [u \in UnitIds |-> IF u \in Live \ Pool /\ unit[u].gen = NoGen
                                 THEN NoUnit ELSE unit[u]]
    /\ todo' = [todo EXCEPT ![c] = text[c]]
    /\ mine' = [mine EXCEPT ![c] = {}]
    /\ Goto(c, "extracting")
    /\ UNCHANGED <<source, stored, gen, pages, clustering, prompt, text, staged, hash, owed, paid>>

(* The rows of completed runs of this very batch, each of a run of its own. *)
Completed(c, s) ==
    {u \in Live \cap adoptable[c] :
        unit[u].gen = NoGen /\ unit[u].span = s /\ unit[u].prompt = prompt[c]}

AdoptBatch(c, s) ==
    /\ pc[c] = "extracting" /\ s \in todo[c]
    /\ Cardinality(Completed(c, s)) = 1
    /\ mine' = [mine EXCEPT ![c] = @ \cup Completed(c, s)]
    /\ todo' = [todo EXCEPT ![c] = @ \ {s}]
    /\ UNCHANGED <<source, stored, unit, gen, pages, clustering, pc,
                   prompt, text, adoptable, staged, hash, owed, paid>>

FreeIds == {u \in UnitIds \ Live : \A c \in Compiles : u \notin mine[c] \cup adoptable[c]}

(* The model is asked: the batch yields no claim, or one that is stored.    *)
ExtractBatch(c, s) ==
    /\ pc[c] = "extracting" /\ s \in todo[c]
    /\ Cardinality(Completed(c, s)) # 1
    /\ \/ UNCHANGED <<unit, mine, paid>>
       \/ \E u \in FreeIds, claim \in Claims :
             /\ \A v \in FreeIds : u <= v
             /\ unit' = [unit EXCEPT ![u] =
                   [span |-> s, claim |-> claim, prompt |-> prompt[c],
                    gen |-> NoGen, support |-> "unchecked"]]
             /\ mine' = [mine EXCEPT ![c] = @ \cup {u}]
             /\ paid' = paid \cup {<<s, prompt[c]>>}
    /\ todo' = [todo EXCEPT ![c] = @ \ {s}]
    /\ UNCHANGED <<source, stored, gen, pages, clustering, pc,
                   prompt, text, adoptable, staged, hash, owed>>

(* A parse or a batch fails for good; the batches before it are kept. *)
FailExtraction(c) ==
    /\ pc[c] \in {"started", "extracting"}
    /\ l2' = "error" /\ marker' = "other"
    /\ Leave(c)
    /\ UNCHANGED <<file, content, stored, unit, gen, pages, clustering, owed, paid>>

FreeGens == {g \in GenIds : /\ gen[g] = Discarded
                            /\ \A u \in UnitIds : unit[u].gen # g
                            /\ \A c \in Compiles : staged[c] # g}

(* Every batch returned: a staged generation is opened. *)
EndExtraction(c) ==
    /\ pc[c] = "extracting" /\ todo[c] = {}
    /\ \E g \in FreeGens :
          /\ \A h \in FreeGens : g <= h
          /\ gen' = [gen EXCEPT ![g].status = "staged"]
          /\ staged' = [staged EXCEPT ![c] = g]
    /\ adoptable' = [adoptable EXCEPT ![c] = {}]
    /\ prompt' = [prompt EXCEPT ![c] = None]
    /\ Goto(c, "staged")
    /\ UNCHANGED <<source, stored, unit, pages, clustering,
                   text, todo, mine, hash, owed, paid>>

-----------------------------------------------------------------------------
(* Staging *)

(* UPDATE ... WHERE id = ?: whatever generation the rows had. *)
Stamp(c) ==
    /\ pc[c] = "staged"
    /\ unit' = [u \in UnitIds |-> IF u \in mine[c] \cap Live
                                 THEN [unit[u] EXCEPT !.gen = staged[c]] ELSE unit[u]]
    /\ Goto(c, "stamped")
    /\ UNCHANGED <<source, stored, gen, pages, clustering, process, owed, paid>>

Verdict(claim) == IF claim \in Grounded THEN "verified" ELSE "failed"

(* One call per unit; nobody reads the support of a staged unit before all  *)
(* of them have one.                                                        *)
Validate(c) ==
    /\ pc[c] = "stamped"
    /\ unit' = [u \in UnitIds |-> IF u \in mine[c] \cap Live
                   THEN [unit[u] EXCEPT !.support = Verdict(unit[u].claim)] ELSE unit[u]]
    /\ Goto(c, "validated")
    /\ UNCHANGED <<source, stored, gen, pages, clustering, process, owed, paid>>

(* Graph extraction and the publish gate passed; the fingerprint is read.   *)
Gate(c) ==
    /\ pc[c] = "validated"
    /\ hash' = [hash EXCEPT ![c] = content]
    /\ Goto(c, "gated")
    /\ UNCHANGED <<source, stored, unit, gen, pages, clustering,
                   prompt, text, adoptable, todo, mine, staged, owed, paid>>

(* They did not, or anything raised, the publish transaction included. *)
FailStaged(c) ==
    /\ pc[c] \in {"staged", "stamped", "validated", "gated"}
    /\ Goto(c, "failing")
    /\ UNCHANGED <<source, stored, unit, gen, pages, clustering, process, owed, paid>>

(* Mutant: a failed compile releases every unit of the source.              *)
ReleaseEverything(c) ==
    /\ pc[c] = "failing"
    /\ unit' = [u \in UnitIds |-> [unit[u] EXCEPT !.gen = NoGen]]
    /\ Goto(c, "discarding")
    /\ UNCHANGED <<source, stored, gen, pages, clustering, process, owed, paid>>

(* _release_staged_units_for_resume, discard_compiler_generation, l2 error. *)
ReleaseUnits(c) ==
    /\ pc[c] = "failing"
    /\ unit' = [u \in UnitIds |-> IF unit[u].gen = staged[c]
                                 THEN [unit[u] EXCEPT !.gen = NoGen] ELSE unit[u]]
    /\ Goto(c, "discarding")
    /\ UNCHANGED <<source, stored, gen, pages, clustering, process, owed, paid>>

DiscardGeneration(c) ==
    /\ pc[c] = "discarding"
    /\ gen' = [gen EXCEPT ![staged[c]] = IF @.status = "staged" THEN Discarded ELSE @]
    /\ Goto(c, "failed")
    /\ UNCHANGED <<source, stored, unit, pages, clustering, process, owed, paid>>

(* Mutant: the layer is given the status of a job.                          *)
SetErrorAsJob(c) ==
    /\ pc[c] = "failed"
    /\ l2' = "failed" /\ marker' = "other"
    /\ Leave(c)
    /\ UNCHANGED <<file, content, stored, unit, gen, pages, clustering, owed, paid>>

SetError(c) ==
    /\ pc[c] = "failed"
    /\ l2' = "error" /\ marker' = "other"
    /\ Leave(c)
    /\ UNCHANGED <<file, content, stored, unit, gen, pages, clustering, owed, paid>>

-----------------------------------------------------------------------------
(* Publishing *)

(* The units of the extraction that may take over or supersede a prior one. *)
Candidates(c) == {u \in Live \cap mine[c] : unit[u].support = "verified"}
Prior(c)      == Live \ mine[c]

(* reconcile_source gives each prior unit the first candidate left with its  *)
(* statement, in the order of the rows.                                     *)
Rank(u, S)   == Cardinality({v \in S : unit[v].claim = unit[u].claim /\ v < u})
Heir(u, x, c) == /\ u \in Prior(c) /\ x \in Candidates(c)
                 /\ unit[x].claim = unit[u].claim
                 /\ Rank(x, Candidates(c)) = Rank(u, Prior(c))

(* Mutant: reconciliation keeps a prior unit whatever became of its span.   *)
CarryAll(u, c) ==
    \A x \in Candidates(c) : unit[x].span # unit[u].span

(* An omission: its span is still there and no candidate cites it.          *)
Omitted(u, c) ==
    /\ unit[u].span \in text[c]
    /\ \A x \in Candidates(c) : unit[x].span # unit[u].span

(* The row reconciliation leaves under each id. *)
Reconciled(c) ==
    [u \in UnitIds |->
        IF u \in Prior(c) THEN
            IF \E x \in UnitIds : Heir(u, x, c) THEN unit[CHOOSE x \in UnitIds : Heir(u, x, c)]
            ELSE IF Omitted(u, c) THEN [unit[u] EXCEPT !.gen = staged[c]] ELSE NoUnit
        ELSE IF \E v \in UnitIds : Heir(v, u, c) THEN NoUnit ELSE unit[u]]

(* Whatever is not in the generation to be published retires. *)
Retired(rows, g) == [u \in UnitIds |-> IF rows[u].gen = g THEN rows[u] ELSE NoUnit]

(* It becomes authoritative, with the fingerprint in its audit, and the one *)
(* before it is discarded.                                                  *)
Flipped(c) ==
    [g \in GenIds |->
        IF g = staged[c]
        THEN [status |-> "authoritative", hash |-> hash[c], text |-> text[c]]
        ELSE IF g \in Authoritative THEN Discarded ELSE gen[g]]

(* One transaction: reconcile, retire, flip, drop the spans that are gone,  *)
(* leave the marker.                                                        *)
Publish(c) ==
    /\ pc[c] = "gated"
    /\ gen[staged[c]].status = "staged"
    /\ unit' = Retired(Reconciled(c), staged[c])
    /\ gen' = Flipped(c)
    /\ stored' = stored \cap text[c]
    /\ marker' = "pending" /\ owed' = TRUE /\ paid' = {}
    /\ Forget(c, "published")
    /\ UNCHANGED <<file, content, l2, pages, clustering>>

-----------------------------------------------------------------------------
(* After the commit *)

(* Mutant: the pages of retired units stay.                                 *)
KeepStalePages(c) ==
    /\ pc[c] = "published"
    /\ Goto(c, "emitting")
    /\ UNCHANGED <<source, stored, unit, gen, pages, clustering, process, owed, paid>>

(* Pages of units that serve no longer are unlinked, then the others are    *)
(* written; a recovery emits all of them again.                             *)
EmitPages(c) ==
    /\ pc[c] = "published"
    /\ pages' = {p \in pages : p[1] \in Served}
    /\ Goto(c, "emitting")
    /\ UNCHANGED <<source, stored, unit, gen, clustering, process, owed, paid>>

WritePages(c) ==
    /\ pc[c] = "emitting"
    /\ pages' = {p \in pages : p[1] \notin Served} \cup Serving
    /\ Goto(c, "emitted")
    /\ UNCHANGED <<source, stored, unit, gen, clustering, process, owed, paid>>

FailProjection(c) ==
    /\ pc[c] \in {"published", "emitting"}
    /\ l2' = "error" /\ marker' = "failed"
    /\ Leave(c)
    /\ UNCHANGED <<file, content, stored, unit, gen, pages, clustering, owed, paid>>

EndCompile(c) ==
    /\ pc[c] = "emitted"
    /\ l2' = IF Served = {} THEN "skipped" ELSE "done"
    /\ marker' = None /\ owed' = FALSE
    /\ Leave(c)
    /\ UNCHANGED <<file, content, stored, unit, gen, pages, clustering, paid>>

(* The process dies, at any point. *)
Crash(c) ==
    /\ ~Idle(c)
    /\ Leave(c)
    /\ UNCHANGED <<source, stored, unit, gen, pages, clustering, owed, paid>>

-----------------------------------------------------------------------------
Start(c) == StartRecovery(c) \/ StartCompile(c)

Continue(c) ==
    \/ Parse(c) \/ ReleaseOrphans(c) \/ Sweep(c)
    \/ (\E s \in Spans : AdoptBatch(c, s) \/ ExtractBatch(c, s))
    \/ FailExtraction(c) \/ EndExtraction(c)
    \/ Stamp(c) \/ Validate(c) \/ Gate(c) \/ FailStaged(c)
    \/ ReleaseUnits(c) \/ DiscardGeneration(c) \/ SetError(c)
    \/ Publish(c) \/ EmitPages(c) \/ WritePages(c) \/ FailProjection(c) \/ EndCompile(c)

Outside == Register \/ ForceBuild \/ \E t \in Texts : EditFile(t)

(* Two compiles of one source may overlap: recover_stale_jobs gives the job *)
(* of a live worker to another one.                                         *)
Next ==
    \/ Outside \/ RecoverStale \/ ClusterRead \/ ClusterWrite
    \/ \E c \in Compiles : Start(c) \/ Continue(c) \/ Crash(c)

Spec == Init /\ [][Next]_vars

(* What the code assumes: "two compiles for one source never run            *)
(* concurrently", and a job is recovered when nobody runs it.               *)
SerialNext ==
    \/ Outside
    \/ Alone /\ RecoverStale
    \/ \E c \in Compiles : (Alone /\ Start(c)) \/ Continue(c) \/ Crash(c)

SerialSpec == Init /\ [][SerialNext]_vars

(* The same, while compile_global_l3 runs for the rest of the workspace. *)
ClusteredNext == SerialNext \/ ClusterRead \/ ClusterWrite

ClusteredSpec == Init /\ [][ClusteredNext]_vars

-----------------------------------------------------------------------------
(* Properties *)

Support == {"unchecked", "verified", "failed"}

(* The stages of a compile: before its generation is staged, while it is,   *)
(* and after it is published.                                              *)
Extraction == {"started", "parsed", "released", "extracting"}
Staging    == {"staged", "stamped", "validated", "gated", "failing", "discarding"}
Projection == {"published", "emitting", "emitted"}
Labels     == {"idle", "failed"} \cup Extraction \cup Staging \cup Projection

(* The shape of the state: the statuses are those of a layer, of a unit and *)
(* of a generation, and a compile has the prompt and the generation its     *)
(* stage needs.                                                             *)
TypeOK ==
    /\ file \in Texts /\ content \in Texts
    /\ stored \subseteq Spans
    /\ unit \in [UnitIds -> {NoUnit} \cup
           [span : Spans, claim : Claims, prompt : Prompts,
            gen : GenIds \cup {NoGen}, support : Support]]
    /\ gen \in [GenIds -> [status : {"staged", "authoritative", "discarded"},
                          hash : SUBSET Spans, text : SUBSET Spans]]
    /\ l2 \in {"pending", "running", "done", "error", "skipped"}
    /\ marker \in {None, "pending", "failed", "other"}
    /\ pages \subseteq UnitIds \X Claims
    /\ clustering \in BOOLEAN
    /\ pc \in [Compiles -> Labels]
    /\ prompt \in [Compiles -> Prompts \cup {None}]
    /\ text \in [Compiles -> SUBSET Spans]
    /\ adoptable \in [Compiles -> SUBSET UnitIds]
    /\ todo \in [Compiles -> SUBSET Spans]
    /\ mine \in [Compiles -> SUBSET UnitIds]
    /\ staged \in [Compiles -> GenIds \cup {NoGen}]
    /\ hash \in [Compiles -> SUBSET Spans]
    /\ owed \in BOOLEAN
    /\ paid \subseteq Spans \X Prompts
    /\ \A c \in Compiles :
         /\ pc[c] \in Extraction => prompt[c] # None
         /\ pc[c] \in Staging => staged[c] # NoGen

(* "The prior authoritative generation remains untouched and continues      *)
(* serving" (SYSTEM_BEHAVIOR 26.3): extraction, staging, resume, failure and *)
(* crash never change what is served; only a publish does.                  *)
PublishStep == \E c \in Compiles : Publish(c)
ServedOnlyByPublish == Serving' # Serving => PublishStep

(* "At most one authoritative generation exists" (SCHEMA 20.3), and "the    *)
(* index never serves deleted claims" (SYSTEM_BEHAVIOR 26.3): what is served *)
(* belongs to one generation, and cites spans that are stored.              *)
OneTextServed ==
    /\ Cardinality(Authoritative) <= 1
    /\ \A u \in Served : unit[u].span \in stored

(* A source is done only when its pages are those of what it serves: a      *)
(* projection that a crash or an error cut short is never taken for done.   *)
DoneMeansProjected == l2 \in {"done", "skipped"} => pages = Serving

(* "A re-run must not re-pay for batches a previous run already completed"  *)
(* (SYSTEM_BEHAVIOR 6.1, L2 item 4): a batch whose claim was stored is never *)
(* extracted again before a publish, whatever failed or died in between.    *)
PaidOnce == \A c \in Compiles, s \in Spans : ExtractBatch(c, s) => <<s, prompt[c]>> \notin paid

(* A published generation whose projection is owed is projected by the next *)
(* attempt, not compiled again (SYSTEM_BEHAVIOR 4.1).                       *)
RecoveredNotRecompiled ==
    \A c \in Compiles : StartCompile(c) /\ owed => \A g \in Authoritative : gen[g].hash # content

(* What is served is the text of one publish, and done says so.             *)
ServesOneText == TypeOK /\ OneTextServed /\ DoneMeansProjected

(* Nothing is served but by a publish, and nothing is done twice for it.    *)
PublishedOnce == [][ServedOnlyByPublish /\ PaidOnce /\ RecoveredNotRecompiled]_vars

(* "Any that survive to the next successful publish are retired"            *)
(* (_release_staged_units_for_resume): a unit an earlier run left behind    *)
(* does not enter the generation that a later run publishes.                *)
LeftoversRetired ==
    [][\A c \in Compiles : Publish(c) =>
          \A u \in Prior(c) :
             unit[u].gen = NoGen /\ (\A x \in UnitIds : ~Heir(u, x, c)) => unit'[u] = NoUnit]_vars
=============================================================================
