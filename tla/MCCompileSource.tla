-------------------------- MODULE MCCompileSource --------------------------
(***************************************************************************)
(* CompileSystem for TLC, with what its batches and its calls are made of  *)
(* and what becomes of lost formulas: a behaviour is about the compile of  *)
(* a source, the retries of its batches, the log of its calls or the       *)
(* recovery of formulas of a unit; they share no variable.                 *)
(***************************************************************************)
EXTENDS CompileSystem, TLC

CONSTANTS c1, p, q, a, b, k1, s1, s2, s3, w1, w2

VARIABLES
    about,
    kept, accepted, lost, again, result, runs        \* BatchRetry

(* A span is edited out of the source. *)
Shrink == {<<{p, q}, {q}>>}

(* A unit cites two spans; the second shows one of its two formulas.       *)
TwoSpans == <<1, 2>>
ShowsOne == << {}, {"g"} >>
Sure == {<<"f", TRUE>>, <<"f", FALSE>>, <<"g", TRUE>>}

Batch == INSTANCE BatchRetry WITH
    Batches <- << <<s1, s2>>, <<s3>> >>, Size <- (s1 :> 3000 @@ s2 :> 8000 @@ s3 :> 2000),
    Smallest <- 4000, MaxDepth <- 5, MaxRuns <- 3, stored <- kept

batch == <<kept, accepted, lost, again, result, runs>>
prompts == <<log, buried, cited, batched, memory, open, exports, calls, published, capped>>
formulas == <<recs, link, stated, page, job, recoveries, made, calm>>
Symmetry == Permutations({w1, w2})

(* The others start in their only initial state.                           *)
CompilingInit ==
    /\ about \in {"source", "batches", "calls", "formulas"}
    /\ IF about = "source" THEN TRUE ELSE file = {q}
    /\ Init /\ Batch!Init /\ Calls!Init /\ Formulas!Init

(* A compile can always go on; the others end at their bounds.             *)
CompilingNext ==
    \/ about = "source" /\ SerialNext /\ UNCHANGED <<about, batch, prompts, formulas>>
    \/ about = "batches" /\ Batch!Next /\ UNCHANGED <<about, vars, prompts, formulas>>
    \/ about = "calls" /\ Calls!Next /\ UNCHANGED <<about, vars, batch, formulas>>
    \/ about = "formulas" /\ Formulas!Next /\ UNCHANGED <<about, vars, batch, prompts>>
    \/ about # "source" /\ UNCHANGED <<about, vars, batch, prompts, formulas>>

Compiling == CompilingInit /\ [][CompilingNext]_<<about, vars, batch, prompts, formulas>>

(* The property of the retries, under its name.                            *)
TextOncePaidOnce == Batch!TextOncePaidOnce
=============================================================================
