---------------------------- MODULE CompileSystem ----------------------------
(***************************************************************************)
(* The compile of a source, the log of the calls that compiles make, and   *)
(* the recovery of formulas for a unit that was published.  They share no  *)
(* state: a recovery reads spans and writes their metadata, the evidence   *)
(* of the unit and its status, and a compile none of these for a span that *)
(* stays; of the rows that name a call, PromptRuns has the names only.     *)
(***************************************************************************)
EXTENDS CompileSource

CONSTANTS
    Cited, Claim, Readings, Shows, Procs, MaxCalls, MaxPages,     \* of FormulaRecovery
    Devices, Makers, Batches, Keep, MaxLogged, MaxPublishes       \* of PromptRuns

VARIABLES
    recs, link, stated, page, job, recoveries, made, calm,
    log, buried, cited, batched, memory, open, exports, calls, published, capped

Formulas == INSTANCE FormulaRecovery WITH unit <- stated, calls <- recoveries

Calls == INSTANCE PromptRuns WITH MaxCalls <- MaxLogged, staged <- batched, file <- exports

(* What is verified was shown, evidence that is told of is there, and no   *)
(* candidate is lost.                                                      *)
FormulasFounded == Formulas!FormulasFounded

(* The cap on the log of calls spares what is cited, and its deletions     *)
(* last.                                                                   *)
CapsHold == Calls!CapsHold
=============================================================================
