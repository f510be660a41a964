---------------------------- MODULE IngestLeases ----------------------------
(***************************************************************************)
(* The ingest job queue seen as a queue of leases: the refinement mapping  *)
(* from IngestJobs, run by workers that start while nobody works, to       *)
(* LeaseQueue.                                                             *)
(***************************************************************************)
EXTENDS IngestJobs, TLC

CONSTANT NoHolder      \* the holder of a job nobody runs
ASSUME NoHolderAssumption == NoHolder \notin Workers

HolderOf(j) ==
    IF \E w \in Workers : Holds(w, j) THEN CHOOSE w \in Workers : Holds(w, j) ELSE NoHolder

LifeOf(j) ==
    CASE job[j].state \in Terminal -> "closed"
      [] job[j].state = "running"  -> IF HolderOf(j) = NoHolder THEN "orphaned" ELSE "leased"
      [] OTHER                     -> job[j].state

Leases == INSTANCE LeaseQueue WITH
    Tasks  <- JobIds,
    None   <- NoHolder,
    task   <- [j \in JobIds |-> LifeOf(j)],
    holder <- [j \in JobIds |-> HolderOf(j)]

(* The rows and the workers' memory together behave as a queue of leases:   *)
(* every step of claim_next_job, the terminal writes, cancel, rerun, crash  *)
(* and recovery is one of LeaseQueue's steps or none.                       *)
ImplementsLeases == Leases!Spec

(* Workers, sources and clients are interchangeable.                        *)
Symmetry == Permutations(Workers) \cup Permutations(Sources) \cup Permutations(Clients)
=============================================================================
