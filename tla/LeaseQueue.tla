----------------------------- MODULE LeaseQueue -----------------------------
(***************************************************************************)
(* What a job queue shared by several worker processes promises: a task is *)
(* in the hands of at most one worker, only that worker decides how it     *)
(* ends, and a task whose worker died goes back to the queue, all of them  *)
(* at once and only while nobody works.                                    *)
(*                                                                         *)
(* This is the abstract view of ingest_jobs; module IngestLeases shows     *)
(* that IngestJobs implements it.                                          *)
(***************************************************************************)
CONSTANTS Workers, Tasks, None

VARIABLES
    task,      \* the life of each task
    holder     \* the worker a leased task is in the hands of

vars == <<task, holder>>

Life == {"absent", "queued", "leased", "orphaned", "closed"}

(* The shape of the state. *)
TypeOK == task \in [Tasks -> Life] /\ holder \in [Tasks -> Workers \cup {None}]

Init == task = [t \in Tasks |-> "absent"] /\ holder = [t \in Tasks |-> None]

Held(w) == {t \in Tasks : holder[t] = w}

Turn(t, from, to) ==
    /\ task[t] = from
    /\ task' = [task EXCEPT ![t] = to]

(* Without a worker: a task is added, withdrawn, opened again. *)
Move(t) ==
    /\ Turn(t, "absent", "queued") \/ Turn(t, "queued", "closed") \/ Turn(t, "closed", "queued")
    /\ UNCHANGED holder

Lease(w, t) ==
    /\ Held(w) = {}
    /\ Turn(t, "queued", "leased")
    /\ holder' = [holder EXCEPT ![t] = w]

(* Its holder closes it, puts it back, or dies with it. *)
Release(w, t) ==
    /\ holder[t] = w
    /\ \E to \in {"closed", "queued", "orphaned"} : Turn(t, "leased", to)
    /\ holder' = [holder EXCEPT ![t] = None]

Reclaim ==
    /\ \A t \in Tasks : task[t] # "leased"
    /\ task' = [t \in Tasks |-> IF task[t] = "orphaned" THEN "queued" ELSE task[t]]
    /\ UNCHANGED holder

Next ==
    \/ Reclaim
    \/ \E t \in Tasks : Move(t) \/ \E w \in Workers : Lease(w, t) \/ Release(w, t)

Spec == Init /\ [][Next]_vars
=============================================================================
