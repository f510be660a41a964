----------------------------- MODULE IngestJobs -----------------------------
(***************************************************************************)
(* The ingest job queue of the state database and the processes that       *)
(* drain it: db/jobs.py (the rows and every statement that changes one)    *)
(* and ingest_worker.py (run_next_job, the drain loops).                   *)
(*                                                                         *)
(* A worker is a process that runs jobs: the MCP server's IngestWorker     *)
(* thread, a `wiki jobs run` typed by a user, or the detached one that     *)
(* `wiki build` spawns.  A client is a process that asks for a build.      *)
(* Every database transaction is one step; what lies between two           *)
(* transactions of one process may interleave with every other process.   *)
(*                                                                         *)
(* The compile of one source is abstracted to its footprint on the         *)
(* source's status; module CompileSource has its inside.                   *)
(***************************************************************************)
EXTENDS Naturals, FiniteSets

CONSTANTS
    Workers,      \* processes that can run jobs
    Clients,      \* processes that can ask for a build
    Sources,      \* registered sources with a finished L1
    Global,       \* the target of a global L3 job (source_id = 0)
    MaxJobs,      \* bound: rows of ingest_jobs
    MaxRetries,   \* ingest_worker.MAX_RETRIES
    MaxCrashes,   \* bound: process deaths
    MaxReruns     \* bound: `wiki jobs rerun` commands

Targets == Sources \cup {Global}
JobIds  == 1 .. MaxJobs
NoJob   == 0
Nobody  == "nobody"      \* a client that has no insert outstanding

ASSUME ConstantsAssumption ==
    /\ MaxJobs \in Nat /\ MaxRetries \in Nat
    /\ MaxCrashes \in Nat /\ MaxReruns \in Nat
    /\ Global \notin Sources
    /\ Nobody \notin Targets
    /\ IsFiniteSet(Workers) /\ IsFiniteSet(Sources)

Active   == {"queued", "running"}
Terminal == {"done", "failed", "cancelled"}

VARIABLES
    job,       \* the rows of ingest_jobs, by id: state, target, retry_count
    l2, l3,    \* sources.l2_status, sources.l3_status
    serving,   \* whether the source's authoritative generation serves a unit
    pc,        \* where each worker is in run_next_job
    mine,      \* the id of the row a worker claimed
    seen,      \* retry_count in the worker's copy of the claimed row
    asked,     \* the target a client found no active job for, not yet inserted
    crashes, reruns,
    requeues   \* history: retries of a row since it was inserted or rerun

rows    == <<job, requeues>>
sources == <<l2, l3, serving>>
procs   == <<pc, mine, seen>>
bounds  == <<crashes, reruns>>
vars    == <<job, requeues, l2, l3, serving, pc, mine, seen, asked, crashes, reruns>>

Row(state, target, retry) == [state |-> state, target |-> target, retry |-> retry]
NoRow == Row("absent", Global, 0)

Init ==
    /\ job = [j \in JobIds |-> NoRow]
    /\ requeues = [j \in JobIds |-> 0]
    /\ l2 = [s \in Sources |-> "pending"]
    /\ l3 = [s \in Sources |-> "pending"]
    /\ serving = [s \in Sources |-> FALSE]
    /\ pc = [w \in Workers |-> "off"]
    /\ mine = [w \in Workers |-> NoJob]
    /\ seen = [w \in Workers |-> 0]
    /\ asked = [c \in Clients |-> Nobody]
    /\ crashes = 0
    /\ reruns = 0

-----------------------------------------------------------------------------
(* Helpers *)

Queued       == {j \in JobIds : job[j].state = "queued"}
ActiveFor(t) == {j \in JobIds : job[j].state \in Active /\ job[j].target = t}
ActiveL2     == {j \in JobIds : job[j].state \in Active /\ job[j].target # Global}

(* A worker between its claim and its last write for the job. *)
Busy(w) == pc[w] \notin {"off", "idle"}
Compiling(w) == pc[w] = "compiling"
Target(w) == job[mine[w]].target

Goto(w, label) == pc' = [pc EXCEPT ![w] = label]
SetState(j, state) == job' = [job EXCEPT ![j].state = state]

(* run_next_job returns. *)
LetGo(w) ==
    /\ Goto(w, "idle")
    /\ mine' = [mine EXCEPT ![w] = NoJob]
    /\ seen' = [seen EXCEPT ![w] = 0]

-----------------------------------------------------------------------------
(* Clients: asking for a build, cancelling, rerunning *)

(* A build request: a forced one first resets the source's statuses; then   *)
(* enqueue_job looks for an active job of that target outside of any        *)
(* transaction and remembers that there is none.                            *)
Ask(c, t) ==
    /\ asked[c] = Nobody
    /\ \/ UNCHANGED <<l2, l3>>
       \/ /\ t \in Sources
          /\ l2' = [l2 EXCEPT ![t] = "pending"]
          /\ l3' = [l3 EXCEPT ![t] = "pending"]
    /\ asked' = [asked EXCEPT ![c] = IF ActiveFor(t) = {} THEN t ELSE Nobody]
    /\ UNCHANGED <<rows, serving, procs, bounds>>

(* The INSERT of enqueue_job: the next row id, whatever is active by now. *)
Insert(c) ==
    /\ asked[c] # Nobody
    /\ \E j \in JobIds :
          /\ job[j].state = "absent"
          /\ \A i \in JobIds : i < j => job[i].state # "absent"
          /\ job' = [job EXCEPT ![j] = Row("queued", asked[c], 0)]
    /\ asked' = [asked EXCEPT ![c] = Nobody]
    /\ UNCHANGED <<requeues, sources, procs, bounds>>

(* Mutant: a running job can be cancelled too. *)
CancelAnyActiveJob(j) ==
    /\ job[j].state \in Active
    /\ SetState(j, "cancelled")
    /\ UNCHANGED <<requeues, sources, procs, asked, bounds>>

CancelJob(j) ==
    /\ job[j].state = "queued"
    /\ SetState(j, "cancelled")
    /\ UNCHANGED <<requeues, sources, procs, asked, bounds>>

(* Mutant: a rerun keeps the retry count of the old run. *)
RerunKeepingRetries(j) ==
    /\ job[j].state \in Terminal
    /\ reruns < MaxReruns
    /\ reruns' = reruns + 1
    /\ SetState(j, "queued")
    /\ requeues' = [requeues EXCEPT ![j] = 0]
    /\ UNCHANGED <<sources, procs, asked, crashes>>

RerunJob(j) ==
    /\ job[j].state \in Terminal
    /\ reruns < MaxReruns
    /\ reruns' = reruns + 1
    /\ job' = [job EXCEPT ![j] = Row("queued", @.target, 0)]
    /\ requeues' = [requeues EXCEPT ![j] = 0]
    /\ UNCHANGED <<sources, procs, asked, crashes>>

-----------------------------------------------------------------------------
(* Workers: starting, claiming, running a job *)

(* Mutant: a worker starts without recovering stale jobs. *)
StartWithoutRecovery(w) ==
    /\ pc[w] = "off"
    /\ Goto(w, "idle")
    /\ UNCHANGED <<rows, sources, mine, seen, asked, bounds>>

(* A worker process starts and runs recover_stale_jobs: every running row,  *)
(* whoever runs it, goes back to the queue, and the sources of those rows   *)
(* that were left running become pending.                                   *)
StartWorker(w) ==
    /\ pc[w] = "off"
    /\ LET running == {j \in JobIds : job[j].state = "running"}
       IN  /\ job' = [j \in JobIds |->
                        IF j \in running THEN [job[j] EXCEPT !.state = "queued"]
                                         ELSE job[j]]
           /\ l2' = [s \in Sources |->
                        IF l2[s] = "running" /\ \E j \in running : job[j].target = s
                        THEN "pending" ELSE l2[s]]
    /\ Goto(w, "idle")
    /\ UNCHANGED <<requeues, l3, serving, mine, seen, asked, bounds>>

(* `wiki jobs run` ends when the queue is empty; a server is shut down. *)
StopWorker(w) ==
    /\ pc[w] = "idle"
    /\ Queued = {}
    /\ Goto(w, "off")
    /\ UNCHANGED <<rows, sources, mine, seen, asked, bounds>>

(* A process dies with whatever it had in memory. *)
Crash(w) ==
    /\ pc[w] # "off"
    /\ crashes < MaxCrashes
    /\ crashes' = crashes + 1
    /\ Goto(w, "off")
    /\ mine' = [mine EXCEPT ![w] = NoJob]
    /\ seen' = [seen EXCEPT ![w] = 0]
    /\ UNCHANGED <<rows, sources, asked, reruns>>

(* Mutant: the claim does not filter on the queued state. *)
ClaimOldestActive(w) ==
    /\ pc[w] = "idle"
    /\ \E j \in JobIds :
          /\ job[j].state \in Active
          /\ SetState(j, "running")
          /\ mine' = [mine EXCEPT ![w] = j]
          /\ seen' = [seen EXCEPT ![w] = job[j].retry]
          /\ Goto(w, IF job[j].target = Global THEN "clustering" ELSE "claimed")
    /\ UNCHANGED <<requeues, sources, asked, bounds>>

(* claim_next_job, one BEGIN IMMEDIATE transaction: the oldest queued row. *)
ClaimNextJob(w) ==
    /\ pc[w] = "idle"
    /\ \E j \in Queued :
          /\ \A i \in Queued : j <= i
          /\ SetState(j, "running")
          /\ mine' = [mine EXCEPT ![w] = j]
          /\ seen' = [seen EXCEPT ![w] = job[j].retry]
          /\ Goto(w, IF job[j].target = Global THEN "clustering" ELSE "claimed")
    /\ UNCHANGED <<requeues, sources, asked, bounds>>

(* compile_source_l2 marks its source running, or leaves the status alone   *)
(* when it only recovers an already published generation.                   *)
StartCompile(w) ==
    /\ pc[w] = "claimed"
    /\ \/ l2' = [l2 EXCEPT ![Target(w)] = "running"]
       \/ UNCHANGED l2
    /\ Goto(w, "compiling")
    /\ UNCHANGED <<rows, l3, serving, mine, seen, asked, bounds>>

(* The compile returns ok: the source serves some unit, or none. *)
EndCompile(w) ==
    /\ pc[w] = "compiling"
    /\ \E some \in BOOLEAN :
          /\ serving' = [serving EXCEPT ![Target(w)] = some]
          /\ l2' = [l2 EXCEPT ![Target(w)] = IF some THEN "done" ELSE "skipped"]
    /\ Goto(w, "compiled")
    /\ UNCHANGED <<rows, l3, mine, seen, asked, bounds>>

(* The compile returns an error; what was served before is served still. *)
FailCompile(w) ==
    /\ pc[w] = "compiling"
    /\ l2' = [l2 EXCEPT ![Target(w)] = "error"]
    /\ Goto(w, "failing")
    /\ UNCHANGED <<rows, l3, serving, mine, seen, asked, bounds>>

(* Anything else that raises inside the job, such as a locked database,     *)
(* reaches the error boundary with an error that is not transient.          *)
RaiseInJob(w) ==
    /\ pc[w] \in {"claimed", "compiling", "compiled", "counting", "finishing"}
    /\ Goto(w, "raised")
    /\ UNCHANGED <<rows, sources, mine, seen, asked, bounds>>

(* run_next_job sets the L2 status itself after a compile that returned ok. *)
SetL2Done(w) ==
    /\ pc[w] = "compiled"
    /\ l2' = [l2 EXCEPT ![Target(w)] = "done"]
    /\ Goto(w, "counting")
    /\ UNCHANGED <<rows, l3, serving, mine, seen, asked, bounds>>

(* Cluster only when no other L2 job is queued or running. *)
CountActiveL2(w) ==
    /\ pc[w] = "counting"
    /\ Goto(w, IF Cardinality(ActiveL2) <= 1 THEN "clustering" ELSE "finishing")
    /\ UNCHANGED <<rows, sources, mine, seen, asked, bounds>>

(* compile_global_l3 gives every source whose L2 is done an L3 status. *)
EndClustering(w) ==
    /\ pc[w] = "clustering"
    /\ \E grounded \in SUBSET {s \in Sources : l2[s] = "done"} :
          l3' = [s \in Sources |->
                    IF l2[s] # "done" THEN l3[s]
                    ELSE IF s \in grounded THEN "done" ELSE "skipped"]
    /\ Goto(w, "finishing")
    /\ UNCHANGED <<rows, l2, serving, mine, seen, asked, bounds>>

(* It raised, before or after writing the statuses.  The L2 job it ran in   *)
(* marks its own source and goes on; a global job fails.                    *)
FailClustering(w) ==
    /\ pc[w] = "clustering"
    /\ \E hit \in {{}, {s \in Sources : l2[s] = "done"}} :
          l3' = [s \in Sources |->
                    IF s \in hit \cup {Target(w)} THEN "error" ELSE l3[s]]
    /\ Goto(w, IF Target(w) = Global THEN "failing" ELSE "finishing")
    /\ UNCHANGED <<rows, l2, serving, mine, seen, asked, bounds>>

(* mark_job_done: WHERE id = ?, whatever the row's state has become.  A     *)
(* source's job then has its tokens added to the row.                       *)
MarkJobDone(w) ==
    /\ pc[w] = "finishing"
    /\ SetState(mine[w], "done")
    /\ IF Target(w) = Global THEN LetGo(w) ELSE Goto(w, "tallying") /\ UNCHANGED <<mine, seen>>
    /\ UNCHANGED <<requeues, sources, asked, bounds>>

EndTally(w) ==
    /\ pc[w] = "tallying"
    /\ LetGo(w)
    /\ UNCHANGED <<rows, sources, asked, bounds>>

(* accumulate_job_tokens raises inside the error boundary of a job that is  *)
(* done already.                                                            *)
FailTally(w) ==
    /\ pc[w] = "tallying"
    /\ Goto(w, "raised")
    /\ UNCHANGED <<rows, sources, mine, seen, asked, bounds>>

(* Mutant: the retry cap is off by one. *)
RequeueOnceMore(w) ==
    /\ pc[w] = "failing"
    /\ seen[w] <= MaxRetries
    /\ job' = [job EXCEPT ![mine[w]] = Row("queued", @.target, seen[w] + 1)]
    /\ requeues' = [requeues EXCEPT ![mine[w]] = @ + 1]
    /\ LetGo(w)
    /\ UNCHANGED <<sources, asked, bounds>>

(* Mutant: the retry goes back to the queue before its worker lets go of it. *)
RequeueAndGoOn(w) ==
    /\ pc[w] = "failing"
    /\ seen[w] < MaxRetries
    /\ job' = [job EXCEPT ![mine[w]] = Row("queued", @.target, seen[w] + 1)]
    /\ requeues' = [requeues EXCEPT ![mine[w]] = @ + 1]
    /\ Goto(w, "finishing")
    /\ UNCHANGED <<sources, mine, seen, asked, bounds>>

(* The error boundary: a transient error of a job whose claimed copy has    *)
(* retries left puts the row back in the queue, whatever its state.         *)
RequeueForRetry(w) ==
    /\ pc[w] = "failing"
    /\ seen[w] < MaxRetries
    /\ job' = [job EXCEPT ![mine[w]] = Row("queued", @.target, seen[w] + 1)]
    /\ requeues' = [requeues EXCEPT ![mine[w]] = @ + 1]
    /\ LetGo(w)
    /\ UNCHANGED <<sources, asked, bounds>>

(* Any other error: the row fails, and in a second transaction its source. *)
MarkJobFailed(w) ==
    /\ pc[w] \in {"failing", "raised"}
    /\ SetState(mine[w], "failed")
    /\ Goto(w, "failed")
    /\ UNCHANGED <<requeues, sources, mine, seen, asked, bounds>>

SetL2Error(w) ==
    /\ pc[w] = "failed"
    /\ l2' = [s \in Sources |-> IF s = Target(w) THEN "error" ELSE l2[s]]
    /\ LetGo(w)
    /\ UNCHANGED <<rows, l3, serving, asked, bounds>>

-----------------------------------------------------------------------------
WorkerStep(w) ==
    \/ ClaimNextJob(w) \/ StartCompile(w)
    \/ EndCompile(w) \/ FailCompile(w) \/ RaiseInJob(w)
    \/ SetL2Done(w) \/ CountActiveL2(w)
    \/ EndClustering(w) \/ FailClustering(w)
    \/ MarkJobDone(w) \/ EndTally(w)
    \/ RequeueForRetry(w) \/ MarkJobFailed(w) \/ SetL2Error(w)

ClientStep ==
    \/ \E c \in Clients : Insert(c) \/ \E t \in Targets : Ask(c, t)
    \/ \E j \in JobIds : CancelJob(j) \/ RerunJob(j)

Next ==
    \/ ClientStep
    \/ \E w \in Workers : \/ StartWorker(w) \/ StopWorker(w) \/ Crash(w)
                          \/ WorkerStep(w) \/ FailTally(w)

Spec == Init /\ [][Next]_vars

(* The environment recover_stale_jobs is written for ("after a process      *)
(* restart"): a worker process starts only while no other one runs a job,   *)
(* and the token count of a job that is done can be written.                *)
Quiet == \A w \in Workers : ~Busy(w)

QuietNext ==
    \/ ClientStep
    \/ \E w \in Workers : \/ Quiet /\ StartWorker(w)
                          \/ StopWorker(w) \/ Crash(w) \/ WorkerStep(w)

QuietSpec == Init /\ [][QuietNext]_vars

(* A process that runs keeps running, and a worker process is started again *)
(* after the last one ended: `wiki build` spawns one behind every enqueue.  *)
Fairness == \A w \in Workers : WF_vars(WorkerStep(w)) /\ WF_vars(Quiet /\ StartWorker(w))

FairQuietSpec == QuietSpec /\ Fairness

-----------------------------------------------------------------------------
(* Properties *)

Labels == {"off", "idle", "claimed", "compiling", "compiled", "counting",
           "clustering", "finishing", "tallying", "failing", "raised",
           "failed"}

(* Where a worker no longer owns the row it claimed. *)
Loose == {"off", "idle", "tallying", "failed"}
LayerStatus == {"pending", "running", "done", "error", "skipped"}

(* The shape of the state; a busy worker has a row, and its copy of the     *)
(* retry count is in range.                                                 *)
TypeOK ==
    /\ job \in [JobIds -> [state  : Active \cup Terminal \cup {"absent"},
                           target : Targets, retry : 0 .. MaxRetries]]
    /\ requeues \in [JobIds -> Nat]
    /\ l2 \in [Sources -> LayerStatus]
    /\ l3 \in [Sources -> LayerStatus]
    /\ serving \in [Sources -> BOOLEAN]
    /\ pc \in [Workers -> Labels]
    /\ mine \in [Workers -> JobIds \cup {NoJob}]
    /\ seen \in [Workers -> 0 .. MaxRetries]
    /\ asked \in [Clients -> Targets \cup {Nobody}]
    /\ crashes \in 0 .. MaxCrashes
    /\ reruns \in 0 .. MaxReruns
    /\ \A w \in Workers : Busy(w) => mine[w] \in JobIds

Holds(w, j) == pc[w] \notin Loose /\ mine[w] = j

(* Claiming is exclusive: no two workers run the same job, and the row of a *)
(* job somebody runs says so.  (claim_next_job's BEGIN IMMEDIATE, every     *)
(* terminal write, recover_stale_jobs.)                                     *)
OneHolder ==
    \A w \in Workers, j \in JobIds :
        Holds(w, j) => /\ job[j].state = "running"
                       /\ \A v \in Workers \ {w} : ~Holds(v, j)

(* retry_count is written from a worker's copy of the row; it still counts  *)
(* the retries the row really had, so a job that keeps failing with a       *)
(* transient error fails for good after MAX_RETRIES of them.                *)
RetryCountIsTrue ==
    \A j \in JobIds : job[j].retry = requeues[j] /\ requeues[j] <= MaxRetries

OnlyRerunReopens ==
    \A j \in JobIds :
        job[j].state \in Terminal /\ job'[j].state # job[j].state => RerunJob(j)

(* "Cancelled jobs stay terminal until explicitly requeued" (SYSTEM_BEHAVIOR *)
(* 6), and so do done and failed ones: no late write of a worker moves them. *)
TerminalUntilRerun == [][OnlyRerunReopens]_vars

(* A queued job is not forgotten: whatever crashes and retries, it ends.    *)
EveryJobSettles ==
    \A j \in JobIds : job[j].state \in Active ~> job[j].state \in Terminal

-----------------------------------------------------------------------------
(* What the documents and comments say, and the code does not do *)

(* "Two compiles for one source never run concurrently" (pipeline/compile.py *)
(* 378): two workers are never inside a compile of the same source.          *)
NoConcurrentCompiles ==
    \A w, v \in Workers :
        w # v /\ Compiling(w) /\ Compiling(v) => Target(w) # Target(v)

(* "L2 is done only when at least one authoritative verified serving unit   *)
(* exists for the source" (SYSTEM_BEHAVIOR 4.1).                            *)
DoneOnlyIfServing ==
    \A s \in Sources : l2[s] = "done" => serving[s]

(* Sources whose L2 is done "must not remain indefinitely pending after a   *)
(* completed build" (SYSTEM_BEHAVIOR 4.1): when every job that was queued is *)
(* done and nobody is at work, every L2-done source has an L3 status.        *)
DrainedMeansClustered ==
    (\A j \in JobIds : job[j].state \in {"absent", "done"})
    /\ (\A c \in Clients : asked[c] = Nobody) /\ Quiet
        => \A s \in Sources : l2[s] = "done" => l3[s] # "pending"

(* "Status surfaces must not show a permanently running source after        *)
(* recovery" (SYSTEM_BEHAVIOR 4.1): a recovery that finds nobody at work    *)
(* leaves no source running.                                                *)
RecoveryLeavesNoneRunning ==
    [][\A w \in Workers :
          Quiet /\ StartWorker(w) => \A s \in Sources : l2'[s] # "running"]_vars
=============================================================================
