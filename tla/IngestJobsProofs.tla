-------------------------- MODULE IngestJobsProofs --------------------------
(***************************************************************************)
(* Proofs about IngestJobs, and of its refinement of LeaseQueue, for any   *)
(* number of workers, clients, sources, rows, retries, crashes and reruns. *)
(***************************************************************************)
EXTENDS IngestLeases, TLAPS

USE DEF JobIds, NoJob, Targets, Active, Terminal, Labels, LayerStatus, Loose

(* Setting one field of a row keeps it a row. *)
LEMMA StateSet ==
    ASSUME NEW S, NEW T, NEW R, NEW row \in [state : S, target : T, retry : R], NEW st \in S
    PROVE  [row EXCEPT !.state = st] \in [state : S, target : T, retry : R]
  OBVIOUS

LEMMA InitType == Init => TypeOK
  BY ConstantsAssumption DEF Init, TypeOK, NoRow, Row, Busy

(* Every step, of any process and started whenever, keeps the types.       *)
LEMMA TypeStep == TypeOK /\ [Next]_vars => TypeOK'
  <1> SUFFICES ASSUME TypeOK, [Next]_vars PROVE TypeOK'
    OBVIOUS
  <1> USE ConstantsAssumption DEF TypeOK, Busy, Goto, SetState, LetGo, Row, Target,
          rows, sources, procs, bounds
  <1>1. ASSUME NEW c \in Clients, NEW t \in Targets, Ask(c, t) PROVE TypeOK'
    BY <1>1 DEF Ask
  <1>2. ASSUME NEW c \in Clients, Insert(c) PROVE TypeOK'
    BY SMTT(30), <1>2 DEF Insert
  <1>3. ASSUME NEW j \in JobIds, CancelJob(j) PROVE TypeOK'
    BY ZenonT(60), <1>3 DEF CancelJob
  <1>4. ASSUME NEW j \in JobIds, RerunJob(j) PROVE TypeOK'
    BY SMTT(30), <1>4 DEF RerunJob
  <1>5. ASSUME NEW w \in Workers, StartWorker(w) PROVE TypeOK'
    BY ZenonT(60), <1>5 DEF StartWorker
  <1>6. ASSUME NEW w \in Workers, StopWorker(w) PROVE TypeOK'
    BY <1>6 DEF StopWorker
  <1>7. ASSUME NEW w \in Workers, Crash(w) PROVE TypeOK'
    BY <1>7 DEF Crash
  <1>8. ASSUME NEW w \in Workers, ClaimNextJob(w) PROVE TypeOK'
    <2>1. PICK j \in JobIds :
             /\ job' = [job EXCEPT ![j].state = "running"]
             /\ mine' = [mine EXCEPT ![w] = j]
             /\ seen' = [seen EXCEPT ![w] = job[j].retry]
             /\ pc' = [pc EXCEPT ![w] = IF job[j].target = Global
                                       THEN "clustering" ELSE "claimed"]
      BY <1>8 DEF ClaimNextJob, Queued
    <2>2. /\ job' \in [JobIds -> [state  : Active \cup Terminal \cup {"absent"},
                                target : Targets, retry : 0 .. MaxRetries]]
          /\ seen' \in [Workers -> 0 .. MaxRetries]
      BY ZenonT(60), <2>1
    <2>3. /\ pc' \in [Workers -> Labels]
          /\ mine' \in [Workers -> JobIds \cup {NoJob}]
          /\ \A v \in Workers : pc'[v] \notin {"off", "idle"} => mine'[v] \in JobIds
      BY <2>1
    <2> QED
      BY <1>8, <2>2, <2>3 DEF ClaimNextJob
  <1>9. ASSUME NEW w \in Workers, StartCompile(w) PROVE TypeOK'
    BY <1>9 DEF StartCompile
  <1>10. ASSUME NEW w \in Workers, EndCompile(w) PROVE TypeOK'
    BY ZenonT(60), <1>10 DEF EndCompile
  <1>11. ASSUME NEW w \in Workers, FailCompile(w) PROVE TypeOK'
    BY <1>11 DEF FailCompile
  <1>12. ASSUME NEW w \in Workers, RaiseInJob(w) PROVE TypeOK'
    BY <1>12 DEF RaiseInJob
  <1>13. ASSUME NEW w \in Workers, SetL2Done(w) PROVE TypeOK'
    BY <1>13 DEF SetL2Done
  <1>14. ASSUME NEW w \in Workers, CountActiveL2(w) PROVE TypeOK'
    BY <1>14 DEF CountActiveL2
  <1>15. ASSUME NEW w \in Workers, EndClustering(w) PROVE TypeOK'
    BY <1>15 DEF EndClustering
  <1>16. ASSUME NEW w \in Workers, FailClustering(w) PROVE TypeOK'
    BY ZenonT(60), <1>16 DEF FailClustering
  <1>17. ASSUME NEW w \in Workers, MarkJobDone(w) PROVE TypeOK'
    <2>1. mine[w] \in JobIds
      BY <1>17 DEF MarkJobDone
    <2>2. job' = [job EXCEPT ![mine[w]] = [job[mine[w]] EXCEPT !.state = "done"]]
      BY <1>17 DEF MarkJobDone
    <2>3. job' \in [JobIds -> [state  : Active \cup Terminal \cup {"absent"},
                             target : Targets, retry : 0 .. MaxRetries]]
      <3>1. [job[mine[w]] EXCEPT !.state = "done"]
              \in [state : Active \cup Terminal \cup {"absent"},
                   target : Targets, retry : 0 .. MaxRetries]
        <4>1. job[mine[w]] \in [state : Active \cup Terminal \cup {"absent"},
                                target : Targets, retry : 0 .. MaxRetries]
          BY <2>1
        <4>2. "done" \in Active \cup Terminal \cup {"absent"}
          OBVIOUS
        <4> HIDE DEF TypeOK, Active, Terminal, Targets
        <4> QED
          BY <4>1, <4>2, StateSet
      <3> QED
        BY <2>1, <2>2, <3>1
    <2>4. /\ pc' \in [Workers -> Labels]
          /\ mine' \in [Workers -> JobIds \cup {NoJob}]
          /\ seen' \in [Workers -> 0 .. MaxRetries]
          /\ \A v \in Workers : pc'[v] \notin {"off", "idle"} => mine'[v] \in JobIds
      <3>1. CASE Target(w) = Global
        <4>1. /\ pc' = [pc EXCEPT ![w] = "idle"]
              /\ mine' = [mine EXCEPT ![w] = NoJob]
              /\ seen' = [seen EXCEPT ![w] = 0]
          BY <1>17, <3>1 DEF MarkJobDone
        <4> QED
          BY <4>1
      <3>2. CASE Target(w) # Global
        <4>1. pc' = [pc EXCEPT ![w] = "tallying"] /\ mine' = mine /\ seen' = seen
          BY <1>17, <3>2 DEF MarkJobDone
        <4> QED
          BY <2>1, <4>1
      <3> QED
        BY <3>1, <3>2
    <2> QED
      BY <1>17, <2>3, <2>4 DEF MarkJobDone
  <1>18. ASSUME NEW w \in Workers, RequeueForRetry(w) PROVE TypeOK'
    <2>1. mine[w] \in JobIds
      BY <1>18 DEF RequeueForRetry
    <2>6. seen[w] + 1 \in 0 .. MaxRetries
      <3>1. seen[w] \in 0 .. MaxRetries /\ seen[w] < MaxRetries
        BY <1>18 DEF RequeueForRetry
      <3> QED
        BY <3>1
    <2>2. /\ job' = [job EXCEPT ![mine[w]] = [state |-> "queued",
                              target |-> job[mine[w]].target, retry |-> seen[w] + 1]]
          /\ requeues' = [requeues EXCEPT ![mine[w]] = requeues[mine[w]] + 1]
      BY <1>18 DEF RequeueForRetry
    <2>3. job' \in [JobIds -> [state  : Active \cup Terminal \cup {"absent"},
                             target : Targets, retry : 0 .. MaxRetries]]
      <3>1. [state |-> "queued", target |-> job[mine[w]].target, retry |-> seen[w] + 1]
              \in [state : Active \cup Terminal \cup {"absent"},
                   target : Targets, retry : 0 .. MaxRetries]
        <4>1. job[mine[w]].target \in Targets
          BY <2>1
        <4> QED
          BY <2>6, <4>1
      <3> QED
        BY <2>1, <2>2, <3>1
    <2>4. requeues' \in [JobIds -> Nat]
      BY <2>1, <2>2
    <2>5. /\ pc' \in [Workers -> Labels]
          /\ mine' \in [Workers -> JobIds \cup {NoJob}]
          /\ seen' \in [Workers -> 0 .. MaxRetries]
          /\ \A v \in Workers : pc'[v] \notin {"off", "idle"} => mine'[v] \in JobIds
      BY <1>18 DEF RequeueForRetry
    <2> QED
      BY <1>18, <2>3, <2>4, <2>5 DEF RequeueForRetry
  <1>19. ASSUME NEW w \in Workers, MarkJobFailed(w) PROVE TypeOK'
    BY ZenonT(60), <1>19 DEF MarkJobFailed
  <1>20. ASSUME NEW w \in Workers, SetL2Error(w) PROVE TypeOK'
    BY SMTT(30), <1>20 DEF SetL2Error
  <1>21. ASSUME NEW w \in Workers, EndTally(w) \/ FailTally(w) PROVE TypeOK'
    <2>1. CASE EndTally(w)
      <3>1. pc' = [pc EXCEPT ![w] = "idle"] /\ mine' = [mine EXCEPT ![w] = NoJob]
            /\ seen' = [seen EXCEPT ![w] = 0]
        BY <2>1 DEF EndTally
      <3>2. /\ pc' \in [Workers -> Labels]
            /\ mine' \in [Workers -> JobIds \cup {NoJob}]
            /\ seen' \in [Workers -> 0 .. MaxRetries]
            /\ \A v \in Workers : pc'[v] \notin {"off", "idle"} => mine'[v] \in JobIds
        BY <3>1
      <3> QED
        BY <2>1, <3>2 DEF EndTally
    <2>2. CASE FailTally(w)
      BY <2>2 DEF FailTally
    <2> QED
      BY <1>21, <2>1, <2>2
  <1>22. CASE UNCHANGED vars
    BY <1>22 DEF vars
  <1> QED
    BY <1>1, <1>2, <1>3, <1>4, <1>5, <1>6, <1>7, <1>8, <1>9, <1>10, <1>11, <1>12,
       <1>13, <1>14, <1>15, <1>16, <1>17, <1>18, <1>19, <1>20, <1>21, <1>22
       DEF Next, ClientStep, WorkerStep

(* The rows and the workers' memory always have the types the code relies  *)
(* on, whichever processes start, crash or write late: no retry count ever  *)
(* exceeds MAX_RETRIES (db/jobs.py, ingest_worker.run_next_job).           *)
THEOREM TypeCorrect == Spec => []TypeOK
  BY InitType, TypeStep, PTL DEF Spec

-----------------------------------------------------------------------------
(***************************************************************************)
(* The job queue when a worker process starts only while nobody works      *)
(* (QuietSpec).  OneHolder and RetryCountIsTrue are not inductive: a retry  *)
(* is written from the worker's copy of the count, so the copy has to be    *)
(* true while the row is held, and a fresh row has to start from zero.     *)
(***************************************************************************)
HolderKnowsRetry ==
    \A w \in Workers, j \in JobIds : Holds(w, j) => seen[w] = job[j].retry

FreshRowsUncounted ==
    \A j \in JobIds : job[j].state = "absent" => requeues[j] = 0

Inv ==
    /\ TypeOK
    /\ OneHolder
    /\ RetryCountIsTrue
    /\ HolderKnowsRetry
    /\ FreshRowsUncounted

LEMMA InitInv == Init => Inv
  <1> SUFFICES ASSUME Init PROVE Inv
    OBVIOUS
  <1>1. TypeOK
    BY InitType
  <1>2. \A w \in Workers : ~Busy(w)
    BY DEF Init, Busy
  <1>3. OneHolder /\ HolderKnowsRetry
    BY <1>2 DEF OneHolder, HolderKnowsRetry, Holds, Busy
  <1>4. RetryCountIsTrue /\ FreshRowsUncounted
    BY ConstantsAssumption DEF Init, RetryCountIsTrue, FreshRowsUncounted, NoRow, Row
  <1> QED
    BY <1>1, <1>3, <1>4 DEF Inv

LEMMA QuietIsNext == QuietNext => Next
  BY DEF QuietNext, Next

(* A step in the middle of run_next_job: the worker keeps its row and its   *)
(* copy of it, and no row changes.                                          *)
LEMMA WithinJob ==
    ASSUME Inv, TypeOK', NEW w \in Workers,
           pc[w] \notin Loose,
           \A v \in Workers \ {w} : pc'[v] = pc[v],
           UNCHANGED <<job, requeues, mine, seen>>
    PROVE  Inv'
  <1>1. \A v \in Workers, j \in JobIds : Holds(v, j)' => Holds(v, j)
    BY DEF Holds, Busy
  <1>2. OneHolder' /\ HolderKnowsRetry'
    BY <1>1 DEF Inv, OneHolder, HolderKnowsRetry
  <1>3. RetryCountIsTrue' /\ FreshRowsUncounted'
    BY DEF Inv, RetryCountIsTrue, FreshRowsUncounted
  <1> QED
    BY <1>2, <1>3 DEF Inv

(* A step of a worker that ends up holding nothing, and writes at most the  *)
(* row it held, consistently with the history of its retries.               *)
LEMMA LettingGo ==
    ASSUME Inv, TypeOK', NEW w \in Workers, NEW k \in JobIds, Holds(w, k),
           pc'[w] \in Loose,
           \A v \in Workers \ {w} : pc'[v] = pc[v] /\ mine'[v] = mine[v] /\ seen'[v] = seen[v],
           \A j \in JobIds \ {k} : job'[j] = job[j] /\ requeues'[j] = requeues[j],
           job'[k].state # "absent",
           job'[k].retry = requeues'[k], requeues'[k] <= MaxRetries
    PROVE  Inv'
  <1>1. \A v \in Workers, j \in JobIds : Holds(v, j)' => v # w /\ j # k /\ Holds(v, j)
    <2> SUFFICES ASSUME NEW v \in Workers, NEW j \in JobIds, Holds(v, j)'
                 PROVE  v # w /\ j # k /\ Holds(v, j)
      OBVIOUS
    <2>1. v # w
      BY DEF Holds, Busy
    <2>2. Holds(v, j)
      BY <2>1 DEF Holds, Busy
    <2>3. j # k
      BY <2>1, <2>2 DEF Inv, OneHolder
    <2> QED
      BY <2>1, <2>2, <2>3
  <1>2. OneHolder' /\ HolderKnowsRetry'
    BY <1>1 DEF Inv, OneHolder, HolderKnowsRetry
  <1>3. RetryCountIsTrue' /\ FreshRowsUncounted'
    BY DEF Inv, RetryCountIsTrue, FreshRowsUncounted
  <1> QED
    BY <1>2, <1>3 DEF Inv

(* A step of a client: no worker moves, and no row that is running changes. *)
LEMMA OutsideWorkers ==
    ASSUME Inv, TypeOK',
           UNCHANGED <<pc, mine, seen>>,
           \A j \in JobIds : job[j].state = "running" => job'[j] = job[j],
           RetryCountIsTrue', FreshRowsUncounted'
    PROVE  Inv'
  <1>1. \A v \in Workers, j \in JobIds : Holds(v, j)' <=> Holds(v, j)
    BY DEF Holds, Busy
  <1>2. \A v \in Workers, j \in JobIds : Holds(v, j) => job'[j] = job[j]
    BY DEF Inv, OneHolder
  <1>3. OneHolder' /\ HolderKnowsRetry'
    BY <1>1, <1>2 DEF Inv, OneHolder, HolderKnowsRetry
  <1> QED
    BY <1>3 DEF Inv

(* Every step keeps the invariant when workers start only in a quiet system. *)
LEMMA InvStep == Inv /\ [QuietNext]_vars => Inv'
  <1> SUFFICES ASSUME Inv, [QuietNext]_vars PROVE Inv'
    OBVIOUS
  <1>t. TypeOK /\ TypeOK'
    BY QuietIsNext, TypeStep DEF Inv
  <1> USE DEF Goto, SetState, LetGo, rows, sources, procs, bounds
  <1>1. ASSUME NEW c \in Clients, NEW t \in Targets, Ask(c, t) PROVE Inv'
    <2>1. RetryCountIsTrue' /\ FreshRowsUncounted'
      BY <1>1 DEF Ask, Inv, RetryCountIsTrue, FreshRowsUncounted
    <2> QED
      BY <1>1, <1>t, <2>1, OutsideWorkers DEF Ask
  <1>2. ASSUME NEW c \in Clients, Insert(c) PROVE Inv'
    <2>1. PICK k \in JobIds : /\ job[k].state = "absent"
                              /\ job' = [job EXCEPT ![k] = Row("queued", asked[c], 0)]
      BY <1>2 DEF Insert
    <2>2. /\ \A j \in JobIds \ {k} : job'[j] = job[j]
          /\ job'[k] = Row("queued", asked[c], 0)
      BY <2>1, <1>t DEF TypeOK
    <2>3. RetryCountIsTrue' /\ FreshRowsUncounted'
      BY <1>2, <2>1, <2>2 DEF Insert, Inv, RetryCountIsTrue, FreshRowsUncounted, Row
    <2>4. \A j \in JobIds : job[j].state = "running" => job'[j] = job[j]
      BY <2>1, <2>2
    <2> QED
      BY <1>2, <1>t, <2>3, <2>4, OutsideWorkers DEF Insert
  <1>3. ASSUME NEW k \in JobIds, CancelJob(k) PROVE Inv'
    <2>1. /\ \A j \in JobIds \ {k} : job'[j] = job[j]
          /\ job'[k].state = "cancelled" /\ job'[k].retry = job[k].retry
      BY <1>3, <1>t DEF CancelJob, TypeOK
    <2>2. RetryCountIsTrue' /\ FreshRowsUncounted'
      BY <1>3, <2>1 DEF CancelJob, Inv, RetryCountIsTrue, FreshRowsUncounted
    <2> QED
      BY <1>3, <1>t, <2>1, <2>2, OutsideWorkers DEF CancelJob
  <1>4. ASSUME NEW k \in JobIds, RerunJob(k) PROVE Inv'
    <2>1. /\ \A j \in JobIds \ {k} : job'[j] = job[j] /\ requeues'[j] = requeues[j]
          /\ job'[k].state = "queued" /\ job'[k].retry = 0 /\ requeues'[k] = 0
      BY <1>4, <1>t DEF RerunJob, TypeOK, Row
    <2>2. RetryCountIsTrue' /\ FreshRowsUncounted'
      BY <2>1, ConstantsAssumption DEF Inv, RetryCountIsTrue, FreshRowsUncounted
    <2>3. job[k].state # "running"
      BY <1>4 DEF RerunJob
    <2> QED
      BY <1>4, <1>t, <2>1, <2>2, <2>3, OutsideWorkers DEF RerunJob
  <1>5. ASSUME NEW w \in Workers, Quiet, StartWorker(w) PROVE Inv'
    <2>1. \A v \in Workers, j \in JobIds : ~Holds(v, j)'
      BY <1>5, <1>t DEF StartWorker, Quiet, Holds, Busy, TypeOK
    <2>2. \A j \in JobIds : /\ job'[j].retry = job[j].retry
                            /\ job'[j].state = "absent" => job[j].state = "absent"
      BY <1>5, <1>t DEF StartWorker, TypeOK
    <2>3. RetryCountIsTrue' /\ FreshRowsUncounted'
      BY <1>5, <2>2 DEF StartWorker, Inv, RetryCountIsTrue, FreshRowsUncounted
    <2> QED
      BY <1>t, <2>1, <2>3 DEF Inv, OneHolder, HolderKnowsRetry
  <1>6. ASSUME NEW w \in Workers, StopWorker(w) PROVE Inv'
    <2>1. \A v \in Workers, j \in JobIds : Holds(v, j)' => Holds(v, j)
      BY <1>6, <1>t DEF StopWorker, Holds, Busy, TypeOK
    <2> QED
      BY <1>6, <1>t, <2>1
         DEF StopWorker, Inv, OneHolder, HolderKnowsRetry, RetryCountIsTrue, FreshRowsUncounted
  <1>7. ASSUME NEW w \in Workers, Crash(w) PROVE Inv'
    <2>1. \A v \in Workers, j \in JobIds : Holds(v, j)' => v # w /\ Holds(v, j)
      BY <1>7, <1>t DEF Crash, Holds, Busy, TypeOK
    <2>2. \A v \in Workers \ {w} : seen'[v] = seen[v]
      BY <1>7, <1>t DEF Crash, TypeOK
    <2> QED
      BY <1>7, <1>t, <2>1, <2>2
         DEF Crash, Inv, OneHolder, HolderKnowsRetry, RetryCountIsTrue, FreshRowsUncounted
  <1>8. ASSUME NEW w \in Workers, ClaimNextJob(w) PROVE Inv'
    <2>1. PICK k \in JobIds :
             /\ job[k].state = "queued"
             /\ job' = [job EXCEPT ![k].state = "running"]
             /\ mine' = [mine EXCEPT ![w] = k]
             /\ seen' = [seen EXCEPT ![w] = job[k].retry]
             /\ pc' = [pc EXCEPT ![w] = IF job[k].target = Global
                                       THEN "clustering" ELSE "claimed"]
      BY <1>8 DEF ClaimNextJob, Queued
    <2>2. /\ \A j \in JobIds \ {k} : job'[j] = job[j]
          /\ job'[k].state = "running" /\ job'[k].retry = job[k].retry
          /\ \A v \in Workers \ {w} : pc'[v] = pc[v] /\ mine'[v] = mine[v] /\ seen'[v] = seen[v]
          /\ mine'[w] = k /\ seen'[w] = job[k].retry
      BY <2>1, <1>t DEF TypeOK
    <2>3. \A v \in Workers, j \in JobIds :
             Holds(v, j)' => \/ v = w /\ j = k
                             \/ v # w /\ j # k /\ Holds(v, j)
      <3> SUFFICES ASSUME NEW v \in Workers, NEW j \in JobIds, Holds(v, j)'
                   PROVE  (v = w /\ j = k) \/ (v # w /\ j # k /\ Holds(v, j))
        OBVIOUS
      <3>1. CASE v = w
        BY <3>1, <2>2 DEF Holds
      <3>2. CASE v # w
        <4>1. Holds(v, j)
          BY <3>2, <2>2 DEF Holds, Busy
        <4>2. job[j].state = "running"
          BY <4>1 DEF Inv, OneHolder
        <4> QED
          BY <3>2, <4>1, <4>2, <2>1
      <3> QED
        BY <3>1, <3>2
    <2>4. OneHolder'
      BY <2>2, <2>3 DEF Inv, OneHolder
    <2>5. HolderKnowsRetry'
      BY <2>2, <2>3 DEF Inv, HolderKnowsRetry
    <2>6. RetryCountIsTrue' /\ FreshRowsUncounted'
      BY <1>8, <2>1, <2>2 DEF ClaimNextJob, Inv, RetryCountIsTrue, FreshRowsUncounted
    <2> QED
      BY <1>t, <2>4, <2>5, <2>6 DEF Inv
  <1>9. ASSUME NEW w \in Workers,
               \/ StartCompile(w) \/ EndCompile(w) \/ FailCompile(w) \/ RaiseInJob(w)
               \/ SetL2Done(w) \/ CountActiveL2(w) \/ EndClustering(w) \/ FailClustering(w)
        PROVE Inv'
    <2>1. /\ pc[w] \notin Loose
          /\ \A v \in Workers \ {w} : pc'[v] = pc[v]
          /\ UNCHANGED <<job, requeues, mine, seen>>
      BY <1>9, <1>t DEF TypeOK, StartCompile, EndCompile, FailCompile, RaiseInJob,
                        SetL2Done, CountActiveL2, EndClustering, FailClustering
    <2> QED
      BY <1>t, <2>1, WithinJob
  <1>10. ASSUME NEW w \in Workers, MarkJobDone(w) \/ MarkJobFailed(w) PROVE Inv'
    <2>1. Holds(w, mine[w]) /\ mine[w] \in JobIds
      BY <1>10, <1>t DEF MarkJobDone, MarkJobFailed, Holds, Busy, TypeOK
    <2>2. /\ pc'[w] \in Loose
          /\ \A v \in Workers \ {w} : pc'[v] = pc[v] /\ mine'[v] = mine[v] /\ seen'[v] = seen[v]
      BY <1>10, <1>t DEF Target, MarkJobDone, MarkJobFailed, TypeOK
    <2>3. /\ \A j \in JobIds \ {mine[w]} : job'[j] = job[j] /\ requeues'[j] = requeues[j]
          /\ job'[mine[w]].state # "absent"
          /\ job'[mine[w]].retry = job[mine[w]].retry
          /\ requeues'[mine[w]] = requeues[mine[w]]
      BY <1>10, <1>t, <2>1 DEF MarkJobDone, MarkJobFailed, TypeOK
    <2>4. job'[mine[w]].retry = requeues'[mine[w]] /\ requeues'[mine[w]] <= MaxRetries
      BY <2>1, <2>3 DEF Inv, RetryCountIsTrue
    <2> QED
      BY <1>t, <2>1, <2>2, <2>3, <2>4, LettingGo
  <1>11. ASSUME NEW w \in Workers, RequeueForRetry(w) PROVE Inv'
    <2>1. Holds(w, mine[w]) /\ mine[w] \in JobIds
      BY <1>11, <1>t DEF RequeueForRetry, Holds, Busy, TypeOK
    <2>2. /\ pc'[w] = "idle"
          /\ \A v \in Workers \ {w} : pc'[v] = pc[v] /\ mine'[v] = mine[v] /\ seen'[v] = seen[v]
      BY <1>11, <1>t DEF RequeueForRetry, TypeOK
    <2>3. /\ \A j \in JobIds \ {mine[w]} : job'[j] = job[j] /\ requeues'[j] = requeues[j]
          /\ job'[mine[w]].state = "queued"
          /\ job'[mine[w]].retry = seen[w] + 1
          /\ requeues'[mine[w]] = requeues[mine[w]] + 1
      BY <1>11, <1>t, <2>1 DEF RequeueForRetry, TypeOK, Row
    <2>4. seen[w] = requeues[mine[w]]
      BY <2>1 DEF Inv, HolderKnowsRetry, RetryCountIsTrue
    <2>5. requeues'[mine[w]] <= MaxRetries
      <3>1. seen[w] \in Nat /\ seen[w] < MaxRetries /\ MaxRetries \in Nat
        BY <1>11, <1>t, ConstantsAssumption DEF RequeueForRetry, TypeOK
      <3> QED
        BY <3>1, <2>3, <2>4
    <2> QED
      BY <1>t, <2>1, <2>2, <2>3, <2>4, <2>5, LettingGo
  <1>12. ASSUME NEW w \in Workers, SetL2Error(w) \/ EndTally(w) PROVE Inv'
    <2>1. \A v \in Workers, j \in JobIds : Holds(v, j)' => v # w /\ Holds(v, j)
      BY <1>12, <1>t DEF SetL2Error, EndTally, Holds, Busy, TypeOK
    <2>2. \A v \in Workers \ {w} : seen'[v] = seen[v]
      BY <1>12, <1>t DEF SetL2Error, EndTally, TypeOK
    <2> QED
      BY <1>12, <1>t, <2>1, <2>2
         DEF SetL2Error, EndTally, Inv, OneHolder, HolderKnowsRetry, RetryCountIsTrue, FreshRowsUncounted
  <1>13. CASE UNCHANGED vars
    BY <1>13 DEF vars, Inv, TypeOK, OneHolder, HolderKnowsRetry, RetryCountIsTrue,
                 FreshRowsUncounted, Holds, Busy
  <1> QED
    BY <1>1, <1>2, <1>3, <1>4, <1>5, <1>6, <1>7, <1>8, <1>9, <1>10, <1>11, <1>12, <1>13
       DEF QuietNext, ClientStep, WorkerStep

(* At most one worker runs a job, and its row says so (db/jobs.py           *)
(* claim_next_job and the terminal writes), for any number of workers.      *)
THEOREM ClaimsAreExclusive == QuietSpec => []OneHolder
  <1>1. Inv => OneHolder
    BY DEF Inv
  <1> QED
    BY <1>1, InitInv, InvStep, PTL DEF QuietSpec

(* retry_count counts the retries a job had and never passes MAX_RETRIES,   *)
(* although it is written from a worker's copy of the row.                  *)
THEOREM RetriesAreCounted == QuietSpec => []RetryCountIsTrue
  <1>1. Inv => RetryCountIsTrue
    BY DEF Inv
  <1> QED
    BY <1>1, InitInv, InvStep, PTL DEF QuietSpec

(* No step of the queue but a rerun takes a row out of a terminal state: a  *)
(* worker writes only the row it holds, and that one is running.           *)
LEMMA TerminalStep == Inv /\ [QuietNext]_vars => [OnlyRerunReopens]_vars
  <1> SUFFICES ASSUME Inv, QuietNext, NEW j \in JobIds, job[j].state \in Terminal,
                      job'[j].state # job[j].state
               PROVE  RerunJob(j)
    BY DEF OnlyRerunReopens
  <1>t. TypeOK
    BY DEF Inv
  <1> USE DEF Goto, SetState, LetGo, rows, sources, procs, bounds
  <1>1. ASSUME NEW c \in Clients, NEW t \in Targets, Ask(c, t) PROVE FALSE
    BY <1>1 DEF Ask
  <1>2. ASSUME NEW c \in Clients, Insert(c) PROVE FALSE
    BY <1>2, <1>t DEF Insert, TypeOK
  <1>3. ASSUME NEW k \in JobIds, CancelJob(k) PROVE FALSE
    BY <1>3, <1>t DEF CancelJob, TypeOK
  <1>4. ASSUME NEW k \in JobIds, RerunJob(k) PROVE RerunJob(j)
    <2>1. CASE k = j
      BY <1>4, <2>1
    <2>2. CASE k # j
      BY <1>4, <1>t, <2>2 DEF RerunJob, TypeOK
    <2> QED
      BY <2>1, <2>2
  <1>5. ASSUME NEW w \in Workers, StartWorker(w) PROVE FALSE
    BY <1>5, <1>t DEF StartWorker, TypeOK
  <1>6. ASSUME NEW w \in Workers, StopWorker(w) \/ Crash(w) \/ SetL2Error(w) \/ EndTally(w)
        PROVE FALSE
    BY <1>6 DEF StopWorker, Crash, SetL2Error, EndTally
  <1>7. ASSUME NEW w \in Workers, ClaimNextJob(w) PROVE FALSE
    BY <1>7, <1>t DEF ClaimNextJob, Queued, TypeOK
  <1>8. ASSUME NEW w \in Workers,
               \/ StartCompile(w) \/ EndCompile(w) \/ FailCompile(w) \/ RaiseInJob(w)
               \/ SetL2Done(w) \/ CountActiveL2(w) \/ EndClustering(w) \/ FailClustering(w)
        PROVE FALSE
    BY <1>8 DEF StartCompile, EndCompile, FailCompile, RaiseInJob,
                SetL2Done, CountActiveL2, EndClustering, FailClustering
  <1>9. ASSUME NEW w \in Workers,
               MarkJobDone(w) \/ RequeueForRetry(w) \/ MarkJobFailed(w)
        PROVE FALSE
    <2>1. Holds(w, mine[w]) /\ mine[w] \in JobIds
      BY <1>9, <1>t DEF MarkJobDone, RequeueForRetry, MarkJobFailed, Holds, Busy, TypeOK
    <2>2. job[mine[w]].state = "running"
      BY <2>1 DEF Inv, OneHolder
    <2>3. \A k \in JobIds \ {mine[w]} : job'[k] = job[k]
      BY <1>9, <1>t, <2>1 DEF MarkJobDone, RequeueForRetry, MarkJobFailed, TypeOK
    <2> QED
      BY <2>2, <2>3
  <1> QED
    BY <1>1, <1>2, <1>3, <1>4, <1>5, <1>6, <1>7, <1>8, <1>9
       DEF QuietNext, ClientStep, WorkerStep

(* A job that ended stays ended until somebody reruns it: no late write of  *)
(* a worker or of a recovery reopens it (db/jobs.py, SYSTEM_BEHAVIOR 6).    *)
THEOREM EndedStaysEnded == QuietSpec => TerminalUntilRerun
  BY InitInv, InvStep, TerminalStep, PTL DEF QuietSpec, TerminalUntilRerun

-----------------------------------------------------------------------------
(***************************************************************************)
(* The rows and the workers' memory implement a queue of leases            *)
(* (LeaseQueue through the mapping of IngestLeases).                       *)
(***************************************************************************)

(* The holder of a row is the worker that holds it, if any does.           *)
HolderMapped ==
    \A j \in JobIds :
       /\ HolderOf(j) \in Workers \cup {NoHolder}
       /\ \A w \in Workers : HolderOf(j) = w <=> Holds(w, j)
       /\ HolderOf(j) = NoHolder <=> \A w \in Workers : ~Holds(w, j)

LEMMA HolderIsMapped == OneHolder => HolderMapped
  <1> SUFFICES ASSUME OneHolder, NEW j \in JobIds
               PROVE  /\ HolderOf(j) \in Workers \cup {NoHolder}
                      /\ \A w \in Workers : HolderOf(j) = w <=> Holds(w, j)
                      /\ HolderOf(j) = NoHolder <=> \A w \in Workers : ~Holds(w, j)
    BY DEF HolderMapped
  <1>1. CASE \E w \in Workers : Holds(w, j)
    <2>1. HolderOf(j) \in Workers /\ Holds(HolderOf(j), j)
      BY <1>1 DEF HolderOf
    <2>2. \A w \in Workers : Holds(w, j) => w = HolderOf(j)
      BY <2>1 DEF OneHolder
    <2> QED
      BY <2>1, <2>2, NoHolderAssumption
  <1>2. CASE \A w \in Workers : ~Holds(w, j)
    BY <1>2, NoHolderAssumption DEF HolderOf
  <1> QED
    BY <1>1, <1>2

(* A running row is leased if somebody holds it and orphaned if nobody     *)
(* does; the life of any other row is its state.                           *)
LEMMA LifeMapped ==
    ASSUME TypeOK, HolderMapped, NEW j \in JobIds
    PROVE  /\ job[j].state = "running" =>
                 LifeOf(j) = IF HolderOf(j) = NoHolder THEN "orphaned" ELSE "leased"
           /\ job[j].state \in Terminal => LifeOf(j) = "closed"
           /\ job[j].state = "queued" => LifeOf(j) = "queued"
           /\ job[j].state = "absent" => LifeOf(j) = "absent"
           /\ job[j].state \in Active \cup Terminal \cup {"absent"}
  BY DEF TypeOK, LifeOf

LEMMA SameHolder ==
    ASSUME HolderMapped, HolderMapped', NEW j \in JobIds,
           \A v \in Workers : Holds(v, j)' <=> Holds(v, j)
    PROVE  HolderOf(j)' = HolderOf(j)
  BY NoHolderAssumption DEF HolderMapped

LEMMA SameLife ==
    ASSUME TypeOK, TypeOK', HolderMapped, HolderMapped', NEW j \in JobIds,
           \A v \in Workers : Holds(v, j)' <=> Holds(v, j), job'[j].state = job[j].state
    PROVE  LifeOf(j)' = LifeOf(j)
  BY SameHolder DEF LifeOf

(* What the mapping sees of both states, for the lemmas below.             *)
Mapped == TypeOK /\ TypeOK' /\ HolderMapped /\ HolderMapped'

LEMMA StutterMapped ==
    ASSUME Mapped, \A j \in JobIds : /\ job'[j].state = job[j].state
                                     /\ \A v \in Workers : Holds(v, j)' <=> Holds(v, j)
    PROVE  UNCHANGED Leases!vars
  <1>1. \A j \in JobIds : LifeOf(j)' = LifeOf(j) /\ HolderOf(j)' = HolderOf(j)
    BY SameLife, SameHolder DEF Mapped
  <1> QED
    BY <1>1 DEF Leases!vars

(* A row that changes without a worker.                                    *)
LEMMA MoveMapped ==
    ASSUME Mapped, NEW k \in JobIds,
           \A j \in JobIds, v \in Workers : Holds(v, j)' <=> Holds(v, j),
           \A j \in JobIds \ {k} : job'[j].state = job[j].state,
           \/ job[k].state \in {"absent"} \cup Terminal /\ job'[k].state = "queued"
           \/ job[k].state = "queued" /\ job'[k].state \in Terminal
    PROVE  Leases!Next
  <1>1. \A j \in JobIds \ {k} : LifeOf(j)' = LifeOf(j)
    BY SameLife DEF Mapped
  <1>2. \A j \in JobIds : HolderOf(j)' = HolderOf(j)
    BY SameHolder DEF Mapped
  <1>3. \/ LifeOf(k) = "absent" /\ LifeOf(k)' = "queued"
        \/ LifeOf(k) = "queued" /\ LifeOf(k)' = "closed"
        \/ LifeOf(k) = "closed" /\ LifeOf(k)' = "queued"
    BY DEF LifeOf
  <1>4. Leases!Move(k)
    BY <1>1, <1>2, <1>3 DEF Leases!Move, Leases!Turn
  <1> QED
    BY <1>4 DEF Leases!Next

(* A worker lets go of the row it held: it ends, waits again or is orphaned. *)
LEMMA ReleaseMapped ==
    ASSUME Mapped, OneHolder, NEW w \in Workers, NEW k \in JobIds, Holds(w, k),
           \A j \in JobIds, v \in Workers : Holds(v, j)' <=> v # w /\ Holds(v, j),
           \A j \in JobIds \ {k} : job'[j].state = job[j].state,
           job'[k].state \in Terminal \cup {"queued", "running"}
    PROVE  Leases!Next
  <1>1. /\ \A v \in Workers : ~Holds(v, k)'
        /\ \A j \in JobIds \ {k} : ~Holds(w, j)
    BY DEF OneHolder, Holds
  <1>2. \A j \in JobIds \ {k} : LifeOf(j)' = LifeOf(j) /\ HolderOf(j)' = HolderOf(j)
    BY <1>1, SameLife, SameHolder DEF Mapped
  <1>3. HolderOf(k) = w /\ HolderOf(k)' = NoHolder /\ job[k].state = "running"
    BY <1>1 DEF Mapped, HolderMapped, OneHolder
  <1>4. LifeOf(k) = "leased" /\ LifeOf(k)' \in {"closed", "queued", "orphaned"}
    BY <1>3, NoHolderAssumption DEF LifeOf
  <1>5. Leases!Release(w, k)
    BY <1>2, <1>3, <1>4 DEF Leases!Release, Leases!Turn
  <1> QED
    BY <1>5 DEF Leases!Next

(* A worker that held nothing takes a queued row.                          *)
LEMMA LeaseMapped ==
    ASSUME Mapped, NEW w \in Workers, NEW k \in JobIds,
           job[k].state = "queued", job'[k].state = "running",
           \A j \in JobIds : ~Holds(w, j), \A v \in Workers : ~Holds(v, k),
           \A j \in JobIds, v \in Workers :
              Holds(v, j)' <=> (v = w /\ j = k) \/ (v # w /\ Holds(v, j)),
           \A j \in JobIds \ {k} : job'[j].state = job[j].state
    PROVE  Leases!Next
  <1>1. \A j \in JobIds \ {k}, v \in Workers : Holds(v, j)' <=> Holds(v, j)
    OBVIOUS
  <1>2. \A j \in JobIds \ {k} : LifeOf(j)' = LifeOf(j) /\ HolderOf(j)' = HolderOf(j)
    BY <1>1, SameLife, SameHolder DEF Mapped
  <1>3. HolderOf(k)' = w /\ \A j \in JobIds : HolderOf(j) # w
    BY DEF Mapped, HolderMapped
  <1>4. LifeOf(k) = "queued" /\ LifeOf(k)' = "leased"
    BY <1>3, NoHolderAssumption DEF LifeOf
  <1>5. Leases!Lease(w, k)
    BY <1>2, <1>3, <1>4 DEF Leases!Lease, Leases!Turn, Leases!Held
  <1> QED
    BY <1>5 DEF Leases!Next

(* The recovery of a worker that starts while nobody works.                *)
LEMMA ReclaimMapped ==
    ASSUME Mapped,
           \A j \in JobIds, v \in Workers : ~Holds(v, j) /\ ~Holds(v, j)',
           \A j \in JobIds :
              job'[j].state = IF job[j].state = "running" THEN "queued" ELSE job[j].state
    PROVE  Leases!Next
  <1>1. \A j \in JobIds : HolderOf(j) = NoHolder /\ HolderOf(j)' = NoHolder
    BY DEF Mapped, HolderMapped
  <1>2. \A j \in JobIds : LifeOf(j) # "leased"
                          /\ LifeOf(j)' = IF LifeOf(j) = "orphaned" THEN "queued" ELSE LifeOf(j)
    BY <1>1, LifeMapped DEF Mapped, LifeOf, TypeOK
  <1>3. Leases!Reclaim
    BY <1>1, <1>2 DEF Leases!Reclaim
  <1> QED
    BY <1>3 DEF Leases!Next

LEMMA InitMapped == Init => Leases!Init
  <1> SUFFICES ASSUME Init PROVE Leases!Init
    OBVIOUS
  <1>1. TypeOK /\ HolderMapped
    BY InitInv, HolderIsMapped DEF Inv
  <1>2. \A j \in JobIds, w \in Workers : ~Holds(w, j)
    BY DEF Init, Holds
  <1>3. \A j \in JobIds : LifeOf(j) = "absent" /\ HolderOf(j) = NoHolder
    BY <1>1, <1>2, LifeMapped DEF HolderMapped, Init, NoRow, Row
  <1> QED
    BY <1>3 DEF Leases!Init

(* Every step of the queue is a step of a queue of leases, or none.        *)
LEMMA StepMapped == Inv /\ Inv' /\ [QuietNext]_vars => [Leases!Next]_(Leases!vars)
  <1> SUFFICES ASSUME Inv, Inv', [QuietNext]_vars PROVE Leases!Next \/ UNCHANGED Leases!vars
    OBVIOUS
  <1>t. Mapped /\ TypeOK /\ OneHolder
    <2>1. TypeOK /\ TypeOK' /\ OneHolder /\ OneHolder'
      BY DEF Inv
    <2>2. HolderMapped /\ HolderMapped'
      BY <2>1, HolderIsMapped, PTL
    <2> QED
      BY <2>1, <2>2 DEF Mapped
  <1> HIDE DEF Mapped
  <1> USE DEF Goto, SetState, LetGo, rows, sources, procs, bounds
  <1>1. ASSUME NEW c \in Clients, NEW t \in Targets, Ask(c, t) PROVE UNCHANGED Leases!vars
    BY <1>1, <1>t, StutterMapped DEF Ask, Holds
  <1>2. ASSUME NEW c \in Clients, Insert(c) PROVE Leases!Next
    <2>1. PICK k \in JobIds : /\ job[k].state = "absent"
                              /\ job' = [job EXCEPT ![k] = Row("queued", asked[c], 0)]
      BY <1>2 DEF Insert
    <2>2. /\ \A j \in JobIds \ {k} : job'[j] = job[j]
          /\ job'[k].state = "queued"
      BY <2>1, <1>t DEF TypeOK, Row
    <2> QED
      BY <1>2, <1>t, <2>1, <2>2, MoveMapped DEF Insert, Holds
  <1>3. ASSUME NEW k \in JobIds, CancelJob(k) \/ RerunJob(k) PROVE Leases!Next
    <2>1. /\ \A j \in JobIds \ {k} : job'[j] = job[j]
          /\ \/ job[k].state = "queued" /\ job'[k].state = "cancelled"
             \/ job[k].state \in Terminal /\ job'[k].state = "queued"
      <3>1. CASE CancelJob(k)
        BY <1>t, <3>1 DEF CancelJob, TypeOK
      <3>2. CASE RerunJob(k)
        BY <1>t, <3>2 DEF RerunJob, TypeOK, Row
      <3> QED
        BY <1>3, <3>1, <3>2
    <2>2. \A j \in JobIds, v \in Workers : Holds(v, j)' <=> Holds(v, j)
      BY <1>3 DEF CancelJob, RerunJob, Holds
    <2> QED
      BY <1>t, <2>1, <2>2, MoveMapped
  <1>4. ASSUME NEW w \in Workers, Quiet, StartWorker(w) PROVE Leases!Next
    <2>1. \A j \in JobIds, v \in Workers : ~Holds(v, j) /\ ~Holds(v, j)'
      BY <1>4, <1>t DEF StartWorker, Quiet, Busy, Holds, TypeOK
    <2>2. \A j \in JobIds :
             job'[j].state = IF job[j].state = "running" THEN "queued" ELSE job[j].state
      BY <1>4, <1>t DEF StartWorker, TypeOK
    <2> QED
      BY <1>t, <2>1, <2>2, ReclaimMapped
  <1>5. ASSUME NEW w \in Workers,
               StopWorker(w) \/ SetL2Error(w) \/ EndTally(w)
               \/ StartCompile(w) \/ EndCompile(w) \/ FailCompile(w) \/ RaiseInJob(w)
               \/ SetL2Done(w) \/ CountActiveL2(w) \/ EndClustering(w) \/ FailClustering(w)
        PROVE UNCHANGED Leases!vars
    <2>1. job' = job /\ \A v \in Workers \ {w} : pc'[v] = pc[v] /\ mine'[v] = mine[v]
      BY <1>5, <1>t DEF TypeOK, StopWorker, SetL2Error, EndTally, StartCompile, EndCompile,
           FailCompile, RaiseInJob, SetL2Done, CountActiveL2, EndClustering, FailClustering
    <2>2. \/ pc[w] \in Loose /\ pc'[w] \in Loose
          \/ pc[w] \notin Loose /\ pc'[w] \notin Loose /\ mine'[w] = mine[w]
      BY <1>5, <1>t DEF TypeOK, StopWorker, SetL2Error, EndTally, StartCompile, EndCompile,
           FailCompile, RaiseInJob, SetL2Done, CountActiveL2, EndClustering, FailClustering
    <2>3. \A j \in JobIds, v \in Workers : Holds(v, j)' <=> Holds(v, j)
      BY <2>1, <2>2 DEF Holds
    <2> QED
      BY <1>t, <2>1, <2>3, StutterMapped
  <1>6. ASSUME NEW w \in Workers, ClaimNextJob(w) PROVE Leases!Next
    <2>1. PICK k \in JobIds :
             /\ job[k].state = "queued"
             /\ job' = [job EXCEPT ![k].state = "running"]
             /\ mine' = [mine EXCEPT ![w] = k]
             /\ pc' = [pc EXCEPT ![w] = IF job[k].target = Global
                                       THEN "clustering" ELSE "claimed"]
      BY <1>6 DEF ClaimNextJob, Queued
    <2>2. /\ \A j \in JobIds \ {k} : job'[j] = job[j]
          /\ job'[k].state = "running"
          /\ \A v \in Workers \ {w} : pc'[v] = pc[v] /\ mine'[v] = mine[v]
          /\ mine'[w] = k /\ pc'[w] \notin Loose /\ pc[w] \in Loose
      BY <1>6, <2>1, <1>t DEF TypeOK, ClaimNextJob
    <2>3. /\ \A j \in JobIds : ~Holds(w, j)
          /\ \A v \in Workers : ~Holds(v, k)
      BY <1>t, <2>1, <2>2 DEF Holds, OneHolder
    <2>4. \A j \in JobIds, v \in Workers :
             Holds(v, j)' <=> (v = w /\ j = k) \/ (v # w /\ Holds(v, j))
      BY <2>2 DEF Holds
    <2> QED
      BY <1>t, <2>1, <2>2, <2>3, <2>4, LeaseMapped
  <1>7. ASSUME NEW w \in Workers, MarkJobDone(w) \/ MarkJobFailed(w) \/ RequeueForRetry(w)
        PROVE Leases!Next
    <2>1. Holds(w, mine[w]) /\ mine[w] \in JobIds
      BY <1>7, <1>t DEF MarkJobDone, MarkJobFailed, RequeueForRetry, Holds, Busy, TypeOK
    <2>2. /\ pc'[w] \in Loose
          /\ \A v \in Workers \ {w} : pc'[v] = pc[v] /\ mine'[v] = mine[v]
      BY <1>7, <1>t DEF Target, MarkJobDone, MarkJobFailed, RequeueForRetry, TypeOK
    <2>3. /\ \A j \in JobIds \ {mine[w]} : job'[j] = job[j]
          /\ job'[mine[w]].state \in {"done", "failed", "queued"}
      <3>1. CASE MarkJobDone(w)
        BY <1>t, <2>1, <3>1 DEF MarkJobDone, TypeOK
      <3>2. CASE MarkJobFailed(w)
        BY <1>t, <2>1, <3>2 DEF MarkJobFailed, TypeOK
      <3>3. CASE RequeueForRetry(w)
        BY <1>t, <2>1, <3>3 DEF RequeueForRetry, TypeOK, Row
      <3> QED
        BY <1>7, <3>1, <3>2, <3>3
    <2>4. \A j \in JobIds, v \in Workers : Holds(v, j)' <=> v # w /\ Holds(v, j)
      BY <2>2 DEF Holds
    <2> QED
      BY <1>t, <2>1, <2>2, <2>3, <2>4, ReleaseMapped
  <1>8. ASSUME NEW w \in Workers, Crash(w) PROVE Leases!Next \/ UNCHANGED Leases!vars
    <2>1. /\ job' = job /\ pc'[w] = "off"
          /\ \A v \in Workers \ {w} : pc'[v] = pc[v] /\ mine'[v] = mine[v]
      BY <1>8, <1>t DEF Crash, TypeOK
    <2>2. \A j \in JobIds, v \in Workers : Holds(v, j)' <=> v # w /\ Holds(v, j)
      BY <2>1 DEF Holds
    <2>3. CASE \E k \in JobIds : Holds(w, k)
      <3>1. PICK k \in JobIds : Holds(w, k)
        BY <2>3
      <3>2. job'[k].state = "running"
        BY <1>t, <2>1, <3>1 DEF OneHolder
      <3> QED
        BY <1>t, <2>1, <2>2, <3>1, <3>2, ReleaseMapped
    <2>4. CASE \A k \in JobIds : ~Holds(w, k)
      <3>1. \A j \in JobIds, v \in Workers : Holds(v, j)' <=> Holds(v, j)
        BY <2>2, <2>4
      <3> QED
        BY <1>t, <2>1, <3>1, StutterMapped
    <2> QED
      BY <2>3, <2>4
  <1>9. CASE UNCHANGED vars
    BY <1>9, <1>t, StutterMapped DEF vars, Holds
  <1> QED
    BY <1>1, <1>2, <1>3, <1>4, <1>5, <1>6, <1>7, <1>8, <1>9
       DEF QuietNext, ClientStep, WorkerStep

(* claim_next_job, the terminal writes, cancel, rerun, crash and recovery   *)
(* are together a queue of leases: a job is in the hands of at most one     *)
(* worker, who alone decides how it ends, and what a dead worker held goes  *)
(* back to the queue.                                                      *)
THEOREM QueueOfLeases == QuietSpec => ImplementsLeases
  BY InitMapped, InitInv, InvStep, StepMapped, PTL DEF QuietSpec, ImplementsLeases, Leases!Spec
=============================================================================
