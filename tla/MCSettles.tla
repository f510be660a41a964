----------------------------- MODULE MCSettles ------------------------------
(***************************************************************************)
(* What must come to rest, under fairness: the jobs of the queue, the      *)
(* calls of a provider chain, and the exchange of one source's generations *)
(* between devices.  These share no variable: a behaviour is about one of  *)
(* them, and the others stay as they started.                              *)
(***************************************************************************)
EXTENDS Generations, TLC

CONSTANTS
    Parts,         \* those that a behaviour may be about
    d1, d2, r1, t1, w1, w2, c1, s1, global,
    Workers, Clients, Sources, Global, MaxJobs, MaxRetries, MaxCrashes, MaxReruns

VARIABLES
    about,
    up, blocked, active, probe, call, flips,                                        \* Failover
    job, l2, l3, serving, pc, mine, seen, asked, crashes, reruns, requeues          \* IngestJobs

Chain == INSTANCE Failover WITH Providers <- {0, 1}, Metered <- {0}, Callers <- {t1}, Chunks <- 2, MaxFlips <- 2

Queue == INSTANCE IngestJobs

chain == <<up, blocked, active, probe, call, flips>>
queue == <<job, l2, l3, serving, pc, mine, seen, asked, crashes, reruns, requeues>>

Halves == d1 :> 0 @@ d2 :> 8

(* The first device's clock is right.                                      *)
SettlesInit ==
    /\ about \in Parts
    /\ Init /\ Chain!Init /\ Queue!Init
    /\ skew[d1] = 0
    /\ about # "source" => skew[d2] = 0
    /\ about # "chain" => up = {0, 1}

Source == about = "source" /\ UNCHANGED <<about, chain, queue>>
Calls == about = "chain" /\ UNCHANGED <<about, vars, queue>>
Jobs == about = "jobs" /\ UNCHANGED <<about, vars, chain>>

SettlesNext ==
    \/ Source /\ Next
    \/ Calls /\ Chain!Next
    \/ Jobs /\ Queue!QuietNext

allvars == <<about, vars, chain, queue>>

(* The fairness of the modules.                                            *)
SettlesFairness ==
    /\ WF_allvars(Source /\ Exchange)
    /\ WF_allvars(Calls /\ Chain!Probing)
    /\ WF_allvars(Calls /\ \E p \in {0, 1} : Chain!Expire(p))
    /\ WF_allvars(Calls /\ Chain!Proceed(t1))
    /\ \A w \in Workers : WF_allvars(Jobs /\ Queue!WorkerStep(w)) /\ WF_allvars(Jobs /\ Queue!Quiet /\ Queue!StartWorker(w))

Settling == SettlesInit /\ [][SettlesNext]_allvars /\ SettlesFairness

(* The properties of the other parts, under their names.                   *)
EveryJobSettles == Queue!EveryJobSettles
PrimaryComesBack == Chain!PrimaryComesBack
=============================================================================
