------------------------------- MODULE Failover -------------------------------
(***************************************************************************)
(* The ordered chain of language-model providers of one client (llm.py,    *)
(* FailoverClient): calls that advance along the chain, the daemon thread  *)
(* that probes the primary, and the capacity block of a provider that      *)
(* answered 429.                                                           *)
(*                                                                         *)
(* A call reads the active provider when it starts, asks without the lock  *)
(* and compares again when it has the answer.  Providers are numbered from *)
(* 0, the primary.  A stream delivers Chunks chunks.                       *)
(***************************************************************************)
EXTENDS Integers, Sequences, FiniteSets, Functions

CONSTANTS
    Providers,    \* 0..n-1
    Metered,      \* those that answer 429 (AntigravityCliClient)
    Callers,      \* threads that share the client
    Chunks,
    MaxFlips      \* bound: changes of a provider's health

VARIABLES
    up,           \* providers that answer
    blocked,      \* _capacity_blocked_until: those that shall not be asked yet
    active,       \* _active_idx
    probe,        \* the daemon: "sleep", "ping", "alive"
    call,         \* per caller
    flips

vars == <<up, blocked, active, probe, call, flips>>

Last == Cardinality(Providers) - 1
NoCall == [op |-> "none"]

Init ==
    /\ up \in SUBSET Providers
    /\ blocked = {}
    /\ active = 0
    /\ probe = "sleep"
    /\ call = [t \in Callers |-> NoCall]
    /\ flips = 0

(* A provider goes down or comes back. *)
Flip(p) ==
    /\ flips < MaxFlips
    /\ flips' = flips + 1
    /\ up' = (up \ {p}) \cup ({p} \ up)
    /\ UNCHANGED <<blocked, active, probe, call>>

(* The 300 seconds of a block are over. *)
Expire(p) ==
    /\ p \in blocked
    /\ blocked' = blocked \ {p}
    /\ UNCHANGED <<up, active, probe, call, flips>>

-----------------------------------------------------------------------------
(* Calls *)

(* capacity_blocked_for is the shortest wait; run_next_job starts no job    *)
(* while it is positive, and a graph batch is not asked again.              *)
CapacityLeft == \E p \in Providers : p \notin blocked

(* ensure_ready goes along the chain from its head, the others from the    *)
(* active provider; a job starts with ensure_ready or with a chat.         *)
Begin(t, op) ==
    /\ call[t].op \in {"none", "done", "raised"}
    /\ CapacityLeft
    /\ call' = [call EXCEPT ![t] = [op |-> op, start |-> IF op = "ready" THEN 0 ELSE active,
                                    offset |-> 0, at |-> "ask", failed |-> {}, parts |-> <<>>, heard |-> {}]]
    /\ UNCHANGED <<up, blocked, active, probe, flips>>

(* Mutant: the chain is not closed.                                         *)
IdxOpen(k) == k.start + k.offset

Idx(k) == (k.start + k.offset) % Cardinality(Providers)

Busy(t) == call[t].op \in {"ready", "chat", "stream"}
AtIdx(t, at) == Busy(t) /\ call[t].at = at
Ended(k, op) == [op |-> op, kind |-> k.op, failed |-> k.failed, parts |-> k.parts, heard |-> k.heard]

(* Mutant: what was streamed before the failure stays in the answer.        *)
AdvancedKeeping(k, p) == [k EXCEPT !.offset = @ + 1, !.at = "ask", !.failed = @ \cup {p}]

Advanced(k, p) == [k EXCEPT !.offset = @ + 1, !.at = "ask", !.failed = @ \cup {p}, !.parts = <<>>]

(* A failure, also one in the middle of a stream: the next provider.        *)
(* _raise_capacity_error also blocks the provider.                          *)
Fail(t) ==
    LET k == call[t]  p == Idx(k)  after == Advanced(k, p) IN
    /\ Busy(t) /\ k.at \in {"ask", "more"}
    /\ p \notin up
    /\ \/ blocked' = blocked
       \/ p \in Metered /\ k.op # "ready" /\ blocked' = blocked \cup {p}
    /\ call' = [call EXCEPT ![t] = IF k.offset = Last THEN Ended(after, "raised") ELSE after]
    /\ UNCHANGED <<up, active, probe, flips>>

(* The answer, or the first chunk; ensure_ready always sets the provider.   *)
Answer(t) ==
    LET k == call[t]  p == Idx(k) IN
    /\ AtIdx(t, "ask") /\ p \in up
    /\ call' = [call EXCEPT ![t].at = "compare", ![t].parts = Append(@, p)]
    /\ UNCHANGED <<up, blocked, active, probe, flips>>

(* The first chunk is handed on after the provider was set.                 *)
Compare(t) ==
    LET k == call[t] IN
    /\ AtIdx(t, "compare")
    /\ call' = [call EXCEPT ![t].at = IF Idx(k) # active \/ k.op = "ready" THEN "set"
                                      ELSE IF k.op = "stream" THEN "more" ELSE "end"]
    /\ UNCHANGED <<up, blocked, active, probe, flips>>

Set(t) ==
    /\ AtIdx(t, "set")
    /\ active' = Idx(call[t])
    /\ call' = [call EXCEPT ![t].at = IF call[t].op = "stream" THEN "more" ELSE "end"]
    /\ UNCHANGED <<up, blocked, probe, flips>>

Chunk(t) ==
    LET k == call[t]  p == Idx(k) IN
    /\ AtIdx(t, "more") /\ p \in up
    /\ call' = [call EXCEPT ![t] = IF Len(k.parts) < Chunks
                                   THEN [k EXCEPT !.parts = Append(@, p), !.heard = @ \cup {p}]
                                   ELSE [k EXCEPT !.at = "end", !.heard = @ \cup {p}]]
    /\ UNCHANGED <<up, blocked, active, probe, flips>>

Return(t) ==
    /\ AtIdx(t, "end")
    /\ call' = [call EXCEPT ![t] = Ended(call[t], "done")]
    /\ UNCHANGED <<up, blocked, active, probe, flips>>

-----------------------------------------------------------------------------
(* The probe *)

Wake ==
    /\ probe = "sleep" /\ active # 0
    /\ probe' = "ping"
    /\ UNCHANGED <<up, blocked, active, call, flips>>

(* Mutant: a primary that is down is given up.                              *)
AfterPingOnce(alive) == IF alive THEN "alive" ELSE "ended"

AfterPing(alive) == IF alive THEN "alive" ELSE "sleep"

(* A provider that refused on capacity counts as down; a command-line one   *)
(* that is installed counts as alive although its calls fail.               *)
Ping ==
    /\ probe = "ping"
    /\ \E alive \in BOOLEAN :
          /\ alive => 0 \notin blocked
          /\ ~ alive => 0 \in blocked \/ 0 \notin up
          /\ probe' = AfterPing(alive)
    /\ UNCHANGED <<up, blocked, active, call, flips>>

Promote ==
    /\ probe = "alive"
    /\ probe' = "sleep"
    /\ active' = 0
    /\ UNCHANGED <<up, blocked, call, flips>>

-----------------------------------------------------------------------------
Proceed(t) == Fail(t) \/ Answer(t) \/ Compare(t) \/ Set(t) \/ Chunk(t) \/ Return(t)
Probing == Wake \/ Ping \/ Promote

Next ==
    \/ \E p \in Providers : Flip(p)
    \/ \E p \in Providers : Expire(p)
    \/ \E t \in Callers, op \in {"ready", "chat", "stream"} : Begin(t, op)
    \/ \E t \in Callers : Proceed(t)
    \/ Probing

(* The daemon wakes every minute, a block ends, a call that was begun goes on. *)
Fairness ==
    /\ WF_vars(Probing)
    /\ WF_vars(\E p \in Providers : Expire(p))
    /\ \A t \in Callers : WF_vars(Proceed(t))

Spec == Init /\ [][Next]_vars
FairSpec == Spec /\ Fairness

-----------------------------------------------------------------------------
(* Properties *)

(* A call is given up only when every provider of the chain failed it,      *)
(* wherever it started and whatever the probe and other calls did.          *)
AllWereAsked == \A t \in Callers : call[t].op = "raised" => call[t].failed = Providers

(* The value of a call is one provider's answer and all of it, also when    *)
(* streams broke off before: chunks of a provider that failed are not in it. *)
OneProvidersAnswer ==
    \A t \in Callers : call[t].op = "done" /\ call[t].kind # "ready" =>
        /\ Cardinality(Range(call[t].parts)) = 1
        /\ Len(call[t].parts) = IF call[t].kind = "stream" THEN Chunks ELSE 1

(* A call's end is true: its value or its failure is that of the chain.     *)
ChainAnswers == AllWereAsked /\ OneProvidersAnswer

(* "Mid-stream errors propagate": who listens hears one provider only.  It  *)
(* fails: the loop catches the error and the next provider starts over.     *)
HeardFromOne == \A t \in Callers : call[t].op \in {"done", "raised"} => Cardinality(call[t].heard) <= 1

Quiet == \A t \in Callers : ~ Busy(t)

(* If the primary stays up and no call is made any more, the client goes    *)
(* back to it for good.                                                     *)
PrimaryComesBack == <>[](0 \in up /\ Quiet) => <>[](active = 0)

(* The promise of the class: if the primary comes back while another one is *)
(* active, the client is promoted back.  It fails: a call that was begun    *)
(* before the promotion sets its own provider when it ends, and the next    *)
(* call starts there.                                                       *)
PromotedForGood == <>[](0 \in up) => <>[](active = 0)
=============================================================================
