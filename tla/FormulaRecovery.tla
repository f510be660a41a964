--------------------------- MODULE FormulaRecovery ---------------------------
(***************************************************************************)
(* Recovery of formulas that extraction lost (pipeline/formula_recovery.py *)
(* with the validation of claims, claim_support.py).                       *)
(*                                                                         *)
(* One published knowledge unit states the formulas Claim and cites spans; *)
(* what a span's own text shows is fixed, and its page may be rendered     *)
(* anew.  A recovery proposes a formula for a span; candidates are kept in *)
(* the metadata of the span.  connect() starts no transaction before the   *)
(* first write, so a look-up and the update that follows are two steps.    *)
(* The unit and its spans stay, and their words cover those of the claim,  *)
(* so its formulas decide; which span is primary is left out.              *)
(***************************************************************************)
EXTENDS Naturals, Sequences

CONSTANTS
    Cited,       \* the spans that the unit cites, in their order
    Claim,       \* the formulas that the unit states, not all of them in Shows
    Readings,    \* what a model may read off a page, and whether it is sure
    Shows,       \* the formulas in the text of a span, by span
    Procs,
    MaxCalls,    \* recoveries and invalidations
    MaxPages     \* renderings of a page

VARIABLES
    recs,    \* source_spans.metadata.formula_recovery, by span
    link,    \* the claim_supports row of role formula, by span
    unit,    \* support_status and formula_status
    page,    \* the page hash of a span
    job,     \* what a process does
    calls,   \* recoveries and invalidations so far
    made,    \* every candidate so far, as it was written first
    calm     \* no call has overlapped another or died

CitedSpans == {Cited[i] : i \in DOMAIN Cited}

vars == <<recs, link, unit, page, job, calls, made, calm>>

Idle == [at |-> "idle"]

Init ==
    /\ recs = [s \in CitedSpans |-> {}]
    /\ link = [s \in CitedSpans |-> "none"]
    /\ unit = [support |-> "unchecked", formula |-> "uncertain"]
    /\ page = [s \in CitedSpans |-> 1]
    /\ job = [p \in Procs |-> Idle]
    /\ calls = 0 /\ made = {} /\ calm = TRUE

Goto(p, at) == job' = [job EXCEPT ![p].at = at]

Begin(p, new) ==
    /\ job[p] = Idle /\ calls < MaxCalls
    /\ calls' = calls + 1
    /\ job' = [job EXCEPT ![p] = new]
    /\ calm' = (calm /\ \A o \in Procs : job[o] = Idle)

-----------------------------------------------------------------------------
(* Validation of the unit                                                  *)

(* Mutant: any formula of the claim is enough.                             *)
AllShownAny(seen) == \E f \in Claim : f \in UNION {seen[s] \cup Shows[s] : s \in CitedSpans}

AllShown(seen) == Claim \subseteq UNION {seen[s] \cup Shows[s] : s \in CitedSpans}

(* The formula_status that validate_claim_support leaves.                  *)
FormulaStatus(seen) == IF AllShown(seen) THEN "preserved_in_text" ELSE "uncertain"

-----------------------------------------------------------------------------
(* recover_formula                                                         *)

(* Its page is the one that was rendered for the model.  sure: confidence  *)
(* enough, a validator's trace and the hydrated texts of the spans.        *)
Recover(p, s, reading) ==
    /\ unit.formula = "uncertain"
    /\ Begin(p, [at |-> "look", span |-> s, latex |-> reading[1], sure |-> reading[2],
                 page |-> page[s], call |-> calls, old |-> {}])
    /\ UNCHANGED <<recs, link, unit, page, made>>

Reviewed(j) == j.sure /\ j.latex \in Claim

Candidate(j) ==
    [id |-> j.call, latex |-> j.latex, page |-> j.page, status |-> IF Reviewed(j) THEN "reviewed" ELSE "candidate"]

Look(p) ==
    /\ job[p].at = "look"
    /\ LET j == job[p] IN
       job' = [job EXCEPT ![p] = [at |-> "write", span |-> j.span, latex |-> j.latex, sure |-> j.sure,
                                  page |-> j.page, call |-> j.call, old |-> recs[j.span]]]
    /\ UNCHANGED <<recs, link, unit, page, calls, made, calm>>

(* Mutant: a formula read anew replaces what was read before.              *)
AddedOver(old, c) == {c}

Added(old, c) == old \cup {c}

(* The list that was read, with the candidate, replaces the list.          *)
Write(p) ==
    /\ job[p].at = "write"
    /\ LET j == job[p] IN
       /\ recs' = [recs EXCEPT ![j.span] = Added(j.old, Candidate(j))]
       /\ made' = made \cup {Candidate(j)}
       /\ job' = [job EXCEPT ![p] = IF Reviewed(j)
                      THEN [at |-> "hydrate", span |-> j.span, left |-> Cited, seen |-> [s \in CitedSpans |-> {}]]
                      ELSE [at |-> "unsure"]]
    /\ UNCHANGED <<link, unit, page, calls, calm>>

(* Mutant: what only waits for a review counts as well.                    *)
EvidenceUnreviewed(s) == {c.latex : c \in {r \in recs[s] : r.status # "rejected"}}

Evidence(s) == {c.latex : c \in {r \in recs[s] : r.status = "reviewed"}}

(* The evidence recovered for every cited span, one look-up each.          *)
Hydrate(p) ==
    /\ job[p].at = "hydrate"
    /\ LET j == job[p]  s == Head(j.left) IN
       job' = [job EXCEPT ![p] = [at |-> IF Len(j.left) = 1 THEN "judge" ELSE "hydrate", span |-> j.span,
                                  left |-> Tail(j.left), seen |-> [j.seen EXCEPT ![s] = Evidence(s)]]]
    /\ UNCHANGED <<recs, link, unit, page, calls, made, calm>>

Judge(p) ==
    /\ job[p].at = "judge"
    /\ unit' = IF AllShown(job[p].seen) THEN [unit EXCEPT !.support = "verified"] ELSE unit
    /\ Goto(p, "status")
    /\ UNCHANGED <<recs, link, page, calls, made, calm>>

SetStatus(p) ==
    /\ job[p].at = "status"
    /\ unit' = [unit EXCEPT !.formula = FormulaStatus(job[p].seen)]
    /\ Goto(p, IF AllShown(job[p].seen) THEN "link" ELSE "unsure")
    /\ UNCHANGED <<recs, link, page, calls, made, calm>>

(* Mutant: the status comes first, and the row that it promises later.     *)
SupportLate(p) ==
    /\ job[p].at = "link"
    /\ Goto(p, "linked")
    /\ UNCHANGED <<recs, link, unit, page, calls, made, calm>>

Support(p) ==
    /\ job[p].at = "link"
    /\ link' = [link EXCEPT ![job[p].span] = "verified"]
    /\ Goto(p, "linked")
    /\ UNCHANGED <<recs, unit, page, calls, made, calm>>

(* The last write of a call.                                               *)
Conclude(p, at, formula) ==
    /\ job[p].at = at
    /\ unit' = [unit EXCEPT !.formula = formula]
    /\ job' = [job EXCEPT ![p] = Idle]
    /\ UNCHANGED <<recs, link, page, calls, made, calm>>

-----------------------------------------------------------------------------
(* invalidate_formula_recoveries                                           *)

Rerender(s) ==
    /\ page[s] < MaxPages
    /\ page' = [page EXCEPT ![s] = @ + 1]
    /\ UNCHANGED <<recs, link, unit, job, calls, made, calm>>

Invalidate(p, s) ==
    /\ Begin(p, [at |-> "reject", span |-> s, page |-> page[s], old |-> recs[s]])
    /\ UNCHANGED <<recs, link, unit, page, made>>

Outdated(j) == {c \in j.old : c.status # "rejected" /\ c.page # j.page}

Rejected(j) == (j.old \ Outdated(j)) \cup {[c EXCEPT !.status = "rejected"] : c \in Outdated(j)}

(* The unit goes only if this span has evidence for it, of any status.     *)
Hits(j) == link[j.span] # "none" /\ \E c \in Outdated(j) : c.status = "reviewed"

Reject(p) ==
    /\ job[p].at = "reject"
    /\ LET j == job[p] IN
       /\ recs' = IF Outdated(j) = {} THEN recs ELSE [recs EXCEPT ![j.span] = Rejected(j)]
       /\ job' = [job EXCEPT ![p] = IF Hits(j) THEN [at |-> "stale", span |-> j.span] ELSE Idle]
    /\ UNCHANGED <<link, unit, page, calls, made, calm>>

(* Mutant: the row is forgotten.                                           *)
StaleUnsaid(p) ==
    /\ job[p].at = "stale"
    /\ Goto(p, "withdraw")
    /\ UNCHANGED <<recs, link, unit, page, calls, made, calm>>

Stale(p) ==
    /\ job[p].at = "stale"
    /\ link' = [link EXCEPT ![job[p].span] = "stale"]
    /\ Goto(p, "withdraw")
    /\ UNCHANGED <<recs, unit, page, calls, made, calm>>

Withdraw(p) ==
    /\ job[p].at = "withdraw"
    /\ unit' = [unit EXCEPT !.support = "stale"]
    /\ Goto(p, "unsure")
    /\ UNCHANGED <<recs, link, page, calls, made, calm>>

-----------------------------------------------------------------------------
Die(p) ==
    /\ job[p] # Idle
    /\ job' = [job EXCEPT ![p] = Idle]
    /\ calm' = FALSE
    /\ UNCHANGED <<recs, link, unit, page, calls, made>>

Next ==
    \/ \E s \in CitedSpans : Rerender(s)
    \/ \E p \in Procs :
          \/ \E s \in CitedSpans : Invalidate(p, s)
          \/ \E s \in CitedSpans, reading \in Readings : Recover(p, s, reading)
          \/ Look(p) \/ Write(p) \/ Hydrate(p) \/ Judge(p) \/ SetStatus(p) \/ Support(p)
          \/ Conclude(p, "unsure", "uncertain") \/ Conclude(p, "linked", "linked_evidence")
          \/ Reject(p) \/ Stale(p) \/ Withdraw(p)
          \/ Die(p)

Spec == Init /\ [][Next]_vars

-----------------------------------------------------------------------------
Quiet == \A p \in Procs : job[p] = Idle

(* Parseable LaTeX alone verifies nothing (SYSTEM_BEHAVIOR.md:3024): a unit *)
(* is verified only if every formula it states is in the text of a span or *)
(* was in a candidate that passed its review, whatever overlaps or dies.   *)
VerifiedWasShown ==
    unit.support = "verified" =>
        Claim \subseteq {c.latex : c \in {r \in made : r.status = "reviewed"}} \cup UNION {Shows[s] : s \in CitedSpans}

(* While calls neither overlap nor die: a unit that refers to evidence has *)
(* a row that says so, or the compiler's audit blocks every publish        *)
(* (formula_inconsistencies); such a row is of a reviewed candidate of its *)
(* span; and recovery is additive, no candidate is lost (SCHEMA 20.4).     *)
LinksHaveRows == calm /\ Quiet /\ unit.formula = "linked_evidence" => \E s \in CitedSpans : link[s] = "verified"
RowsHaveCandidates == calm /\ Quiet => \A s \in CitedSpans : link[s] = "verified" => Evidence(s) # {}
NoneLostEver == \A c \in made : \E s \in CitedSpans : \E r \in recs[s] : r.id = c.id
NoneLost == calm => NoneLostEver

FormulasFounded == VerifiedWasShown /\ LinksHaveRows /\ RowsHaveCandidates /\ NoneLost

(* What fails.  NoneLostEver: "Read-modify-write metadata in a single      *)
(* transaction to prevent TOCTOU" (formula_recovery.py:158), but the       *)
(* look-up is in none, and of two recoveries of a span one is lost.        *)

(* "stale served evidence" (formula_recovery.py:238): a formula that alone *)
(* did not suffice has no row, and when its page changes the unit, which   *)
(* another formula has completed, is served on without it.                 *)
ServedIsCurrent == calm /\ Quiet /\ unit.support = "verified" => AllShown([s \in CitedSpans |-> Evidence(s)])

(* A unit that a cut-short invalidation leaves blocks every publish.       *)
LinksHaveRowsEver == Quiet /\ unit.formula = "linked_evidence" => \E s \in CitedSpans : link[s] = "verified"
=============================================================================
