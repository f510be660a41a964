----------------------------- MODULE EntityMerge -----------------------------
(***************************************************************************)
(* Merges of entities and their reversal (db/_entities.py).                *)
(*                                                                         *)
(* Accepting a proposal moves the ends of relations from the origin to the *)
(* survivor, redirects the origin and records every move; reversing it     *)
(* replays the record.  Neither looks at the decision's state or at other  *)
(* decisions.  One transaction is one step.                                *)
(***************************************************************************)
EXTENDS SequencesExt, FiniteSets, Naturals

CONSTANTS
    Entities,
    Relations,
    Decisions,
    None,
    MaxSteps      \* bound: acceptances and reversals

VARIABLES
    ends,         \* per relation: its two entities
    redirect,     \* per entity: the survivor of its merge, or None
    proposal,     \* per decision: what it merges and its state
    lineage,      \* per decision: the moves of its last acceptance, or None
    steps,
    history       \* acceptances that are not reversed, and the graph before each

vars == <<ends, redirect, proposal, lineage, steps, history>>

Fields == {"source", "target"}

Init ==
    /\ ends \in [Relations -> [Fields -> Entities]]
    /\ redirect = [e \in Entities |-> None]
    /\ proposal = [d \in Decisions |-> None]
    /\ lineage = [d \in Decisions |-> None]
    /\ steps = 0
    /\ history = [done |-> <<>>, tidy |-> TRUE, back |-> TRUE]

(* propose_entity_merge changes nothing in the graph. *)
Propose(d, origin, survivor) ==
    /\ proposal[d] = None /\ origin # survivor
    /\ proposal' = [proposal EXCEPT ![d] = [origin |-> origin, survivor |-> survivor, decision |-> "proposed"]]
    /\ UNCHANGED <<ends, redirect, lineage, steps, history>>

(* Mutant: one move is recorded for a relation from the origin to itself.   *)
MovesOfRelations(origin) ==
    {<<r, CHOOSE f \in Fields : ends[r][f] = origin>> : r \in {q \in Relations : \E f \in Fields : ends[q][f] = origin}}

Moves(origin) == {m \in Relations \X Fields : ends[m[1]][m[2]] = origin}

Moved(moves, e) ==
    [r \in Relations |-> [f \in Fields |-> IF <<r, f>> \in moves THEN e ELSE ends[r][f]]]

Graph == [ends |-> ends, redirect |-> redirect]

(* Mutant: a record that is there is kept.                                  *)
RecordedOnce(d, moves) == IF lineage[d] # None THEN lineage[d] ELSE moves

Recorded(d, moves) == moves

(* accept_entity_merge; again, its record is replaced. *)
AcceptMerge(d) ==
    LET p == proposal[d]  moves == Moves(p.origin) IN
    /\ p # None /\ steps < MaxSteps
    /\ ends' = Moved(moves, p.survivor)
    /\ redirect' = [redirect EXCEPT ![p.origin] = p.survivor]
    /\ lineage' = [lineage EXCEPT ![d] = Recorded(d, moves)]
    /\ proposal' = [proposal EXCEPT ![d].decision = "accepted"]
    /\ steps' = steps + 1
    /\ history' = [done |-> Append(history.done, [decision |-> d, before |-> Graph]),
                   tidy |-> history.tidy /\ p.decision # "accepted" /\ {redirect[p.origin], redirect[p.survivor]} = {None},
                   back |-> TRUE]

(* reverse_entity_merge, of any decision with a record. *)
ReverseMerge(d) ==
    LET p == proposal[d]  latest == history.done # <<>> /\ Last(history.done).decision = d
        ends1 == Moved(lineage[d], p.origin)
        redirect1 == [redirect EXCEPT ![p.origin] = None]
    IN
    /\ lineage[d] # None /\ steps < MaxSteps
    /\ ends' = ends1
    /\ redirect' = redirect1
    /\ proposal' = [proposal EXCEPT ![d].decision = "reversed"]
    /\ steps' = steps + 1
    /\ history' = IF latest
                  THEN [history EXCEPT !.done = Front(@),
                                       !.back = [ends |-> ends1, redirect |-> redirect1] = Last(history.done).before]
                  ELSE [history EXCEPT !.tidy = FALSE, !.back = TRUE]
    /\ UNCHANGED lineage

Next ==
    \/ \E d \in Decisions, origin, survivor \in Entities : Propose(d, origin, survivor)
    \/ \E d \in Decisions : AcceptMerge(d)
    \/ \E d \in Decisions : ReverseMerge(d)

Spec == Init /\ [][Next]_vars

-----------------------------------------------------------------------------
(* Properties *)

(* Merges that are undone latest first give back the graph as it was before *)
(* each, also where one merged the other's survivor away: as long as nobody *)
(* accepts a merge twice, or one with an entity that is merged away.        *)
UndoneInOrder == history.tidy => history.back

(* Then no relation ends at an entity that is merged away.                  *)
EndsAreCanonical ==
    history.tidy => \A r \in Relations, f \in Fields : redirect[ends[r][f]] = None

(* A merge can be taken back, and leaves no relation at what it removed.    *)
MergesUndo == UndoneInOrder /\ EndsAreCanonical
=============================================================================
