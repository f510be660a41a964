------------------------------ MODULE Revisions ------------------------------
(* Revisions of rows, and tables as functions from keys to rows that carry one. *)
EXTENDS Naturals, FiniteSetsExt, Functions

Newest(S) == Max(S \cup {0})

(* strict_successor_timestamp: now, or just after the newest of the revisions. *)
Successor(now, revisions) == IF Newest(revisions) < now THEN now ELSE Newest(revisions) + 1

(* The rows of f, over those of g. *)
Over(f, g) == [x \in DOMAIN f \cup DOMAIN g |-> IF x \in DOMAIN f THEN f[x] ELSE g[x]]
Without(f, S) == Restrict(f, DOMAIN f \ S)

(* _lw_upsert: a row that is not here, or that is newer than the one here. *)
Taken(mine, theirs) == {x \in DOMAIN theirs : x \in DOMAIN mine => theirs[x].rev > mine[x].rev}
Newer(mine, theirs) == Over(Restrict(theirs, Taken(mine, theirs)), mine)
=============================================================================
