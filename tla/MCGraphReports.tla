---------------------------- MODULE MCGraphReports ----------------------------
(*****************************************************************************)
(* GraphSystem for TLC: a path of three relations, whose middle one holds    *)
(* the two outer ones together, and a denial of the first.  A behaviour is   *)
(* about it, about the search for cut edges, about merges of entities or     *)
(* about the rows of two devices; these share no variable with it.           *)
(*****************************************************************************)
EXTENDS GraphSystem, TLC

CONSTANTS a, b, c, d, ab, bc, cd, ba, s1, s2, d1, d2, u1, u2

VARIABLES
    about,
    edges, disc, low, subsize, stack, bridges     \* CutEdges

MCFrom == ab :> a @@ bc :> b @@ cd :> c @@ ba :> b
MCTo == ab :> b @@ bc :> c @@ cd :> d @@ ba :> a
MCTexts == {{ab, bc, cd}, {ab, ba}}
Symmetry == Permutations(Sources)

(* The second device writes in the second half of a moment.                  *)
MCRank == d1 :> 0 @@ d2 :> 8

Cut == INSTANCE CutEdges WITH Nodes <- 1..4, MaxEdges <- 5

cut == <<edges, disc, low, subsize, stack, bridges>>
merge == <<ends, redirect, proposal, lineage, steps, history>>
alike == <<base, file, writes>>

GraphInit ==
    /\ about \in {"reports", "bridges", "merges", "devices"}
    /\ IF about = "bridges" THEN TRUE ELSE edges = <<>>
    /\ IF about = "merges" THEN TRUE ELSE ends = [r \in Moving |-> [f \in {"source", "target"} |-> a]]
    /\ Init /\ Cut!Init /\ Merge!Init /\ Alike!Init

GraphNext ==
    \/ about = "reports" /\ SerialNext /\ UNCHANGED <<about, cut, merge, alike>>
    \/ about = "bridges" /\ Cut!Next /\ UNCHANGED <<about, vars, merge, alike>>
    \/ about = "merges" /\ Merge!Next /\ UNCHANGED <<about, vars, cut, alike>>
    \/ about = "devices" /\ Alike!Next /\ UNCHANGED <<about, vars, cut, merge>>

Graph == GraphInit /\ [][GraphNext]_<<about, vars, cut, merge, alike>>

(* The property of CutEdges, under its name.                                 *)
FindsBridges == Cut!FindsBridges
=============================================================================
