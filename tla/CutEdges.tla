------------------------------- MODULE CutEdges -------------------------------
(***************************************************************************)
(* The search for structural bridges in the graph of relations             *)
(* (db/_entities.py, detect_bridge_risk_relations): a depth-first walk     *)
(* with an explicit stack, one step per look at an edge and per node left. *)
(* GraphReports uses its result.  Relations are numbered in the order in   *)
(* which they were read; self-loops and retired ones are not among them.   *)
(***************************************************************************)
EXTENDS Integers, SequencesExt, FiniteSetsExt

CONSTANTS
    Nodes,        \* numbered in the order of their first mention
    MaxEdges      \* bound: relations of the graph

VARIABLES
    edges,        \* the relations: sequence of pairs
    disc, low, subsize,   \* per visited node
    stack,        \* frames: node, the edge it was entered by, next edge
    bridges

vars == <<edges, disc, low, subsize, stack, bridges>>

Pairs == {p \in Nodes \X Nodes : p[1] < p[2]}

(* What is passed to the walk: parallel relations are distinct edges. *)
Init ==
    /\ edges \in UNION {[1..n -> Pairs] : n \in 0..MaxEdges}
    /\ disc = <<>> /\ low = <<>> /\ subsize = <<>>
    /\ stack = <<>> /\ bridges = {}

Mentioned == UNION {{p[1], p[2]} : p \in ToSet(edges)}
Visited == DOMAIN disc

Edges(n) == SelectSeq([i \in DOMAIN edges |-> i], LAMBDA e : n \in {edges[e][1], edges[e][2]})
OtherEnd(e, n) == IF edges[e][1] = n THEN edges[e][2] ELSE edges[e][1]

RECURSIVE Spread(_, _)
(* Nodes that are connected to those of S without the edge e. *)
Spread(S, e) ==
    LET more == S \cup UNION {{edges[f][1], edges[f][2]} :
                                f \in {g \in DOMAIN edges \ {e} : {edges[g][1], edges[g][2]} \cap S # {}}}
    IN IF more = S THEN S ELSE Spread(more, e)

(* comp_size, by a walk of its own. *)
ComponentSize(n) == Cardinality(Spread({n}, 0))

(* A node is entered by the edge e, on top of the frames given. *)
Visit(n, e, frames) ==
    LET With(f, value) == [m \in Visited \cup {n} |-> IF m = n THEN value ELSE f[m]] IN
    /\ disc' = With(disc, Cardinality(Visited))
    /\ low' = With(low, Cardinality(Visited))
    /\ subsize' = With(subsize, 1)
    /\ stack' = Append(frames, [node |-> n, by |-> e, next |-> 1])

Root ==
    /\ stack = <<>> /\ Mentioned # Visited
    /\ Visit(Min(Mentioned \ Visited), 0, <<>>)
    /\ UNCHANGED <<edges, bridges>>

(* Mutant: a walk does not go back to the node it came from.                *)
SkipsParent(frame, e) ==
    Len(stack) > 1 /\ OtherEnd(e, frame.node) = stack[Len(stack) - 1].node

(* It does not go back over the same edge; over a parallel one it does. *)
Skips(frame, e) == e = frame.by

Look ==
    LET frame == Last(stack)
        e == Edges(frame.node)[frame.next]
        w == OtherEnd(e, frame.node)
        on == [stack EXCEPT ![Len(stack)].next = @ + 1]
    IN /\ stack # <<>> /\ frame.next <= Len(Edges(frame.node))
       /\ IF w \in Visited \/ Skips(frame, e)
          THEN /\ low' = IF Skips(frame, e) THEN low
                         ELSE [low EXCEPT ![frame.node] = Min({@, disc[w]})]
               /\ stack' = on
               /\ UNCHANGED <<disc, subsize>>
          ELSE Visit(w, e, on)
       /\ UNCHANGED <<edges, bridges>>

(* Both sides of a bridge have two nodes. *)
Dense(n) == subsize[n] >= 2 /\ ComponentSize(n) - subsize[n] >= 2

Leave ==
    LET frame == Last(stack)  rest == Front(stack)  n == frame.node  p == Last(rest).node IN
    /\ stack # <<>> /\ frame.next > Len(Edges(n))
    /\ stack' = rest
    /\ IF rest = <<>> THEN UNCHANGED <<low, subsize, bridges>>
       ELSE /\ low' = [low EXCEPT ![p] = Min({@, low[n]})]
            /\ subsize' = [subsize EXCEPT ![p] = @ + subsize[n]]
            /\ bridges' = IF low[n] > disc[p] /\ Dense(n) THEN bridges \cup {frame.by} ELSE bridges
    /\ UNCHANGED <<edges, disc>>

Next == Root \/ Look \/ Leave

Spec == Init /\ [][Next]_vars

-----------------------------------------------------------------------------
(* Properties *)

Done == stack = <<>> /\ Visited = Mentioned

(* The definition: without the edge, its ends are in two components, each   *)
(* of two nodes or more.                                                    *)
BridgeRisk ==
    {e \in DOMAIN edges :
        LET side == Spread({edges[e][1]}, e)  other == Spread({edges[e][2]}, e) IN
        side \cap other = {} /\ Cardinality(side) >= 2 /\ Cardinality(other) >= 2}

(* The walk that has seen every node has found the bridges of the           *)
(* definition, in graphs with parallel relations, cycles and several        *)
(* components too.                                                          *)
FindsBridges == Done => bridges = BridgeRisk
=============================================================================
