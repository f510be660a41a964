----------------------------- MODULE GraphSystem -----------------------------
(***************************************************************************)
(* The graph with its reports, the merges of its entities, which write it  *)
(* too and share no state with what GraphReports has of it (the merges are *)
(* of some of the entities and their relations), and the rows of one       *)
(* relation that several devices have under ids of their own.              *)
(***************************************************************************)
EXTENDS GraphReports

CONSTANTS
    Merged, Moving,     \* entities that may be merged, relations between them
    Decisions, None,
    MaxSteps,           \* bound: acceptances and reversals
    Devices, Units, Rank, Tick, MaxWrites   \* of Convergence

VARIABLES
    ends, redirect, proposal, lineage, steps, history,   \* EntityMerge
    base, file, writes                                   \* Convergence

Merge == INSTANCE EntityMerge WITH Entities <- Merged, Relations <- Moving

Alike == INSTANCE Convergence WITH Step <- Tick

(* A merge can be taken back, and leaves no relation at what it removed.   *)
MergesUndo == Merge!MergesUndo

(* Identities that devices chose alone become one, and nothing is left over. *)
IdentitiesMeet == Alike!IdentitiesMeet
=============================================================================
