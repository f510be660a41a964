----------------------------- MODULE MCStorage ------------------------------
(***************************************************************************)
(* A vault for TLC.  The parts of VaultSystem share no variable: a         *)
(* behaviour is about one of them, and the others stay as they started.    *)
(***************************************************************************)
EXTENDS VaultSystem, TLC

VARIABLE about

paths == <<ids, pages, spans, units, gens, named, last, opened>>
refs == <<docs, reach, zotero, stubs, row, built, import, overlapped, rebound, events, imports>>
fix == <<note, others, files, registered, stage, seen, read, round, added, fixEdits>>
setup == <<vault, owned, shared, typed, taken, run, setups, typing>>

Parts == {"paths", "refs", "fix", "setup"}

OtherPages == {<<1, "A">>, <<2, "A">>, <<2, "B">>}

-----------------------------------------------------------------------------
(* Pages that lint is run on: with one link of any kind, or with two links *)
(* of which none is empty and a source that is where its row says.         *)
SmallPages ==
    /\ others \in {{<<2, "A">>}, {<<1, "A">>, <<2, "A">>}}
    /\ \/ Cardinality(note.links) = 1
       \/ /\ note.path = "s" /\ files = {"s"} /\ registered = "s"
          /\ \A l \in note.links : l.form # "blank" /\ l.to # Fix!Empty

(* A part of several initial states has no state while another one runs,   *)
(* or the first of its states.                                             *)
NoPaths ==
    /\ ids = <<>> /\ pages = {} /\ spans = {} /\ units = {} /\ gens = {}
    /\ named = {} /\ last = 0 /\ opened = FALSE

NoRefs ==
    /\ docs = [p \in Documents |-> none] /\ reach = [p \in Documents |-> "ok"] /\ zotero = none
    /\ stubs = [n \in Refs!Names |-> none] /\ row = [n \in Refs!Names |-> Refs!Absent]
    /\ built = [n \in Refs!Names |-> Refs!Unbuilt] /\ import = [i \in Importers |-> Refs!Idle]
    /\ overlapped = FALSE /\ rebound = FALSE /\ events = 0 /\ imports = 0

NoFix ==
    /\ note = none /\ others = {} /\ files = {} /\ registered = "s" /\ stage = "none" /\ seen = none
    /\ read = none /\ round = 0 /\ added = {} /\ fixEdits = 0

AllInit ==
    /\ about \in Parts
    /\ IF about = "paths" THEN Paths!Init ELSE NoPaths
    /\ IF about = "refs" THEN Refs!Init ELSE NoRefs
    /\ IF about = "fix" THEN Fix!Init /\ SmallPages ELSE NoFix
    /\ Setup!Init
    /\ about = "setup" \/ (vault["config"] = "absent" /\ shared["rule"].st = "ok")

(* Only the part that the behaviour is about may step.                     *)
Still(part) ==
    /\ about = part /\ UNCHANGED about
    /\ IF part = "paths" THEN TRUE ELSE UNCHANGED paths
    /\ IF part = "refs" THEN TRUE ELSE UNCHANGED refs
    /\ IF part = "fix" THEN TRUE ELSE UNCHANGED fix
    /\ IF part = "setup" THEN TRUE ELSE UNCHANGED setup

AllNext ==
    \/ Still("paths") /\ Paths!Next
    \/ Still("refs") /\ Refs!Next
    \/ Still("fix") /\ Fix!Next
    \/ Still("setup") /\ Setup!Next

Storage == AllInit /\ [][AllNext]_<<about, paths, refs, fix, setup>>

Symmetry == Permutations(Documents) \cup Permutations(Texts)
=============================================================================
