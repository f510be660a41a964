----------------------------- MODULE VaultSystem -----------------------------
(***************************************************************************)
(* What a vault keeps beside its knowledge: the rows of its source files   *)
(* under their spellings, the stubs of documents that stay outside, pages  *)
(* that lint repairs, and the files that the commands set up.  These share *)
(* no state.                                                               *)
(***************************************************************************)
EXTENDS Naturals, FiniteSets

CONSTANTS
    Files, Spellings, Canonical, Hashes, Readings, MaxId,          \* of SourcePaths
    Documents, Texts, Importers, Key, MaxStubs, MaxEvents, MaxImports, none, stub,   \* of References
    Others, Places, Raw, MaxFixEdits,                              \* of LintFix
    Actors, Ops, MaxSetups, MaxTyped                               \* of Provisioning

VARIABLES
    ids, pages, spans, units, gens, named, last, opened,                     \* SourcePaths
    docs, reach, zotero, stubs, row, built, import, overlapped, rebound, events, imports,  \* References
    note, others, files, registered, stage, seen, read, round, added, fixEdits,  \* LintFix
    vault, owned, shared, typed, taken, run, setups, typing                  \* Provisioning

\* Ids are numbers.
ASSUME IdsAreNumbers == MaxId \in Nat

\* Stubs are numbered.
ASSUME StubsAreNumbered == MaxStubs \in Nat

\* A Zotero key is no path, and no reference is neither.
ASSUME KeyIsNoPlace == Key \notin Documents /\ none \notin Documents \cup {Key}

\* What a stub says of itself is no text of a document.
ASSUME StubIsNoText == stub \notin Texts \cup {none} /\ none \notin Texts

\* A vault has finitely many pages.
ASSUME PagesAreFinite == IsFiniteSet(Others)

Paths == INSTANCE SourcePaths WITH Texts <- Readings, rows <- ids

Refs == INSTANCE References WITH Places <- Documents, file <- docs

Fix == INSTANCE LintFix WITH
    MaxEdits <- MaxFixEdits, page <- note, there <- others, at <- stage, edits <- fixEdits

Setup == INSTANCE Provisioning WITH
    MaxRuns <- MaxSetups, MaxEdits <- MaxTyped,
    file <- shared, lost <- taken, runs <- setups, edits <- typing

(* A merge of rows loses nothing of a file, and no row comes back twice.   *)
MergesKeep == [][Paths!Merging]_(Paths!vars)

(* A stub stands for one document and never for itself, and its source     *)
(* says when it has to be built again.                                     *)
StubsTruthful == [][Refs!Resolving]_(Refs!vars)

(* Repairs end, mend what they promise, and take no link from the user.    *)
RepairsHold == [][Fix!Repairing]_(Fix!vars)

(* A setup completes what is missing and takes nothing from the user.      *)
SetupKeeps == [][Setup!SettingUp]_(Setup!vars)
=============================================================================
