------------------------------ MODULE CacheSweep ------------------------------
(***************************************************************************)
(* gc.py's removal of a dead vault's cache: a namespace of the machine's   *)
(* cache whose vault was temporary and has gone.  It is inspected for the  *)
(* plan, and again after the user has confirmed; between the observations  *)
(* of an inspection a process of that vault may still write.               *)
(***************************************************************************)
EXTENDS Naturals

CONSTANTS MaxChanges   \* bound on what the producer does

VARIABLES
    there,     \* the namespace is on disk
    vault,     \* so is the directory its vault_root names
    database,  \* rows in state.sqlite
    journal,   \* rows in its write-ahead log, or NoJournal
    stamp,     \* changes with every change of the names and files
    look,      \* the observations of the inspection under way
    shown,     \* the identity the user was shown, or 0
    at,        \* where the command is
    since,     \* something was written since the last look at the files
    lost,      \* rows deleted that were there at the last look
    other      \* a namespace was deleted that is not the one shown

vars == <<there, vault, database, journal, stamp, look, shown, at, since, lost, other>>

NoJournal == 99
Nothing == [stamp |-> 0, empty |-> FALSE]

Init ==
    /\ there = TRUE /\ vault \in BOOLEAN
    /\ database \in 0..1 /\ journal = NoJournal
    /\ stamp = 1
    /\ look = Nothing /\ shown = 0 /\ at = "files"
    /\ since = FALSE /\ lost = FALSE /\ other = FALSE

-----------------------------------------------------------------------------
(* A process of the vault: it opens the database, commits into the log, and *)
(* closes it, which copies the log into the database and removes it; the    *)
(* vault appears and disappears.                                            *)
Written == stamp < MaxChanges /\ stamp' = stamp + 1 /\ since' = TRUE

Open ==
    /\ there /\ journal = NoJournal /\ Written /\ journal' = 0
    /\ UNCHANGED <<there, vault, database, look, shown, at, lost, other>>

Commit ==
    /\ there /\ journal = 0 /\ Written /\ journal' = 1
    /\ UNCHANGED <<there, vault, database, look, shown, at, lost, other>>

Close ==
    /\ there /\ journal # NoJournal /\ Written
    /\ database' = IF journal = 1 THEN 1 ELSE database
    /\ journal' = NoJournal
    /\ UNCHANGED <<there, vault, look, shown, at, lost, other>>

(* An empty cache of the same name instead of this one.                     *)
Recreate ==
    /\ Written /\ there' = TRUE /\ database' = 0 /\ journal' = NoJournal
    /\ UNCHANGED <<vault, look, shown, at, lost, other>>

Appear ==
    /\ stamp < MaxChanges /\ stamp' = stamp + 1
    /\ vault' = ~vault
    /\ UNCHANGED <<there, database, journal, look, shown, at, since, lost, other>>

-----------------------------------------------------------------------------
(* _cache_files: only a directory with nothing but the two files it knows;  *)
(* a log next to the database is not one of them.                           *)
Recognized == there /\ journal = NoJournal

Refuse == at' = "end"

Files ==
    /\ at = "files"
    /\ IF Recognized THEN at' = "root" /\ look' = [Nothing EXCEPT !.stamp = stamp] ELSE Refuse /\ UNCHANGED look
    /\ since' = FALSE
    /\ UNCHANGED <<there, vault, database, journal, stamp, shown, lost, other>>

Root ==
    /\ at = "root"
    /\ IF vault \/ ~there THEN Refuse ELSE at' = "copy"
    /\ UNCHANGED <<there, vault, database, journal, stamp, look, shown, since, lost, other>>

(* The database is copied, without its log, and the copy has no row in any  *)
(* table.                                                                   *)
Copy ==
    /\ at = "copy"
    /\ IF there /\ database = 0 THEN at' = "again" /\ look' = [look EXCEPT !.empty = TRUE] ELSE Refuse /\ UNCHANGED look
    /\ UNCHANGED <<there, vault, database, journal, stamp, shown, since, lost, other>>

(* Mutant: names and sizes say enough.                                      *)
UnchangedBySize == Recognized

(* A copy is evidence only if its original stayed what it was.              *)
Unaltered == Recognized /\ look.stamp = stamp

Again ==
    /\ at = "again"
    /\ IF Unaltered THEN at' = "rooted" ELSE Refuse
    /\ since' = FALSE
    /\ UNCHANGED <<there, vault, database, journal, stamp, look, shown, lost, other>>

(* Mutant: what was inspected last is deleted, whatever was shown.          *)
SameAlways == TRUE

(* sweep deletes what the user was shown.                                   *)
Same == look.stamp = shown

(* The end of an inspection: the plan shows it; the sweep, after the user   *)
(* has confirmed and it has looked again, deletes it.                       *)
Rooted ==
    /\ at = "rooted"
    /\ IF vault \/ ~there THEN Refuse /\ UNCHANGED shown
       ELSE IF shown = 0 THEN shown' = look.stamp /\ at' = "files"
       ELSE UNCHANGED shown /\ at' = IF Same THEN "delete" ELSE "end"
    /\ UNCHANGED <<there, vault, database, journal, stamp, look, since, lost, other>>

Delete ==
    /\ at = "delete" /\ there
    /\ there' = FALSE /\ at' = "end"
    /\ lost' = ((database # 0 \/ journal \notin {0, NoJournal}) /\ ~since)
    /\ other' = (look.stamp # shown)
    /\ UNCHANGED <<vault, database, journal, stamp, look, shown, since>>

Next == Open \/ Commit \/ Close \/ Recreate \/ Appear \/ Files \/ Root \/ Copy \/ Again \/ Rooted \/ Delete

Spec == Init /\ [][Next]_vars

-----------------------------------------------------------------------------
(* The removal deletes no row that was there when the files were last       *)
(* looked at, although the database and its log are inspected in steps and  *)
(* through a copy; what is written after that look may be lost, as sweep's  *)
(* docstring says.                                                          *)
LosesOnlyLateRows == ~lost

(* What is deleted is what the user was shown and nothing else of that name.*)
DeletesWhatWasShown == ~other

(* A sweep deletes what it showed, and no row that it could have seen.      *)
SweepsWhatItShowed == LosesOnlyLateRows /\ DeletesWhatWasShown
=============================================================================
