------------------------------- MODULE DbSync -------------------------------
(***************************************************************************)
(* Synchronization of the state databases of several devices through       *)
(* snapshot files (db_sync.py): every device exports all rows and          *)
(* tombstones it holds to one file of its own, a file synchronizer copies  *)
(* the files to the other devices, and each device merges its peers' files *)
(* row by row, the newer revision winning.                                 *)
(*                                                                         *)
(* A row is a `sources` row, known by its revision (updated_at); revisions *)
(* and wall clocks are numbers, and the clocks of two devices need not     *)
(* agree.  A process exports after a job (maybe_auto_export) or runs an    *)
(* autosync pass; every transaction and every file operation is a step.    *)
(*                                                                         *)
(* An export_id is a fresh uuid, and code only compares it with the id of  *)
(* the peer's file at hand: what matters is for which peers the remembered *)
(* id is that of the copy this device has.                                 *)
(***************************************************************************)
EXTENDS Naturals, FiniteSets

CONSTANTS
    Devices,
    Keys,        \* sync keys of sources
    Procs,       \* backend processes that import and export
    Home,        \* the device of a process
    Initial,     \* sets of keys that may have been synchronized before
    Second,      \* precision of last_export_ts, in units of a revision
    Start,       \* where the wall clocks start
    MaxTime,     \* bound: the wall clocks
    MaxWrites,   \* bound: local inserts, updates and deletes
    MaxCuts,     \* bound: passes that raise or die
    MaxBusy      \* bound: processes in a pass or an export at a time

ASSUME ConstantsAssumption ==
    /\ IsFiniteSet(Devices) /\ IsFiniteSet(Keys)
    /\ Home \in [Procs -> Devices] /\ Initial \subseteq SUBSET Keys
    /\ Second \in Nat \ {0} /\ Start \in Nat /\ MaxTime \in Nat
    /\ Second <= Start /\ Start <= MaxTime
    /\ MaxWrites \in Nat /\ MaxCuts \in Nat /\ MaxBusy \in Nat

VARIABLES
    db,          \* per device and key: the row's revision and the tombstone's, 0 if none
    clock,       \* wall clocks
    file,        \* the snapshot a device published
    delivered,   \* the devices whose copy of it is this one
    copy,        \* what a device has of each peer's file
    seen,        \* sync state: peers whose last_export_id is that of the copy
    exported,    \* sync state: last_export_ts
    pc,          \* where each process is
    todo,        \* peers the pass has yet to look at
    peeked,      \* the peer whose header it read last, if any
    fresh,       \* peers whose export_id it read, and that is still the copy's
    changed,     \* the pass changed a row
    stamp,       \* snapshot_ts of the export under way
    snap,        \* what it has read of the database
    writes, cuts,
    own,         \* history: the keys whose entry the device wrote itself
    severed      \* history: a pass of the device was cut short since its last export

local    == <<db, clock, writes, own>>
state    == <<seen, exported>>
transit  == <<file, delivered, copy>>
scan     == <<todo, peeked, fresh, changed>>
exporting == <<stamp, snap>>
ghosts   == <<cuts, severed>>
vars == <<db, clock, writes, own, seen, exported, file, delivered, copy, pc,
          todo, peeked, fresh, changed, stamp, snap, cuts, severed>>

Absent  == [row |-> 0, tomb |-> 0]
Row(revision)       == [row |-> revision, tomb |-> 0]
Tombstone(revision) == [row |-> 0, tomb |-> revision]
Nothing == [k \in Keys |-> Absent]
Never   == 0

Later(a, b) == IF a >= b THEN a ELSE b
Version(e)  == Later(e.row, e.tomb)
Floor(t)    == t - (t % Second)

(* Some rows were synchronized before, maybe none. *)
Init ==
    /\ \E S \in Initial :
          LET before == [k \in Keys |-> IF k \in S THEN Row(Second) ELSE Absent] IN
          /\ db = [d \in Devices |-> before]
          /\ file = [d \in Devices |-> before]
          /\ copy = [d \in Devices |-> [e \in Devices |-> before]]
          /\ exported = [d \in Devices |-> IF S = {} THEN Never ELSE Second]
    /\ clock = [d \in Devices |-> Start]
    /\ delivered = [d \in Devices |-> Devices]
    /\ seen = [d \in Devices |-> Devices]
    /\ pc = [p \in Procs |-> "idle"]
    /\ todo = [p \in Procs |-> {}]
    /\ peeked = [p \in Procs |-> {}]
    /\ fresh = [p \in Procs |-> {}]
    /\ changed = [p \in Procs |-> FALSE]
    /\ stamp = [p \in Procs |-> Never]
    /\ snap = [p \in Procs |-> Nothing]
    /\ writes = 0 /\ cuts = 0
    /\ own = [d \in Devices |-> {}]
    /\ severed = [d \in Devices |-> FALSE]

Goto(p, label) == pc' = [pc EXCEPT ![p] = label]

-----------------------------------------------------------------------------
(* The world: clocks advance, files travel *)

Tick(d) ==
    /\ clock[d] < MaxTime
    /\ clock' = [clock EXCEPT ![d] = @ + 1]
    /\ UNCHANGED <<db, writes, own, state, transit, pc, scan, exporting, ghosts>>

(* The synchronizer replaces a device's copy by the file as it is now: the  *)
(* ids that were read of the old copy are not the copy's any more.          *)
Deliver(d, e) ==
    /\ d \notin delivered[e]
    /\ delivered' = [delivered EXCEPT ![e] = @ \cup {d}]
    /\ copy' = [copy EXCEPT ![d][e] = file[e]]
    /\ seen' = [seen EXCEPT ![d] = @ \ {e}]
    /\ fresh' = [p \in Procs |-> IF Home[p] = d THEN fresh[p] \ {e} ELSE fresh[p]]
    /\ UNCHANGED <<local, file, exported, pc, todo, peeked, changed, exporting, ghosts>>

-----------------------------------------------------------------------------
(* Local writers *)

Write(d, k, entry) ==
    /\ writes < MaxWrites
    /\ writes' = writes + 1
    /\ db' = [db EXCEPT ![d][k] = entry]
    /\ own' = [own EXCEPT ![d] = @ \cup {k}]
    /\ UNCHANGED <<clock, state, transit, pc, scan, exporting, ghosts>>

(* Mutant: a row is inserted beside the tombstone of its key.               *)
AddOverTombstone(d, k) ==
    /\ db[d][k].row = 0
    /\ Write(d, k, [db[d][k] EXCEPT !.row = clock[d]])

(* add_source: the row is stamped now, or after the tombstone it clears. *)
Add(d, k) ==
    /\ db[d][k].row = 0
    /\ Write(d, k, Row(IF db[d][k].tomb >= clock[d] THEN db[d][k].tomb + 1 ELSE clock[d]))

(* Mutant: an update is stamped now.                                        *)
UpdateNow(d, k) ==
    /\ db[d][k].row # 0
    /\ Write(d, k, Row(clock[d]))

(* sources_touch_updated_at: now, or just after the old revision. *)
Update(d, k) ==
    /\ db[d][k].row # 0
    /\ Write(d, k, Row(Later(clock[d], db[d][k].row + 1)))

(* delete_source: the tombstone is a strict successor. *)
Delete(d, k) ==
    /\ db[d][k].row # 0
    /\ Write(d, k, Tombstone(Later(clock[d], db[d][k].row) + 1))

-----------------------------------------------------------------------------
(* Importing: one autosync pass over the peers' files *)

CanStart(p) ==
    /\ pc[p] = "idle"
    /\ Cardinality({q \in Procs : pc[q] # "idle"}) < MaxBusy

(* An import holds the lock of the device's sync state from end to end. *)
Locked(d) == \E p \in Procs : Home[p] = d /\ pc[p] \in {"scanning", "peeked"}

(* Mutant: the pass does not leave out the device's own file.               *)
StartPassOverAll(p) ==
    /\ CanStart(p)
    /\ ~Locked(Home[p])
    /\ todo' = [todo EXCEPT ![p] = Devices]
    /\ Goto(p, "scanning")
    /\ UNCHANGED <<local, transit, state, peeked, fresh, changed, exporting, ghosts>>

StartPass(p) ==
    /\ CanStart(p)
    /\ ~Locked(Home[p])
    /\ todo' = [todo EXCEPT ![p] = Devices \ {Home[p]}]
    /\ Goto(p, "scanning")
    /\ UNCHANGED <<local, transit, state, peeked, fresh, changed, exporting, ghosts>>

(* Mutant: the checkpoint of a file is written before its import.           *)
PeekAndCheckpoint(p, e) ==
    /\ pc[p] = "scanning" /\ e \in todo[p]
    /\ todo' = [todo EXCEPT ![p] = @ \ {e}]
    /\ seen' = [seen EXCEPT ![Home[p]] = @ \cup {e}]
    /\ IF e \in seen[Home[p]]
       THEN UNCHANGED <<pc, peeked>>
       ELSE Goto(p, "peeked") /\ peeked' = [peeked EXCEPT ![p] = {e}]
    /\ UNCHANGED <<local, transit, exported, fresh, changed, exporting, ghosts>>

(* The header is read on its own; a file seen before is skipped. *)
Peek(p, e) ==
    /\ pc[p] = "scanning" /\ e \in todo[p]
    /\ todo' = [todo EXCEPT ![p] = @ \ {e}]
    /\ IF e \in seen[Home[p]]
       THEN UNCHANGED <<pc, peeked, fresh>>
       ELSE /\ Goto(p, "peeked")
            /\ peeked' = [peeked EXCEPT ![p] = {e}]
            /\ fresh' = [fresh EXCEPT ![p] = @ \cup {e}]
    /\ UNCHANGED <<local, transit, state, changed, exporting, ghosts>>

(* Mutant: an incoming delete needs to be newer than the row, not as new.   *)
MergeTombStrictly(e, deleted_at) ==
    IF e.tomb >= deleted_at \/ e.row >= deleted_at THEN e ELSE Tombstone(deleted_at)

(* _apply_tombstone *)
MergeTomb(e, deleted_at) ==
    IF e.tomb >= deleted_at \/ e.row > deleted_at THEN e ELSE Tombstone(deleted_at)

(* _row_is_blocked_by_tombstone, _lw_upsert_source *)
MergeRow(e, revision) ==
    IF e.tomb >= revision THEN e ELSE Row(Later(e.row, revision))

(* import_knowledge: one transaction, the deletions first. *)
Merge(mine, theirs) ==
    [k \in Keys |-> MergeRow(MergeTomb(mine[k], theirs[k].tomb), theirs[k].row)]

ImportFile(p) ==
    /\ pc[p] = "peeked"
    /\ LET d == Home[p] IN \E e \in peeked[p] :
          LET merged == Merge(db[d], copy[d][e]) IN
          /\ db' = [db EXCEPT ![d] = merged]
          /\ changed' = [changed EXCEPT ![p] = @ \/ merged # db[d]]
          /\ own' = [own EXCEPT ![d] = {k \in @ : merged[k] = db[d][k]}]
    /\ peeked' = [peeked EXCEPT ![p] = {}]
    /\ Goto(p, "scanning")
    /\ UNCHANGED <<clock, writes, transit, state, todo, fresh, exporting, ghosts>>

(* The checkpoints are written and the lock is released. *)
EndPass(p) ==
    /\ pc[p] = "scanning" /\ todo[p] = {}
    /\ seen' = [seen EXCEPT ![Home[p]] = @ \cup fresh[p]]
    /\ fresh' = [fresh EXCEPT ![p] = {}]
    /\ Goto(p, "gate")
    /\ UNCHANGED <<local, transit, exported, todo, peeked, changed, exporting, ghosts>>

-----------------------------------------------------------------------------
(* Exporting *)

(* Mutant: the gate compares strictly.                                      *)
HasNewer(d) ==
    exported[d] = Never \/ \E k \in Keys : Version(db[d][k]) > exported[d]

(* local_has_unexported_changes *)
HasUnexported(d) ==
    exported[d] = Never \/ \E k \in Keys : Version(db[d][k]) >= exported[d]

(* Mutant: autosync exports on the gate alone.                              *)
DecideByGate(p) ==
    /\ pc[p] = "gate"
    /\ Goto(p, IF HasUnexported(Home[p]) THEN "stamping" ELSE "idle")
    /\ changed' = [changed EXCEPT ![p] = FALSE]
    /\ UNCHANGED <<local, transit, state, todo, peeked, fresh, exporting, ghosts>>

(* The end of autosync: export what the pass changed, or what the gate sees. *)
Decide(p) ==
    /\ pc[p] = "gate"
    /\ Goto(p, IF changed[p] \/ HasUnexported(Home[p]) THEN "stamping" ELSE "idle")
    /\ changed' = [changed EXCEPT ![p] = FALSE]
    /\ UNCHANGED <<local, transit, state, todo, peeked, fresh, exporting, ghosts>>

(* maybe_auto_export: the gate alone, after a job or a command. *)
StartExport(p) ==
    /\ CanStart(p)
    /\ HasUnexported(Home[p])
    /\ Goto(p, "stamping")
    /\ UNCHANGED <<local, transit, state, scan, exporting, ghosts>>

(* snapshot_ts is taken, then the tables are read: one SELECT per table and *)
(* no transaction around them, deletions first.                             *)
ReadTombstones(p) ==
    /\ pc[p] = "stamping"
    /\ stamp' = [stamp EXCEPT ![p] = Floor(clock[Home[p]])]
    /\ snap' = [snap EXCEPT ![p] = [k \in Keys |-> Tombstone(db[Home[p]][k].tomb)]]
    /\ Goto(p, "reading")
    /\ UNCHANGED <<local, transit, state, scan, ghosts>>

ReadRows(p) ==
    /\ pc[p] = "reading"
    /\ snap' = [snap EXCEPT ![p] = [k \in Keys |-> [@[k] EXCEPT !.row = db[Home[p]][k].row]]]
    /\ Goto(p, "replacing")
    /\ UNCHANGED <<local, transit, state, scan, stamp, ghosts>>

ReplaceFile(p) ==
    /\ pc[p] = "replacing"
    /\ file' = [file EXCEPT ![Home[p]] = snap[p]]
    /\ delivered' = [delivered EXCEPT ![Home[p]] = {Home[p]}]
    /\ snap' = [snap EXCEPT ![p] = Nothing]
    /\ Goto(p, "recording")
    /\ UNCHANGED <<local, copy, state, scan, stamp, ghosts>>

(* Mutant: the export is stamped when it is over.                           *)
RecordNow(p) ==
    /\ pc[p] = "recording"
    /\ ~Locked(Home[p])
    /\ exported' = [exported EXCEPT ![Home[p]] = Floor(clock[Home[p]])]
    /\ stamp' = [stamp EXCEPT ![p] = Never]
    /\ severed' = [severed EXCEPT ![Home[p]] = FALSE]
    /\ Goto(p, "idle")
    /\ UNCHANGED <<local, transit, seen, scan, snap, cuts>>

Record(p) ==
    /\ pc[p] = "recording"
    /\ ~Locked(Home[p])
    /\ exported' = [exported EXCEPT ![Home[p]] = stamp[p]]
    /\ stamp' = [stamp EXCEPT ![p] = Never]
    /\ severed' = [severed EXCEPT ![Home[p]] = FALSE]
    /\ Goto(p, "idle")
    /\ UNCHANGED <<local, transit, seen, scan, snap, cuts>>

(* The process dies, or the pass raises (a peer's file cannot be read); the *)
(* sync state is left as it was.                                            *)
CutShort(p) ==
    /\ pc[p] # "idle"
    /\ cuts < MaxCuts
    /\ cuts' = cuts + 1
    /\ severed' = [severed EXCEPT ![Home[p]] = TRUE]
    /\ todo' = [todo EXCEPT ![p] = {}]
    /\ peeked' = [peeked EXCEPT ![p] = {}]
    /\ fresh' = [fresh EXCEPT ![p] = {}]
    /\ changed' = [changed EXCEPT ![p] = FALSE]
    /\ stamp' = [stamp EXCEPT ![p] = Never]
    /\ snap' = [snap EXCEPT ![p] = Nothing]
    /\ Goto(p, "idle")
    /\ UNCHANGED <<local, transit, state>>

-----------------------------------------------------------------------------
LocalWrite == \E d \in Devices, k \in Keys : Add(d, k) \/ Update(d, k) \/ Delete(d, k)

Step(p) ==
    \/ (\E e \in Devices : Peek(p, e)) \/ ImportFile(p) \/ EndPass(p) \/ Decide(p)
    \/ ReadTombstones(p) \/ ReadRows(p) \/ ReplaceFile(p) \/ Record(p)

Next ==
    \/ LocalWrite
    \/ \E d \in Devices : Tick(d) \/ \E e \in Devices : Deliver(d, e)
    \/ \E p \in Procs : StartPass(p) \/ StartExport(p) \/ Step(p) \/ CutShort(p)

Spec == Init /\ [][Next]_vars

(* The plugin starts a pass every minute, whatever exports run in between;  *)
(* a pass that was started goes on; the synchronizer delivers.              *)
Fairness ==
    /\ \A p \in Procs : SF_vars(StartPass(p)) /\ WF_vars(Step(p))
    /\ \A d, e \in Devices : WF_vars(Deliver(d, e))

FairSpec == Spec /\ Fairness

-----------------------------------------------------------------------------
(* Properties *)

Labels == {"idle", "scanning", "peeked", "gate", "stamping", "reading",
           "replacing", "recording"}

Entries == [Keys -> [row : Nat, tomb : Nat]]

(* The shape of the state; a pass never looks at its own device's file      *)
(* ("a device never imports its own file", SYSTEM_BEHAVIOR 13.1).           *)
TypeOK ==
    /\ db \in [Devices -> Entries]
    /\ clock \in [Devices -> Start .. MaxTime]
    /\ file \in [Devices -> Entries]
    /\ delivered \in [Devices -> SUBSET Devices]
    /\ copy \in [Devices -> [Devices -> Entries]]
    /\ seen \in [Devices -> SUBSET Devices]
    /\ exported \in [Devices -> Nat]
    /\ pc \in [Procs -> Labels]
    /\ todo \in [Procs -> SUBSET Devices]
    /\ peeked \in [Procs -> SUBSET Devices]
    /\ fresh \in [Procs -> SUBSET Devices]
    /\ \A p \in Procs : Home[p] \notin todo[p] \cup peeked[p] \cup fresh[p]
    /\ changed \in [Procs -> BOOLEAN]
    /\ stamp \in [Procs -> Nat]
    /\ snap \in [Procs -> Entries]
    /\ writes \in 0 .. MaxWrites /\ cuts \in 0 .. MaxCuts
    /\ own \in [Devices -> SUBSET Keys]
    /\ severed \in [Devices -> BOOLEAN]

(* A key has a row or a tombstone, not both: every writer and the import    *)
(* keep sources and deleted_records apart.                                  *)
RowOrTombstone ==
    \A d \in Devices, k \in Keys : db[d][k].row = 0 \/ db[d][k].tomb = 0

(* What may replace an entry: a newer version, or the deletion of the row   *)
(* it is as new as ("a delete wins when its deleted_at is newer than or     *)
(* equal to the competing edit", SYSTEM_BEHAVIOR 13.1).                     *)
Supersedes(new, old) ==
    \/ Version(new) > Version(old)
    \/ Version(new) = Version(old) /\ old.row # 0 /\ new.row = 0

(* No write, however far behind the clock, and no import, however old or    *)
(* often delivered the file, takes an entry back: a row is never undone by  *)
(* an older one, and a deletion never by a row it deleted.                  *)
EntriesAdvance ==
    [][\A d \in Devices, k \in Keys :
          db'[d][k] # db[d][k] => Supersedes(db'[d][k], db[d][k])]_vars

(* A peer's file that is skipped because its export_id is the checkpoint    *)
(* has nothing to give: importing it again would change nothing, whatever   *)
(* was delivered, cut short or written since.                               *)
SkippedIsMerged ==
    \A d, e \in Devices :
        e \in seen[d] => Merge(db[d], copy[d][e]) = db[d]

Quiet(d) == \A p \in Procs : Home[p] = d => pc[p] = "idle"

Holds(snapshot, k, version) == Version(snapshot[k]) >= version

(* "Anything older than that stamp is treated as already exported"          *)
(* (SYSTEM_BEHAVIOR 13.1): when nothing is under way and the gate is        *)
(* closed, what this device wrote is in its file.                           *)
OwnWritesPublished ==
    \A d \in Devices :
        Quiet(d) /\ ~HasUnexported(d) => \A k \in own[d] : Holds(file[d], k, Version(db[d][k]))

(* "A late-joining peer always receives the complete view that device       *)
(* holds" (SYSTEM_BEHAVIOR 13.1), what it imported included, unless a pass  *)
(* was cut short after its last export.                                     *)
RelayedUnlessCutShort ==
    \A d \in Devices :
        Quiet(d) /\ ~severed[d] /\ ~HasUnexported(d)
            => \A k \in Keys : Holds(file[d], k, Version(db[d][k]))

(* The file of a device is what it has to tell its peers.                   *)
FileIsCurrent == OwnWritesPublished /\ RelayedUnlessCutShort

(* Once nobody writes any more, all devices hold the same rows and the same *)
(* tombstones.                                                              *)
Converges == <>[](\A d, e \in Devices : db[d] = db[e])

-----------------------------------------------------------------------------
(* What the documents say, and the code does not do *)

(* "A full snapshot [...] so a late-joining peer always receives the        *)
(* complete view this device holds - including rows it previously imported  *)
(* from other peers" (export_for_device): when an autosync pass would find  *)
(* nothing to import and the gate closed, the file holds what the device    *)
(* holds.                                                                   *)
CompleteView ==
    \A d \in Devices :
        /\ Quiet(d) /\ ~HasUnexported(d)
        /\ seen[d] = Devices
        => \A k \in Keys : Holds(file[d], k, Version(db[d][k]))
=============================================================================
