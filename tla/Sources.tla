------------------------------- MODULE Sources -------------------------------
(***************************************************************************)
(* The registry of source files: ingest_raw.py, ingest_llm.py, db/sources. *)
(* py, plugin_api/sources.py and the commands `wiki add`, `wiki source rm` *)
(* and `wiki sync --reemit`, with the vault they look at.                  *)
(*                                                                         *)
(* A command is a sequence of database transactions and file operations;   *)
(* cmd[p] is what process p holds between two of them.  The user changes   *)
(* the vault, and the plugin reports a rename or a deletion to the backend *)
(* later, or never.  The compile of a source and the clustering of all of  *)
(* them are one step each: CompileSource has their inside.                 *)
(***************************************************************************)
EXTENDS Naturals, FiniteSets, Functions

CONSTANTS
  Paths,      \* the places a file can have in the directories that are scanned
  Texts,      \* what a file can contain
  Blank,      \* the text of a file too short to be ingested
  Procs,      \* processes that run a command
  Ids,        \* sources.id, handed out in order
  Ctxs,       \* ids of Context pages
  MaxEdits,   \* changes the user makes to the vault
  MaxCmds,    \* commands started
  MaxRuns,    \* compiles, clusterings and verifications
  none

ASSUME TextAssumption == Blank \in Texts /\ none \notin Texts \cup Paths \cup [text : Texts, hash : Texts]
ASSUME IdAssumption == Ids \subseteq Nat \ {0} /\ none \notin Ctxs

VARIABLES
  vault,    \* the text of the file at each path, or none
  row,      \* sources: the rows, by id
  tomb,     \* sync_tombstones: the keys of sources that are deleted
  page,     \* the Context pages on disk: the text they were made of and their source_hash
  units,    \* the text the served units of a source come from, or none
  report,   \* the sources that the community report covers
  node,     \* a synthesis node cites that report
  cmd,      \* what each process is doing
  told,     \* what the plugin saw in the vault and has not reported yet
  lastId,   \* the largest id handed out
  edits,    \* vault changes so far
  cmds,     \* commands started so far
  runs,     \* compiles, clusterings and verifications so far
  calm      \* history: the processes that only their own steps have met since they began

vars == <<vault, row, tomb, page, units, report, node, cmd, told, lastId, edits, cmds, runs, calm>>

State == {"pending", "running", "done", "error", "skipped"}
Statuses == {"pending", "force_pending", "curated", "error"}
Rows == [key : Paths, path : Paths, hash : Texts, ctx : Ctxs \cup {none},
         status : Statuses, l1 : State, l2 : State, l3 : State, l4 : State,
         why : BOOLEAN, reason : {"none", "empty_file", "file_missing"}]
Live == DOMAIN row
At(q) == {i \in Live : row[i].path = q}

Idle == [at |-> "idle"]
At0(p) == cmd[p].at = "idle"

(***************************************************************************)
(* What a write does to a row.                                             *)
(***************************************************************************)

\* set_source_layer_status: a layer, and the reason all four layers share
Layer(r, l, s, why) ==
  CASE l = "l1" -> [r EXCEPT !.l1 = s, !.why = why]
    [] l = "l2" -> [r EXCEPT !.l2 = s, !.why = why]
    [] l = "l3" -> [r EXCEPT !.l3 = s, !.why = why]
    [] OTHER    -> [r EXCEPT !.l4 = s, !.why = why]

\* every layer is to be computed again
Restart(r) == [r EXCEPT !.l1 = "pending", !.l2 = "pending", !.l3 = "pending",
                        !.l4 = "pending", !.why = FALSE]
Forced(r) == [Restart(r) EXCEPT !.status = "force_pending", !.reason = "none"]
\* mutants: the Context of the old text stays; L1 stays done without one
AnewKept(r) == [Restart(r) EXCEPT !.status = "pending"]
AnewDone(r) == [Restart(r) EXCEPT !.status = "pending", !.ctx = none, !.l1 = r.l1]

Anew(r) == [Restart(r) EXCEPT !.status = "pending", !.ctx = none]

\* `UPDATE sources ... WHERE id = ?`: nothing, when the row is gone
SetRow(i, r) == row' = IF i \in Live THEN [row EXCEPT ![i] = r] ELSE row

Begin(p, c) ==
  /\ At0(p) /\ cmds < MaxCmds
  /\ cmd' = [cmd EXCEPT ![p] = c]
  /\ cmds' = cmds + 1
  /\ calm' = {q \in calm : At0(q)} \cup {p}
  /\ UNCHANGED runs

\* a step of p that continues with c
Go(p, c) ==
  /\ cmd' = [cmd EXCEPT ![p] = c]
  /\ calm' = calm \ {q \in Procs : q # p /\ ~At0(q)}
  /\ UNCHANGED <<cmds, runs>>

\* a step of the world
Disturb == calm' = {q \in calm : At0(q)} /\ UNCHANGED <<cmd, cmds>>
Run == runs < MaxRuns /\ runs' = runs + 1 /\ Disturb

(***************************************************************************)
(* Registration.                                                           *)
(***************************************************************************)

\* mutant: the units of a deleted source go on serving
RetireRow(S) ==
  /\ row' = Restrict(row, Live \ S)
  /\ tomb' = tomb \cup {row[i].key : i \in S \cap Live}
  /\ UNCHANGED <<units, report, node>>

\* _delete_source_on_connection and its tombstone, for a set of sources: the
\* report of a deleted source goes, or is rebuilt for the others; a synthesis
\* node that cites a span of one goes.
Retire(S) ==
  /\ row' = Restrict(row, Live \ S)
  /\ tomb' = tomb \cup {row[i].key : i \in S \cap Live}
  /\ units' = [i \in Ids |-> IF i \in S THEN none ELSE units[i]]
  /\ IF S \cap report = {} THEN UNCHANGED <<report, node>>
     ELSE report' \in {{}, report \ S} /\ node' = FALSE

\* the row add_file inserts for a file; its key is the path it has now
New(q) ==
  LET empty == vault[q] = Blank IN
  [key |-> q, path |-> q, hash |-> vault[q], ctx |-> none,
   status |-> IF empty THEN "error" ELSE "pending",
   l1 |-> IF empty THEN "error" ELSE "pending",
   l2 |-> "pending", l3 |-> "pending", l4 |-> "pending",
   why |-> empty, reason |-> IF empty THEN "empty_file" ELSE "none"]

\* mutant: the tombstone of a source that is registered again stays
RegisteredDead(q) ==
  \/ \E i \in At(q) : row[i].hash = vault[q] /\ UNCHANGED <<row, tomb, lastId>>
  \/ \E i \in At(q) : /\ row[i].hash # vault[q]
                      /\ row' = [row EXCEPT ![i] = [Anew(@) EXCEPT !.hash = vault[q]]]
                      /\ UNCHANGED <<tomb, lastId>>
  \/ /\ At(q) = {}
     /\ lastId + 1 \in Ids
     /\ row' = [i \in Live \cup {lastId + 1} |-> IF i \in Live THEN row[i] ELSE New(q)]
     /\ lastId' = lastId + 1
     /\ UNCHANGED tomb

\* add_file's transaction: unchanged, changed, or new
Registered(q) ==
  \/ \E i \in At(q) : row[i].hash = vault[q] /\ UNCHANGED <<row, tomb, lastId>>
  \/ \E i \in At(q) : /\ row[i].hash # vault[q]
                      /\ row' = [row EXCEPT ![i] = [Anew(@) EXCEPT !.hash = vault[q]]]
                      /\ UNCHANGED <<tomb, lastId>>
  \/ /\ At(q) = {}
     /\ lastId + 1 \in Ids
     /\ row' = [i \in Live \cup {lastId + 1} |-> IF i \in Live THEN row[i] ELSE New(q)]
     /\ tomb' = tomb \ {q}
     /\ lastId' = lastId + 1

\* the sync key of a new row is its path, and another row was registered there
KeyTaken(q) == At(q) = {} /\ \E i \in Live : row[i].key = q

(***************************************************************************)
(* `wiki add`, curator_add_all and the discovery of a build.               *)
(***************************************************************************)

\* kinds of commands that generate L1, by what they do when it fails
Kinds == {"add", "force", "add_all", "register", "reforce", "retry"}

\* _auto_discover_pending reads the rows ...
StartScan(p) ==
  \E k \in {"add", "force", "add_all"} :
    /\ Begin(p, [at |-> "scanning", kind |-> k, seen |-> {<<i, row[i].path>> : i \in Live}])
    /\ UNCHANGED <<vault, row, tomb, page, units, report, node, told, lastId, edits>>

\* ... deletes those whose file is not there ...
Orphans(p) == {t[1] : t \in {t \in cmd[p].seen : vault[t[2]] = none}}
DropOrphans(p) ==
  /\ cmd[p].at = "scanning"
  /\ Retire(Orphans(p))
  /\ Go(p, [at |-> "adding", kind |-> cmd[p].kind, todo |-> {q \in Paths : vault[q] # none}])
  /\ UNCHANGED <<vault, page, told, lastId, edits>>

\* ... and adds every file; add_file looks at the file again and may fail to read it
AddFile(p) ==
  /\ cmd[p].at = "adding"
  /\ \E q \in cmd[p].todo :
       /\ ~KeyTaken(q)
       /\ \/ vault[q] # none /\ Registered(q)
          \/ vault[q] = none /\ UNCHANGED <<row, tomb, lastId>>
       /\ Go(p, [at |-> "adding", kind |-> cmd[p].kind, todo |-> cmd[p].todo \ {q}])
  /\ UNCHANGED <<vault, page, units, report, node, told, edits>>

\* the insert violates the unique index on sync_key, and nothing catches it
AddFails(p) ==
  /\ cmd[p].at = "adding"
  /\ \E q \in cmd[p].todo : vault[q] # none /\ KeyTaken(q)
  /\ Go(p, Idle)
  /\ UNCHANGED <<vault, row, tomb, page, units, report, node, told, lastId, edits>>

NeedsL1(i) == row[i].ctx \notin {c \in Ctxs : page[c] # none}
Candidates(k) == {i \in Live : row[i].status # "error" \/ k = "force"}

\* the rows whose Context is to be generated, copied as they are now
Job(i, r) == [id |-> i, path |-> r.path, hash |-> r.hash, ctx |-> r.ctx, done |-> r.l1 = "done"]
SelectL1(p) ==
  LET k == cmd[p].kind
      S == {i \in Candidates(k) : k = "force" \/ NeedsL1(i)}
  IN /\ cmd[p].at = "adding" /\ cmd[p].todo = {}
     /\ row' = IF k = "force" THEN [i \in Live |-> IF i \in S THEN Forced(row[i]) ELSE row[i]] ELSE row
     /\ Go(p, [at |-> "selecting", kind |-> k, jobs |-> {Job(i, row[i]) : i \in S}])
     /\ UNCHANGED <<vault, tomb, page, units, report, node, told, lastId, edits>>

(***************************************************************************)
(* generate_l1_structural_context, and what its callers do around it.      *)
(***************************************************************************)

\* register_source, of one of the sources of S
Register(p, S) ==
  \E i \in S, force \in BOOLEAN :
    LET r == IF force THEN [Forced(row[i]) EXCEPT !.ctx = none] ELSE row[i] IN
    /\ force \/ NeedsL1(i)
    /\ row' = IF force THEN [row EXCEPT ![i] = Forced(@)] ELSE row
    /\ Begin(p, [at |-> "selecting", kind |-> IF force THEN "reforce" ELSE "register",
                 jobs |-> {Job(i, [r EXCEPT !.l1 = row[i].l1])}])
    /\ UNCHANGED <<vault, tomb, page, units, report, node, told, lastId, edits>>

\* `wiki source retry` of the sources whose L1 is in error
RetryL1(p) ==
  LET S == {i \in Live : /\ row[i].reason = "empty_file" \/ row[i].l1 = "error"
                         /\ row[i].status = "error" \/ row[i].why
                            \/ "error" \in {row[i].l1, row[i].l2, row[i].l3, row[i].l4}}
  IN /\ S # {}
     /\ row' = [i \in Live |-> IF i \in S THEN [Restart(row[i]) EXCEPT !.status = "pending", !.reason = "none"]
                               ELSE row[i]]
     /\ Begin(p, [at |-> "selecting", kind |-> "retry", jobs |-> {Job(i, row[i]) : i \in S}])
     /\ UNCHANGED <<vault, tomb, page, units, report, node, told, lastId, edits>>

\* the next source, in the order of ids; the layer is marked, but for a retry
MarkRunning(p) ==
  /\ cmd[p].at = "selecting"
  /\ \E j \in cmd[p].jobs :
       /\ \A o \in cmd[p].jobs : j.id <= o.id
       /\ IF cmd[p].kind = "retry" \/ j.id \notin Live THEN UNCHANGED row
          ELSE row' = [row EXCEPT ![j.id] = Layer(@, "l1", "running", FALSE)]
       /\ Go(p, [at |-> "parsing", kind |-> cmd[p].kind, jobs |-> cmd[p].jobs \ {j}, job |-> j])
  /\ UNCHANGED <<vault, tomb, page, units, report, node, told, lastId, edits>>

InUse == {row[i].ctx : i \in Live} \cup {c \in Ctxs : page[c] # none}
         \cup {cmd[p].ctx : p \in {p \in Procs : cmd[p].at = "linking"}}

\* the file is parsed and its page is written, under the old id if there is one
WritePage(p) ==
  LET j == cmd[p].job IN
  /\ cmd[p].at = "parsing"
  /\ vault[j.path] # none
  /\ \E c \in Ctxs :
       /\ IF j.ctx # none THEN c = j.ctx
          ELSE c \notin InUse /\ \A d \in Ctxs \ InUse : c <= d
       /\ page' = [page EXCEPT ![c] = [text |-> vault[j.path], hash |-> j.hash]]
       /\ Go(p, [at |-> "linking", kind |-> cmd[p].kind, jobs |-> cmd[p].jobs, job |-> j, ctx |-> c])
  /\ UNCHANGED <<vault, row, tomb, units, report, node, told, lastId, edits>>

Next0(c) == [at |-> "selecting", kind |-> c.kind, jobs |-> c.jobs]

\* the row gets the page; of a row that is gone, the record of the page fails
LinkPage(p) ==
  LET i == cmd[p].job.id IN
  /\ cmd[p].at = "linking"
  /\ IF i \in Live
     THEN /\ row' = [row EXCEPT ![i] = [Layer(@, "l1", "done", FALSE) EXCEPT !.ctx = cmd[p].ctx]]
          /\ Go(p, Next0(cmd[p]))
     ELSE UNCHANGED row /\ Go(p, Idle)
  /\ UNCHANGED <<vault, tomb, page, units, report, node, told, lastId, edits>>

\* the file is not there, or the parser or the vision model raises
L1Fails(p) ==
  LET j == cmd[p].job
      r == row[j.id]
      e == IF vault[j.path] = none THEN r ELSE Layer(r, "l1", "error", TRUE)
  IN /\ cmd[p].at = "parsing"
     /\ SetRow(j.id, IF j.done /\ j.ctx # none /\ cmd[p].kind \in {"add", "register"} THEN Layer(e, "l1", "done", FALSE)
                     ELSE IF cmd[p].kind \in {"add", "force", "add_all"} THEN Layer(e, "l1", "error", TRUE)
                     ELSE e)
     /\ Go(p, Next0(cmd[p]))
     /\ UNCHANGED <<vault, tomb, page, units, report, node, told, lastId, edits>>

EndCommand(p) ==
  /\ cmd[p].at = "selecting" /\ cmd[p].jobs = {}
  /\ Go(p, Idle)
  /\ UNCHANGED <<vault, row, tomb, page, units, report, node, told, lastId, edits>>

(***************************************************************************)
(* `wiki source rm`, and reemit_projections, which follows it.             *)
(***************************************************************************)

\* the registry part commits first; `path` is from the row read before it
Remove(p) ==
  \E i \in Live, unlink \in BOOLEAN :
    /\ Retire({i})
    /\ Begin(p, [at |-> "reading", unlink |-> unlink, path |-> row[i].path])
    /\ UNCHANGED <<vault, page, told, lastId, edits>>

\* `wiki sync --reemit`
StartReemit(p) ==
  /\ \E q \in Paths : Begin(p, [at |-> "reading", unlink |-> FALSE, path |-> q])
  /\ UNCHANGED <<vault, row, tomb, page, units, report, node, told, lastId, edits>>

\* a reemit that knows what is served, reported and cited, and the rows still to settle
Settling(c, serving, reported, cited, rows) ==
  [at |-> "settling", unlink |-> c.unlink, path |-> c.path, serving |-> serving,
   reported |-> reported, cited |-> cited, rows |-> rows]

\* what the statuses should be, and the rows that have an L2, as of now
ReadStatuses(p) ==
  /\ cmd[p].at = "reading"
  /\ Go(p, Settling(cmd[p], {i \in Live : units[i] # none}, report, IF node THEN report ELSE {},
                    {<<i, row[i]>> : i \in {i \in Live : row[i].l2 \in {"done", "skipped"}}}))
  /\ UNCHANGED <<vault, row, tomb, page, units, report, node, told, lastId, edits>>

\* the desired state of L3 or L4: an error with a reason stays
Desired(s, why, l2, reached) ==
  IF why /\ s = "error" THEN "error" ELSE IF l2 = "done" /\ reached THEN "done" ELSE "skipped"

\* up to three writes; each one clears the reason
Set(r, l, was, is) == IF was = is THEN r ELSE Layer(r, l, is, FALSE)
\* mutant: L4 is settled by the report
SettledTwice(r, old, serving, reported, cited) ==
  LET l2 == IF serving THEN "done" ELSE "skipped"
      l3 == Desired(old.l3, old.why, l2, reported)
      l4 == Desired(old.l4, old.why, l2, reported)
  IN Set(Set(Set(r, "l2", old.l2, l2), "l3", old.l3, l3), "l4", old.l4, l4)

Settled(r, old, serving, reported, cited) ==
  LET l2 == IF serving THEN "done" ELSE "skipped"
      l3 == Desired(old.l3, old.why, l2, reported)
      l4 == Desired(old.l4, old.why, l2, cited)
  IN Set(Set(Set(r, "l2", old.l2, l2), "l3", old.l3, l3), "l4", old.l4, l4)

SettleRow(p) ==
  /\ cmd[p].at = "settling"
  /\ \E t \in cmd[p].rows :
       /\ \A o \in cmd[p].rows : t[1] <= o[1]
       /\ SetRow(t[1], IF t[1] \in Live THEN Settled(row[t[1]], t[2], t[1] \in cmd[p].serving,
                                  t[1] \in cmd[p].reported, t[1] \in cmd[p].cited) ELSE t[2])
       /\ Go(p, Settling(cmd[p], cmd[p].serving, cmd[p].reported, cmd[p].cited, cmd[p].rows \ {t}))
  /\ UNCHANGED <<vault, tomb, page, units, report, node, told, lastId, edits>>

\* the Context pages that rows refer to are read, and the others deleted
ReadContexts(p) ==
  /\ cmd[p].at = "settling" /\ cmd[p].rows = {}
  /\ Go(p, [at |-> "cleaning", unlink |-> cmd[p].unlink, path |-> cmd[p].path,
             current |-> {row[i].ctx : i \in Live}])
  /\ UNCHANGED <<vault, row, tomb, page, units, report, node, told, lastId, edits>>

CleanContexts(p) ==
  /\ cmd[p].at = "cleaning"
  /\ page' = [c \in Ctxs |-> IF c \in cmd[p].current THEN page[c] ELSE none]
  /\ Go(p, [at |-> "unlinking", unlink |-> cmd[p].unlink, path |-> cmd[p].path])
  /\ UNCHANGED <<vault, row, tomb, units, report, node, told, lastId, edits>>

\* `--delete-file`: whatever file is at the path of the row that was removed
Unlink(p) ==
  /\ cmd[p].at = "unlinking"
  /\ vault' = IF cmd[p].unlink THEN [vault EXCEPT ![cmd[p].path] = none] ELSE vault
  /\ Go(p, Idle)
  /\ UNCHANGED <<row, tomb, page, units, report, node, told, lastId, edits>>

(***************************************************************************)
(* The compile, clustering and verification of what is registered.         *)
(***************************************************************************)

\* compile_source_l2: the file as it is now, whatever the row's hash
Compile ==
  \E i \in Live :
    /\ row[i].l1 = "done"
    /\ \/ /\ vault[row[i].path] # none
          /\ \E s \in {"done", "skipped"} :
               /\ row' = [row EXCEPT ![i] = [Layer(@, "l2", s, FALSE) EXCEPT !.status = "curated"]]
               /\ units' = [units EXCEPT ![i] = IF s = "done" THEN vault[row[i].path] ELSE none]
       \/ /\ row' = [row EXCEPT ![i] = Layer(@, "l2", "error", TRUE)]
          /\ UNCHANGED units
    /\ Run
    /\ UNCHANGED <<vault, tomb, page, report, node, told, lastId, edits>>

\* compile_global_l3: one reason for both layers, written with L3
Clustered(l3bad, l4bad, R, n) ==
  [i \in Live |->
     IF row[i].l2 # "done" THEN row[i]
     ELSE [row[i] EXCEPT !.why = l3bad \/ l4bad,
             !.l3 = IF l3bad THEN "error" ELSE IF i \in R THEN "done" ELSE "skipped",
             !.l4 = IF l4bad THEN "error" ELSE IF n /\ i \in R THEN "done" ELSE "skipped"]]

Cluster ==
  \E l3bad, l4bad \in BOOLEAN, R \in SUBSET {i \in Live : units[i] # none}, n \in BOOLEAN :
    /\ n => R # {}
    /\ report' = R /\ node' = n
    /\ row' = Clustered(l3bad, l4bad, R, n)
    /\ Run
    /\ UNCHANGED <<vault, tomb, page, units, told, lastId, edits>>

\* _mark_layer_status_from_sync_gaps, of Concepts
MarkGaps ==
  /\ \E i \in Live : row[i].l2 = "done"
  /\ row' = [i \in Live |-> IF row[i].l2 # "done" THEN row[i]
                            ELSE [row[i] EXCEPT !.l3 = "error", !.why = TRUE, !.l4 = "pending"]]
  /\ Run
  /\ UNCHANGED <<vault, tomb, page, units, report, node, told, lastId, edits>>

(***************************************************************************)
(* The vault, and the plugin's reports.                                    *)
(***************************************************************************)

Edited(v) == /\ edits < MaxEdits /\ edits' = edits + 1
             /\ vault' = v /\ v # vault
             /\ Disturb /\ UNCHANGED runs
             /\ UNCHANGED <<row, tomb, page, units, report, node, lastId>>

WriteFile == \E q \in Paths, t \in Texts : Edited([vault EXCEPT ![q] = t]) /\ UNCHANGED told
DeleteFile == \E q \in Paths : /\ vault[q] # none
                              /\ Edited([vault EXCEPT ![q] = none])
                              /\ told' \in {told, told \cup {<<q, none>>}}
RenameFile == \E q, r \in Paths : /\ vault[q] # none /\ vault[r] = none
                                 /\ Edited([vault EXCEPT ![q] = none, ![r] = vault[q]])
                                 /\ told' \in {told, told \cup {<<q, r>>}}

\* mutant: a report without a new path is not refused
RelocateAnywhere ==
  \E t \in told :
    /\ row' = IF At(t[2]) = {} THEN [i \in Live |-> IF i \in At(t[1]) THEN [row[i] EXCEPT !.path = t[2]] ELSE row[i]]
              ELSE row
    /\ told' = told \ {t}
    /\ Disturb /\ UNCHANGED runs
    /\ UNCHANGED <<vault, tomb, page, units, report, node, lastId, edits>>

\* relocate_source: the path moves, the key does not; a path that another row
\* has fails the unique index
RelocateSource ==
  \E t \in told :
    /\ t[2] # none
    /\ row' = IF At(t[2]) = {} THEN [i \in Live |-> IF i \in At(t[1]) THEN [row[i] EXCEPT !.path = t[2]] ELSE row[i]]
              ELSE row
    /\ told' = told \ {t}
    /\ Disturb /\ UNCHANGED runs
    /\ UNCHANGED <<vault, tomb, page, units, report, node, lastId, edits>>

\* mark_source_file_missing
MarkMissing ==
  \E t \in told :
    /\ t[2] = none
    /\ row' = [i \in Live |-> IF i \in At(t[1]) THEN [row[i] EXCEPT !.reason = "file_missing"] ELSE row[i]]
    /\ told' = told \ {t}
    /\ Disturb /\ UNCHANGED runs
    /\ UNCHANGED <<vault, tomb, page, units, report, node, lastId, edits>>

\* a vault with one file, and an empty registry
Init ==
  /\ \E q \in Paths, t \in Texts \ {Blank} : vault = [r \in Paths |-> IF r = q THEN t ELSE none]
  /\ row = <<>> /\ tomb = {}
  /\ page = [c \in Ctxs |-> none] /\ units = [i \in Ids |-> none]
  /\ report = {} /\ node = FALSE
  /\ cmd = [p \in Procs |-> Idle] /\ told = {}
  /\ lastId = 0 /\ edits = 0 /\ cmds = 0 /\ runs = 0 /\ calm = {}

Discover(p) == StartScan(p) \/ DropOrphans(p) \/ AddFile(p) \/ AddFails(p) \/ SelectL1(p)
Generate(p, S) == Register(p, S) \/ RetryL1(p) \/ MarkRunning(p) \/ WritePage(p) \/ LinkPage(p)
               \/ L1Fails(p) \/ EndCommand(p)
Reemit(p) == Remove(p) \/ StartReemit(p) \/ ReadStatuses(p) \/ SettleRow(p) \/ ReadContexts(p)
             \/ CleanContexts(p) \/ Unlink(p)
Command(p, S) == Discover(p) \/ Generate(p, S) \/ Reemit(p)
Pipeline == Compile \/ Cluster \/ MarkGaps
Plugin == RelocateSource \/ MarkMissing
User == WriteFile \/ DeleteFile \/ RenameFile

Next == (\E p \in Procs : Command(p, Live)) \/ Pipeline \/ Plugin \/ User
Spec == Init /\ [][Next]_vars

\* Commands do not overlap, the user does not touch the vault while one runs, and
\* a source is registered again when its document is opened.
AtRest == \A p \in Procs : At0(p)
Opened == {i \in Live : vault[row[i].path] # none}
CalmNext == \/ \E p \in Procs : (\A o \in Procs \ {p} : At0(o)) /\ Command(p, Opened)
            \/ AtRest /\ (Pipeline \/ User)
            \/ Plugin
CalmSpec == Init /\ [][CalmNext]_vars

(***************************************************************************)
(* Properties.                                                             *)
(***************************************************************************)

\* Every variable has its type: db/schema.py:186.
TypeOK ==
  /\ vault \in [Paths -> Texts \cup {none}]
  /\ Live \subseteq 1..lastId /\ lastId \in {0} \cup Ids
  /\ \A i \in Live : row[i] \in Rows
  /\ tomb \subseteq Paths
  /\ page \in [Ctxs -> [text : Texts, hash : Texts] \cup {none}]
  /\ units \in [Ids -> Texts \cup {none}]
  /\ report \subseteq Ids /\ node \in BOOLEAN
  /\ calm \subseteq Procs
  /\ told \subseteq Paths \X (Paths \cup {none})

\* A key is a live source's or a deleted one's, never both: a peer that imports the
\* tombstone would delete a source that has been registered again (ingest_raw.py:2227).
KeyLivesOrDied == \A i \in Live : row[i].key \notin tomb

\* Nothing that retrieval serves comes from a source that is gone, however it went
\* (db/sources.py:76): no unit, no report of it, no synthesis without a report.
ClosureGone ==
  /\ \A i \in Ids \ Live : units[i] = none /\ i \notin report
  /\ node => report # {}

\* An L1 that is done has a Context (ingest_raw.py:1530, 2136).
DoneHasContext == \A i \in Live : row[i].l1 = "done" => row[i].ctx # none

\* a page made of a file that had changed since it was registered
Drifted(c) == page[c].text # page[c].hash

\* what a retry leaves of a source whose file it did not find: every layer pending,
\* beside the page of its text.  generate_l1_structural_context returns without a status,
\* and no scan but a forced one takes up a source that has a page (commands/core.py:878).
LeftPending(i) == /\ row[i].l1 = "pending" /\ row[i].ctx # none
                  /\ page[row[i].ctx] # none /\ page[row[i].ctx].hash = row[i].hash

\* What a scan of the vault leaves behind, when nothing interfered: a source for every
\* file and a file for every source, at the file's text, with the page of that text or
\* an error (ingest_llm.py:262, commands/core.py:802).  A page that was made of a later
\* text than the row's hash stays, if the file goes back to the earlier text.
Matches(taken) ==
  /\ \A i \in Live : vault[row[i].path] # none
  /\ \A q \in Paths : vault[q] # none =>
       \E i \in At(q) : /\ row[i].hash = vault[q]
                        /\ \/ row[i].l1 = "error"
                           \/ row[i].l1 = "done" /\ Drifted(row[i].ctx)
                           \/ row[i].l1 = "done" /\ page[row[i].ctx].text = vault[q]
                           \/ ~taken /\ LeftPending(i)
ScanConverges ==
  \A p \in calm : EndCommand(p) /\ cmd[p].kind \in {"add", "force", "add_all"} => Matches(cmd[p].kind = "force")

\* Fails: a scan takes up every source that is not done ("discover/register changed
\* sources -> ... -> set sources.context_id and l1_status='done'", SYSTEM_BEHAVIOR.md:203).
ScanTakesAll ==
  [][\A p \in calm : EndCommand(p) /\ cmd[p].kind \in {"add", "force", "add_all"} => Matches(TRUE)]_vars

\* What reemit_projections leaves behind, when nothing interfered: a compiled source's
\* statuses say what is served of it, and the Context pages on disk are those in use
\* (pipeline/compile.py:1406).
Truthful ==
  /\ \A i \in Live : row[i].l2 \in {"done", "skipped"} =>
       /\ row[i].l2 = "done" <=> units[i] # none
       /\ row[i].l3 = "done" => i \in report
       /\ row[i].l4 = "done" => node /\ i \in report
  /\ \A c \in Ctxs : page[c] # none => \E i \in Live : row[i].ctx = c
ReemitTruthful == \A p \in calm : Unlink(p) => Truthful

\* What is registered lives in one place only, and what is gone leaves nothing behind.
RegisteredOrGone == TypeOK /\ KeyLivesOrDied /\ ClosureGone /\ DoneHasContext

\* A command that nothing interfered with leaves the records as the vault is.
CommandsConverge == [][ScanConverges /\ ReemitTruthful]_vars

\* Only `wiki source rm` retires what was learnt from a source: SYSTEM_BEHAVIOR.md:337
\* and db/sources.py:628 say so of a file that is deleted or moved away.
KnowledgeSurvives == [][Live \subseteq DOMAIN row' \/ \E p \in Procs : Remove(p)]_vars

\* A scan can register every file it finds (commands/core.py:802).
NamesAreFree == \A p \in Procs : cmd[p].at = "adding" => \A q \in cmd[p].todo : ~KeyTaken(q)

\* The paths are interchangeable: no definition tells them apart, and no property that
\* is checked under this symmetry is a liveness property.
Symmetry == {f : f \in Bijection(Paths, Paths)}
=============================================================================
