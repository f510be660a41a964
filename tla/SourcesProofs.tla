----------------------------- MODULE SourcesProofs -----------------------------
(***************************************************************************)
(* Proofs about Sources, for any paths, texts, ids, processes and bounds:  *)
(* what is registered lives in one place, what is gone leaves nothing      *)
(* behind, and a command that nothing interfered with leaves the records   *)
(* as the vault is.                                                        *)
(***************************************************************************)
EXTENDS Sources, TLAPS

Jobs == [id : Ids, path : Paths, hash : Texts, ctx : Ctxs \cup {none}, done : BOOLEAN]

\* what a command holds between two of its steps, as far as a row or a page is made of it
Held(c) ==
  /\ c.at = "adding" => c.todo \subseteq Paths
  /\ c.at \in {"selecting", "parsing", "linking"} => c.jobs \subseteq Jobs
  /\ c.at \in {"parsing", "linking"} => c.job \in Jobs
  /\ c.at = "linking" => c.ctx \in Ctxs
Commands == DOMAIN cmd = Procs /\ \A p \in Procs : Held(cmd[p])

\* no two sources have the same key: the unique index on sync_key
KeysApart == \A i, j \in Live : row[i].key = row[j].key => i = j

\* the registry
Registry ==
  /\ Live \subseteq Ids /\ Live \subseteq 1..lastId /\ lastId \in {0} \cup Ids
  /\ \A i \in Live : row[i] \in Rows
  /\ tomb \subseteq Paths
  /\ KeysApart /\ KeyLivesOrDied

\* what is served of its sources
Served ==
  /\ units \in [Ids -> Texts \cup {none}]
  /\ report \subseteq Ids /\ node \in BOOLEAN
  /\ ClosureGone

Files ==
  /\ vault \in [Paths -> Texts \cup {none}]
  /\ page \in [Ctxs -> [text : Texts, hash : Texts] \cup {none}]
  /\ told \subseteq Paths \X (Paths \cup {none})

Base == Registry /\ Served /\ Files /\ Commands /\ calm \subseteq Procs

-----------------------------------------------------------------------------
(* Rows *)

LEMMA Layered ==
  ASSUME NEW r \in Rows, NEW l, NEW s \in State, NEW why \in BOOLEAN
  PROVE  /\ Layer(r, l, s, why) \in Rows
         /\ Layer(r, l, s, why).key = r.key /\ Layer(r, l, s, why).path = r.path
         /\ Layer(r, l, s, why).ctx = r.ctx
         /\ Layer(r, l, s, why).l1 = IF l = "l1" THEN s ELSE r.l1
  <1>1. CASE l = "l1"
    BY <1>1 DEF Layer, Rows
  <1>2. CASE l = "l2"
    BY <1>2 DEF Layer, Rows
  <1>3. CASE l = "l3"
    BY <1>3 DEF Layer, Rows
  <1>4. CASE l \notin {"l1", "l2", "l3"}
    BY <1>4 DEF Layer, Rows
  <1> QED
    BY <1>1, <1>2, <1>3, <1>4

LEMMA Restarted ==
  ASSUME NEW r \in Rows
  PROVE  /\ Restart(r) \in Rows /\ Restart(r).key = r.key /\ Restart(r).ctx = r.ctx /\ Restart(r).l1 = "pending"
         /\ Restart(r).path = r.path
  BY ZenonT(60) DEF Restart, Rows, State

LEMMA ForcedIs ==
  ASSUME NEW r \in Rows
  PROVE  /\ Forced(r) \in Rows /\ Forced(r).key = r.key /\ Forced(r).ctx = r.ctx /\ Forced(r).l1 = "pending"
         /\ Forced(r).path = r.path
  BY ZenonT(60), Restarted DEF Forced, Rows, Statuses

LEMMA AnewIs ==
  ASSUME NEW r \in Rows
  PROVE  Anew(r) \in Rows /\ Anew(r).key = r.key /\ Anew(r).l1 = "pending"
  BY ZenonT(60), Restarted DEF Anew, Rows, Statuses

LEMMA SetIs ==
  ASSUME NEW r \in Rows, NEW l \in {"l2", "l3", "l4"}, NEW was, NEW is \in State
  PROVE  Set(r, l, was, is) \in Rows /\ Set(r, l, was, is).key = r.key
         /\ Set(r, l, was, is).ctx = r.ctx /\ Set(r, l, was, is).l1 = r.l1
  BY ZenonT(60), Layered DEF Set

LEMMA SettledIs ==
  ASSUME NEW r \in Rows, NEW old, NEW serving, NEW reported, NEW cited
  PROVE  /\ Settled(r, old, serving, reported, cited) \in Rows
         /\ Settled(r, old, serving, reported, cited).key = r.key
         /\ Settled(r, old, serving, reported, cited).ctx = r.ctx
         /\ Settled(r, old, serving, reported, cited).l1 = r.l1
  <1> DEFINE l2 == IF serving THEN "done" ELSE "skipped"
             l3 == Desired(old.l3, old.why, l2, reported)
             l4 == Desired(old.l4, old.why, l2, cited)
             r2 == Set(r, "l2", old.l2, l2)
             r3 == Set(r2, "l3", old.l3, l3)
             r4 == Set(r3, "l4", old.l4, l4)
  <1>1. l2 \in State /\ l3 \in State /\ l4 \in State
    BY DEF Desired, State
  <1>2. r2 \in Rows /\ r2.key = r.key /\ r2.ctx = r.ctx /\ r2.l1 = r.l1
    BY <1>1, SetIs
  <1>3. r3 \in Rows /\ r3.key = r.key /\ r3.ctx = r.ctx /\ r3.l1 = r.l1
    <2> HIDE DEF r2, l3
    <2> QED
      BY <1>1, <1>2, SetIs
  <1>4. r4 \in Rows /\ r4.key = r.key /\ r4.ctx = r.ctx /\ r4.l1 = r.l1
    <2> HIDE DEF r3, l4
    <2> QED
      BY <1>1, <1>3, SetIs
  <1>5. Settled(r, old, serving, reported, cited) = r4
    BY DEF Settled
  <1> QED
    BY <1>4, <1>5

LEMMA JobIs ==
  ASSUME NEW i \in Ids, NEW r \in Rows
  PROVE  Job(i, r) \in Jobs /\ Job(i, r).id = i /\ Job(i, r).ctx = r.ctx
  BY DEF Job, Jobs, Rows

(* A step that gives no source another key, nor adds or deletes one.       *)
KeepsKeys ==
  /\ DOMAIN row' = Live
  /\ \A i \in Live : row'[i] \in Rows /\ row'[i].key = row[i].key

LEMMA KeysStay ==
  ASSUME Registry, KeepsKeys, UNCHANGED <<tomb, lastId>>
  PROVE  Registry' /\ Live' = Live
  BY DEF Registry, KeepsKeys, KeysApart, KeyLivesOrDied, Live

LEMMA RowsStay ==
  ASSUME Registry, UNCHANGED <<row, tomb, lastId>>
  PROVE  Registry' /\ Live' = Live
  BY DEF Registry, KeysApart, KeyLivesOrDied, Live

LEMMA ServedStays ==
  ASSUME Served, Live' = Live, UNCHANGED <<units, report, node>>
  PROVE  Served'
  BY DEF Served, ClosureGone

LEMMA FilesStay ==
  ASSUME Files, UNCHANGED <<vault, page, told>>
  PROVE  Files'
  BY DEF Files

(* A step of a process that goes on with c.                                *)
LEMMA Goes ==
  ASSUME Commands, calm \subseteq Procs, NEW p \in Procs, NEW c, Held(c), Go(p, c) \/ Begin(p, c)
  PROVE  Commands' /\ calm' \subseteq Procs
  BY DEF Commands, Go, Begin

LEMMA Disturbed ==
  ASSUME Commands, calm \subseteq Procs, Disturb
  PROVE  Commands' /\ calm' \subseteq Procs
  BY DEF Commands, Disturb

(* SetRow with a row of the same key.                                      *)
LEMMA RowSet ==
  ASSUME Registry, NEW i, NEW r, SetRow(i, r), i \in Live => r \in Rows /\ r.key = row[i].key
  PROVE  KeepsKeys
  BY DEF SetRow, KeepsKeys, Registry, Live

-----------------------------------------------------------------------------
(* Registration *)

(* A deletion leaves nothing of what it deletes.                           *)
LEMMA RetireKeeps ==
  ASSUME Registry, Served, NEW S, Retire(S), UNCHANGED lastId
  PROVE  Registry' /\ Served'
  <1>1. Live' = Live \ S /\ \A i \in Live \ S : row'[i] = row[i]
    BY DEF Retire, Restrict, Live
  <1>2. tomb' = tomb \cup {row[i].key : i \in S \cap Live}
    BY DEF Retire
  <1>3. tomb' \subseteq Paths
    BY <1>2 DEF Registry, Rows
  <1>4. KeysApart' /\ KeyLivesOrDied'
    <2>1. KeysApart /\ KeyLivesOrDied
      BY DEF Registry
    <2>2. KeysApart'
      BY <2>1, <1>1 DEF KeysApart
    <2>3. ASSUME NEW i \in Live' PROVE row'[i].key \notin tomb'
      <3>1. i \in Live /\ i \notin S /\ row'[i].key = row[i].key
        BY <1>1
      <3>2. \A j \in S \cap Live : row[j].key # row[i].key
        BY <3>1, <2>1 DEF KeysApart
      <3> QED
        BY <3>1, <3>2, <2>1, <1>2 DEF KeyLivesOrDied
    <2> QED
      BY <2>2, <2>3 DEF KeyLivesOrDied
  <1>5. Registry'
    BY <1>1, <1>3, <1>4 DEF Registry, Retire
  <1>6. units' \in [Ids -> Texts \cup {none}] /\ \A i \in Ids \ Live' : units'[i] = none
    BY <1>1 DEF Retire, Served, ClosureGone
  <1>7. \/ UNCHANGED <<report, node>> /\ S \cap report = {}
        \/ report' \subseteq report \ S /\ node' = FALSE
    BY DEF Retire
  <1>8. CASE UNCHANGED <<report, node>> /\ S \cap report = {}
    <2>1. \A i \in Ids \ Live' : i \notin report
      BY <1>1, <1>8 DEF Served, ClosureGone
    <2>2. node => report # {}
      BY DEF Served, ClosureGone
    <2>3. ClosureGone'
      BY <1>6, <1>8, <2>1, <2>2 DEF ClosureGone
    <2> QED
      BY <1>5, <1>6, <1>8, <2>3 DEF Served
  <1>9. CASE report' \subseteq report \ S /\ node' = FALSE
    <2>1. report' \subseteq Ids /\ \A i \in Ids \ Live' : i \notin report'
      BY <1>1, <1>9 DEF Served, ClosureGone
    <2>2. node' \in BOOLEAN /\ (node' => report' # {})
      BY <1>9
    <2>3. ClosureGone'
      BY <1>6, <2>1, <2>2 DEF ClosureGone
    <2> QED
      BY <1>5, <1>6, <2>1, <2>2, <2>3 DEF Served
  <1> QED
    BY <1>5, <1>7, <1>8, <1>9

LEMMA NewIs ==
  ASSUME NEW q \in Paths, Files, vault[q] # none
  PROVE  New(q) \in Rows /\ New(q).key = q /\ New(q).l1 # "done"
  BY DEF New, Rows, State, Statuses, Files

(* A source that is registered brings its key to life.                     *)
LEMMA RegisteredKeeps ==
  ASSUME Registry, Served, Files, NEW q \in Paths, vault[q] # none, ~KeyTaken(q), Registered(q),
         UNCHANGED <<units, report, node>>
  PROVE  Registry' /\ Served'
  <1>1. CASE UNCHANGED <<row, tomb, lastId>>
    BY <1>1, RowsStay, ServedStays
  <1>2. CASE \E i \in At(q) : /\ row' = [row EXCEPT ![i] = [Anew(@) EXCEPT !.hash = vault[q]]]
                              /\ UNCHANGED <<tomb, lastId>>
    <2>1. PICK i \in At(q) : /\ row' = [row EXCEPT ![i] = [Anew(@) EXCEPT !.hash = vault[q]]]
                             /\ UNCHANGED <<tomb, lastId>>
      BY <1>2
    <2> DEFINE r == [Anew(row[i]) EXCEPT !.hash = vault[q]]
    <2>2. i \in Live /\ row[i] \in Rows /\ row' = [row EXCEPT ![i] = r]
      BY <2>1 DEF At, Registry
    <2>3. Anew(row[i]) \in Rows /\ Anew(row[i]).key = row[i].key
      BY <2>2, AnewIs
    <2>4. r \in Rows /\ r.key = row[i].key
      BY <2>3 DEF Rows, Files
    <2>5. KeepsKeys
      <3> HIDE DEF r
      <3> QED
        BY <2>2, <2>4 DEF KeepsKeys, Registry, Live
    <2> QED
      BY <2>1, <2>5, KeysStay, ServedStays
  <1>3. CASE /\ At(q) = {}
             /\ lastId + 1 \in Ids
             /\ row' = [i \in Live \cup {lastId + 1} |-> IF i \in Live THEN row[i] ELSE New(q)]
             /\ tomb' = tomb \ {q}
             /\ lastId' = lastId + 1
    <2>1. lastId \in Nat /\ lastId + 1 \notin Live /\ lastId + 1 \in Ids
      BY <1>3, IdAssumption DEF Registry
    <2>2. /\ Live' = Live \cup {lastId + 1} /\ \A i \in Live : row'[i] = row[i]
          /\ row'[lastId + 1] = New(q)
      BY <1>3, <2>1 DEF Live
    <2>3. \A i \in Live : row[i].key # q
      BY <1>3 DEF KeyTaken
    <2>4. New(q) \in Rows /\ New(q).key = q
      BY NewIs
    <2>5. KeysApart' /\ KeyLivesOrDied'
      <3>1. KeysApart /\ KeyLivesOrDied
        BY DEF Registry
      <3>2. KeysApart'
        BY <3>1, <2>2, <2>3, <2>4 DEF KeysApart
      <3>3. KeyLivesOrDied'
        BY <3>1, <1>3, <2>2, <2>4 DEF KeyLivesOrDied
      <3> QED
        BY <3>2, <3>3
    <2>6. Live' \subseteq 1..lastId'
      BY <1>3, <2>1, <2>2 DEF Registry
    <2>7. Registry'
      BY <1>3, <2>1, <2>2, <2>4, <2>5, <2>6 DEF Registry
    <2>8. Served'
      BY <2>2 DEF Served, ClosureGone
    <2> QED
      BY <2>7, <2>8
  <1> QED
    BY <1>1, <1>2, <1>3 DEF Registered

-----------------------------------------------------------------------------
(* Steps *)

(* A step of a process that writes rows, but no key.                       *)
LEMMA RowStep ==
  ASSUME Base, KeepsKeys, NEW p \in Procs, NEW c, Held(c), Go(p, c) \/ Begin(p, c),
         UNCHANGED <<vault, tomb, page, units, report, node, told, lastId>>
  PROVE  Base'
  BY KeysStay, ServedStays, FilesStay, Goes DEF Base

(* A step of a process that writes no row.                                 *)
LEMMA IdleStep ==
  ASSUME Base, NEW p \in Procs, NEW c, Held(c), Go(p, c) \/ Begin(p, c),
         UNCHANGED <<row, tomb, units, report, node, lastId>>, Files'
  PROVE  Base'
  BY RowsStay, ServedStays, Goes DEF Base

LEMMA HeldPlain ==
  /\ Held(Idle)
  /\ \A c : c.at \in {"scanning", "reading", "settling", "cleaning", "unlinking"} => Held(c)
  BY DEF Held, Idle

LEMMA DiscoverKeeps ==
  ASSUME Base, NEW p \in Procs, Discover(p)
  PROVE  Base'
  <1>1. CASE StartScan(p)
    <2>1. PICK k \in {"add", "force", "add_all"} :
            Begin(p, [at |-> "scanning", kind |-> k, seen |-> {<<i, row[i].path>> : i \in Live}])
      BY <1>1 DEF StartScan
    <2>2. Files' /\ UNCHANGED <<row, tomb, units, report, node, lastId>>
      BY <1>1, FilesStay DEF StartScan, Base
    <2> QED
      BY <2>1, <2>2, IdleStep, HeldPlain
  <1>2. CASE DropOrphans(p)
    <2> DEFINE c == [at |-> "adding", kind |-> cmd[p].kind, todo |-> {q \in Paths : vault[q] # none}]
    <2>1. Retire(Orphans(p)) /\ Go(p, c) /\ UNCHANGED <<vault, page, told, lastId>>
      BY <1>2 DEF DropOrphans
    <2>2. Held(c)
      BY DEF Held
    <2>3. Registry' /\ Served'
      BY <2>1, RetireKeeps DEF Base
    <2>4. Commands' /\ calm' \subseteq Procs
      <3> HIDE DEF c
      <3> QED
        BY <2>1, <2>2, Goes DEF Base
    <2> QED
      BY <2>1, <2>3, <2>4, FilesStay DEF Base
  <1>3. CASE AddFile(p)
    <2>1. PICK q \in cmd[p].todo :
            /\ ~KeyTaken(q)
            /\ \/ vault[q] # none /\ Registered(q)
               \/ vault[q] = none /\ UNCHANGED <<row, tomb, lastId>>
            /\ Go(p, [at |-> "adding", kind |-> cmd[p].kind, todo |-> cmd[p].todo \ {q}])
      BY <1>3 DEF AddFile
    <2> DEFINE c == [at |-> "adding", kind |-> cmd[p].kind, todo |-> cmd[p].todo \ {q}]
    <2>2. q \in Paths /\ Held(c)
      BY <1>3 DEF AddFile, Held, Base, Commands
    <2>3. UNCHANGED <<vault, page, units, report, node, told>>
      BY <1>3 DEF AddFile
    <2>4. Registry' /\ Served'
      BY <2>1, <2>2, <2>3, RegisteredKeeps, RowsStay, ServedStays DEF Base
    <2>5. Commands' /\ calm' \subseteq Procs
      <3> HIDE DEF c
      <3> QED
        BY <2>1, <2>2, Goes DEF Base, c
    <2> QED
      BY <2>3, <2>4, <2>5, FilesStay DEF Base
  <1>4. CASE AddFails(p)
    BY <1>4, IdleStep, FilesStay, HeldPlain DEF AddFails, Base
  <1>5. CASE SelectL1(p)
    <2> DEFINE k == cmd[p].kind
               S == {i \in Candidates(k) : k = "force" \/ NeedsL1(i)}
               c == [at |-> "selecting", kind |-> k, jobs |-> {Job(i, row[i]) : i \in S}]
    <2>1. /\ row' = IF k = "force" THEN [i \in Live |-> IF i \in S THEN Forced(row[i]) ELSE row[i]] ELSE row
          /\ Go(p, c)
          /\ UNCHANGED <<vault, tomb, page, units, report, node, told, lastId>>
      BY <1>5 DEF SelectL1
    <2>2. \A i \in Live : i \in Ids /\ row[i] \in Rows
      BY DEF Base, Registry
    <2>3. KeepsKeys
      <3> HIDE DEF S
      <3> QED
        BY <2>1, <2>2, ForcedIs DEF KeepsKeys, Live
    <2>4. Held(c)
      <3>1. \A i \in S : i \in Ids /\ row[i] \in Rows
        BY <2>2 DEF Candidates
      <3>2. {Job(i, row[i]) : i \in S} \subseteq Jobs
        <4> HIDE DEF S
        <4> QED
          BY <3>1, JobIs
      <3> HIDE DEF S
      <3> QED
        BY <3>2 DEF Held
    <2> QED
      <3> HIDE DEF c
      <3> QED
        BY <2>1, <2>3, <2>4, RowStep
  <1> QED
    BY <1>1, <1>2, <1>3, <1>4, <1>5 DEF Discover

(* What register_source starts with.                                       *)
LEMMA RegisterIs ==
  ASSUME Base, NEW p \in Procs, NEW S \in SUBSET Live, Register(p, S)
  PROVE  \E i \in S, force \in BOOLEAN :
           LET r == IF force THEN [Forced(row[i]) EXCEPT !.ctx = none] ELSE row[i]
               j == Job(i, [r EXCEPT !.l1 = row[i].l1])
           IN /\ row' = IF force THEN [row EXCEPT ![i] = Forced(row[i])] ELSE row
              /\ j \in Jobs /\ j.id = i /\ j.ctx = r.ctx
              /\ Begin(p, [at |-> "selecting", kind |-> IF force THEN "reforce" ELSE "register", jobs |-> {j}])
              /\ UNCHANGED <<vault, tomb, page, units, report, node, told, lastId>>
  <1>1. PICK i \in S, force \in BOOLEAN :
           LET r == IF force THEN [Forced(row[i]) EXCEPT !.ctx = none] ELSE row[i] IN
           /\ row' = IF force THEN [row EXCEPT ![i] = Forced(@)] ELSE row
           /\ Begin(p, [at |-> "selecting", kind |-> IF force THEN "reforce" ELSE "register",
                        jobs |-> {Job(i, [r EXCEPT !.l1 = row[i].l1])}])
           /\ UNCHANGED <<vault, tomb, page, units, report, node, told, lastId>>
    BY DEF Register
  <1> DEFINE r == IF force THEN [Forced(row[i]) EXCEPT !.ctx = none] ELSE row[i]
             j == Job(i, [r EXCEPT !.l1 = row[i].l1])
  <1>2. i \in Ids /\ row[i] \in Rows
    BY DEF Base, Registry
  <1>3. r \in Rows /\ [r EXCEPT !.l1 = row[i].l1] \in Rows /\ [r EXCEPT !.l1 = row[i].l1].ctx = r.ctx
    <2>1. r \in Rows
      BY <1>2, ForcedIs DEF Rows
    <2> HIDE DEF r
    <2> QED
      BY <1>2, <2>1 DEF Rows
  <1>4. j \in Jobs /\ j.id = i /\ j.ctx = r.ctx
    <2> HIDE DEF r
    <2> QED
      BY <1>2, <1>3, JobIs
  <1> QED
    BY <1>1, <1>4

LEMMA RegisterKeeps ==
  ASSUME Base, NEW p \in Procs, NEW S \in SUBSET Live, Register(p, S)
  PROVE  Base'
  <1>1. PICK i \in S, force \in BOOLEAN :
           LET r == IF force THEN [Forced(row[i]) EXCEPT !.ctx = none] ELSE row[i]
               j == Job(i, [r EXCEPT !.l1 = row[i].l1])
           IN /\ row' = IF force THEN [row EXCEPT ![i] = Forced(row[i])] ELSE row
              /\ j \in Jobs /\ j.id = i /\ j.ctx = r.ctx
              /\ Begin(p, [at |-> "selecting", kind |-> IF force THEN "reforce" ELSE "register", jobs |-> {j}])
              /\ UNCHANGED <<vault, tomb, page, units, report, node, told, lastId>>
    BY RegisterIs
  <1> DEFINE r == IF force THEN [Forced(row[i]) EXCEPT !.ctx = none] ELSE row[i]
             j == Job(i, [r EXCEPT !.l1 = row[i].l1])
             c == [at |-> "selecting", kind |-> IF force THEN "reforce" ELSE "register", jobs |-> {j}]
  <1>2. \A h \in Live : row[h] \in Rows
    BY DEF Base, Registry
  <1>3. KeepsKeys
    BY <1>1, <1>2, ForcedIs DEF KeepsKeys, Live
  <1>4. Held(c)
    <2> HIDE DEF j
    <2> QED
      BY <1>1 DEF Held, j
  <1>5. Begin(p, c) /\ UNCHANGED <<vault, tomb, page, units, report, node, told, lastId>>
    BY <1>1
  <1> HIDE DEF c
  <1> QED
    BY <1>3, <1>4, <1>5, RowStep

LEMMA RetryKeeps ==
  ASSUME Base, NEW p \in Procs, RetryL1(p)
  PROVE  Base'
  <1> DEFINE S == {i \in Live : /\ row[i].reason = "empty_file" \/ row[i].l1 = "error"
                                /\ row[i].status = "error" \/ row[i].why
                                   \/ "error" \in {row[i].l1, row[i].l2, row[i].l3, row[i].l4}}
             c == [at |-> "selecting", kind |-> "retry", jobs |-> {Job(i, row[i]) : i \in S}]
  <1>1. /\ row' = [i \in Live |-> IF i \in S THEN [Restart(row[i]) EXCEPT !.status = "pending", !.reason = "none"]
                                  ELSE row[i]]
        /\ Begin(p, c)
        /\ UNCHANGED <<vault, tomb, page, units, report, node, told, lastId>>
    BY DEF RetryL1
  <1>2. \A i \in Live : i \in Ids /\ row[i] \in Rows
    BY DEF Base, Registry
  <1>3. S \subseteq Live
    OBVIOUS
  <1> HIDE DEF S
  <1>4. ASSUME NEW i \in Live
        PROVE  /\ [Restart(row[i]) EXCEPT !.status = "pending", !.reason = "none"] \in Rows
               /\ [Restart(row[i]) EXCEPT !.status = "pending", !.reason = "none"].key = row[i].key
    <2>1. Restart(row[i]) \in Rows /\ Restart(row[i]).key = row[i].key
      BY <1>2, Restarted
    <2> QED
      BY <2>1 DEF Rows, Statuses
  <1>5. KeepsKeys
    BY <1>1, <1>2, <1>4 DEF KeepsKeys, Live
  <1>6. {Job(i, row[i]) : i \in S} \subseteq Jobs
    BY <1>2, <1>3, JobIs
  <1>7. Held(c)
    BY <1>6 DEF Held
  <1> HIDE DEF c
  <1> QED
    BY <1>1, <1>5, <1>7, RowStep

LEMMA GenerateKeeps ==
  ASSUME Base, NEW p \in Procs, NEW S \in SUBSET Live, Generate(p, S)
  PROVE  Base'
  <1>0. /\ \A i \in Live : row[i] \in Rows
        /\ Held(cmd[p])
    BY DEF Base, Registry, Commands
  <1>1. CASE MarkRunning(p)
    <2>1. PICK j \in cmd[p].jobs :
            /\ IF cmd[p].kind = "retry" \/ j.id \notin Live THEN UNCHANGED row
               ELSE row' = [row EXCEPT ![j.id] = Layer(@, "l1", "running", FALSE)]
            /\ Go(p, [at |-> "parsing", kind |-> cmd[p].kind, jobs |-> cmd[p].jobs \ {j}, job |-> j])
      BY <1>1 DEF MarkRunning
    <2> DEFINE c == [at |-> "parsing", kind |-> cmd[p].kind, jobs |-> cmd[p].jobs \ {j}, job |-> j]
    <2>2. Held(c)
      BY <1>0, <1>1, <2>1 DEF MarkRunning, Held
    <2>3. KeepsKeys
      <3>1. j.id \in Live => /\ Layer(row[j.id], "l1", "running", FALSE) \in Rows
                             /\ Layer(row[j.id], "l1", "running", FALSE).key = row[j.id].key
        BY <1>0, Layered DEF State
      <3> QED
        BY <1>0, <2>1, <3>1 DEF KeepsKeys, Live
    <2>4. UNCHANGED <<vault, tomb, page, units, report, node, told, lastId>>
      BY <1>1 DEF MarkRunning
    <2> HIDE DEF c
    <2> QED
      BY <2>1, <2>2, <2>3, <2>4, RowStep DEF c
  <1>2. CASE WritePage(p)
    <2> DEFINE j == cmd[p].job
    <2>1. /\ cmd[p].at = "parsing" /\ vault[j.path] # none
          /\ UNCHANGED <<vault, row, tomb, units, report, node, told, lastId>>
      BY <1>2 DEF WritePage
    <2>2. PICK c \in Ctxs :
            /\ page' = [page EXCEPT ![c] = [text |-> vault[j.path], hash |-> j.hash]]
            /\ Go(p, [at |-> "linking", kind |-> cmd[p].kind, jobs |-> cmd[p].jobs, job |-> j, ctx |-> c])
      BY <1>2 DEF WritePage
    <2> DEFINE k == [at |-> "linking", kind |-> cmd[p].kind, jobs |-> cmd[p].jobs, job |-> j, ctx |-> c]
    <2>3. j \in Jobs /\ cmd[p].jobs \subseteq Jobs
      BY <1>0, <2>1 DEF Held
    <2>4. Held(k)
      <3> HIDE DEF j
      <3> QED
        BY <2>2, <2>3 DEF Held
    <2>5. vault[j.path] \in Texts /\ j.hash \in Texts
      BY <2>1, <2>3 DEF Jobs, Base, Files
    <2>6. Files'
      BY <2>1, <2>2, <2>5 DEF Files, Base
    <2> HIDE DEF k
    <2> QED
      BY <2>1, <2>2, <2>4, <2>6, IdleStep DEF k
  <1>3. CASE LinkPage(p)
    <2> DEFINE i == cmd[p].job.id
               n == [Layer(row[i], "l1", "done", FALSE) EXCEPT !.ctx = cmd[p].ctx]
    <2>1. /\ cmd[p].at = "linking"
          /\ IF i \in Live THEN row' = [row EXCEPT ![i] = n] /\ Go(p, Next0(cmd[p]))
                           ELSE UNCHANGED row /\ Go(p, Idle)
          /\ UNCHANGED <<vault, tomb, page, units, report, node, told, lastId>>
      BY <1>3 DEF LinkPage
    <2>2. Held(Next0(cmd[p])) /\ cmd[p].ctx \in Ctxs
      BY <1>0, <2>1 DEF Held, Next0
    <2>3. ASSUME i \in Live PROVE n \in Rows /\ n.key = row[i].key
      <3>1. Layer(row[i], "l1", "done", FALSE) \in Rows /\ Layer(row[i], "l1", "done", FALSE).key = row[i].key
        BY <1>0, <2>3, Layered DEF State
      <3> QED
        BY <2>2, <3>1 DEF Rows
    <2>4. KeepsKeys
      <3> HIDE DEF n, i
      <3> QED
        BY <1>0, <2>1, <2>3 DEF KeepsKeys, Live
    <2>5. CASE i \in Live
      BY <2>1, <2>2, <2>4, <2>5, RowStep
    <2>6. CASE i \notin Live
      BY <2>1, <2>4, <2>6, RowStep, HeldPlain
    <2> QED
      BY <2>5, <2>6
  <1>4. CASE L1Fails(p)
    <2> DEFINE j == cmd[p].job
               r == row[j.id]
               e == IF vault[j.path] = none THEN r ELSE Layer(r, "l1", "error", TRUE)
               n == IF j.done /\ j.ctx # none /\ cmd[p].kind \in {"add", "register"} THEN Layer(e, "l1", "done", FALSE)
                    ELSE IF cmd[p].kind \in {"add", "force", "add_all"} THEN Layer(e, "l1", "error", TRUE)
                    ELSE e
    <2>1. /\ cmd[p].at = "parsing" /\ SetRow(j.id, n) /\ Go(p, Next0(cmd[p]))
          /\ UNCHANGED <<vault, tomb, page, units, report, node, told, lastId>>
      BY <1>4 DEF L1Fails
    <2>2. Held(Next0(cmd[p]))
      BY <1>0, <2>1 DEF Held, Next0
    <2>3. ASSUME j.id \in Live PROVE n \in Rows /\ n.key = r.key
      <3>1. r \in Rows
        BY <1>0, <2>3
      <3>2. e \in Rows /\ e.key = r.key
        <4> HIDE DEF r
        <4> QED
          BY <3>1, Layered DEF State
      <3> HIDE DEF e, r
      <3>3. /\ Layer(e, "l1", "done", FALSE) \in Rows /\ Layer(e, "l1", "done", FALSE).key = e.key
            /\ Layer(e, "l1", "error", TRUE) \in Rows /\ Layer(e, "l1", "error", TRUE).key = e.key
        BY <3>2, Layered DEF State
      <3> QED
        BY <3>2, <3>3
    <2>4. KeepsKeys
      <3> HIDE DEF n
      <3> QED
        BY <2>1, <2>3, RowSet DEF Base
    <2> QED
      BY <2>1, <2>2, <2>4, RowStep
  <1>5. CASE EndCommand(p)
    BY <1>5, IdleStep, FilesStay, HeldPlain DEF EndCommand, Base
  <1> QED
    BY <1>1, <1>2, <1>3, <1>4, <1>5, RegisterKeeps, RetryKeeps DEF Generate

LEMMA ReemitKeeps ==
  ASSUME Base, NEW p \in Procs, Reemit(p)
  PROVE  Base'
  <1>1. CASE Remove(p)
    <2>1. PICK i \in Live, unlink \in BOOLEAN :
            /\ Retire({i})
            /\ Begin(p, [at |-> "reading", unlink |-> unlink, path |-> row[i].path])
            /\ UNCHANGED <<vault, page, told, lastId>>
      BY <1>1 DEF Remove
    <2>2. Registry' /\ Served'
      BY <2>1, RetireKeeps DEF Base
    <2>3. Commands' /\ calm' \subseteq Procs
      BY <2>1, Goes, HeldPlain DEF Base
    <2> QED
      BY <2>1, <2>2, <2>3, FilesStay DEF Base
  <1>2. CASE StartReemit(p)
    <2>1. PICK q \in Paths : Begin(p, [at |-> "reading", unlink |-> FALSE, path |-> q])
      BY <1>2 DEF StartReemit
    <2> QED
      BY <1>2, <2>1, IdleStep, FilesStay, HeldPlain DEF StartReemit, Base
  <1>3. CASE ReadStatuses(p)
    <2>1. PICK S, R, C, T : Go(p, Settling(cmd[p], S, R, C, T))
      BY <1>3 DEF ReadStatuses
    <2>2. Held(Settling(cmd[p], S, R, C, T))
      BY HeldPlain DEF Settling
    <2> QED
      BY <1>3, <2>1, <2>2, IdleStep, FilesStay DEF ReadStatuses, Base
  <1>4. CASE SettleRow(p)
    <2>1. PICK t \in cmd[p].rows :
            /\ SetRow(t[1], IF t[1] \in Live THEN Settled(row[t[1]], t[2], t[1] \in cmd[p].serving,
                                       t[1] \in cmd[p].reported, t[1] \in cmd[p].cited) ELSE t[2])
            /\ Go(p, Settling(cmd[p], cmd[p].serving, cmd[p].reported, cmd[p].cited, cmd[p].rows \ {t}))
      BY <1>4 DEF SettleRow
    <2>2. Held(Settling(cmd[p], cmd[p].serving, cmd[p].reported, cmd[p].cited, cmd[p].rows \ {t}))
      BY HeldPlain DEF Settling
    <2>3. \A i \in Live : row[i] \in Rows
      BY DEF Base, Registry
    <2>4. KeepsKeys
      BY <2>1, <2>3, SettledIs, RowSet DEF Base
    <2> QED
      BY <1>4, <2>1, <2>2, <2>4, RowStep DEF SettleRow
  <1>5. CASE ReadContexts(p)
    BY <1>5, IdleStep, FilesStay, HeldPlain DEF ReadContexts, Base
  <1>6. CASE CleanContexts(p)
    <2>1. Files'
      BY <1>6 DEF CleanContexts, Base, Files
    <2> QED
      BY <1>6, <2>1, IdleStep, HeldPlain DEF CleanContexts
  <1>7. CASE Unlink(p)
    <2>1. Files'
      BY <1>7 DEF Unlink, Base, Files
    <2> QED
      BY <1>7, <2>1, IdleStep, HeldPlain DEF Unlink
  <1> QED
    BY <1>1, <1>2, <1>3, <1>4, <1>5, <1>6, <1>7 DEF Reemit

LEMMA PipelineKeeps ==
  ASSUME Base, Pipeline
  PROVE  Base'
  <1>0. /\ \A i \in Live : row[i] \in Rows /\ i \in Ids
        /\ Commands /\ calm \subseteq Procs
    BY DEF Base, Registry
  <1>1. ASSUME KeepsKeys, Served', Run, UNCHANGED <<vault, tomb, page, told, lastId>> PROVE Base'
    BY <1>1, KeysStay, FilesStay, Disturbed DEF Base, Run
  <1>2. CASE Compile
    <2>1. PICK i \in Live :
            /\ \/ /\ vault[row[i].path] # none
                  /\ \E s \in {"done", "skipped"} :
                       /\ row' = [row EXCEPT ![i] = [Layer(@, "l2", s, FALSE) EXCEPT !.status = "curated"]]
                       /\ units' = [units EXCEPT ![i] = IF s = "done" THEN vault[row[i].path] ELSE none]
               \/ /\ row' = [row EXCEPT ![i] = Layer(@, "l2", "error", TRUE)]
                  /\ UNCHANGED units
      BY <1>2 DEF Compile
    <2>2. Run /\ UNCHANGED <<vault, tomb, page, report, node, told, lastId>>
      BY <1>2 DEF Compile
    <2>3. ASSUME NEW s \in State, NEW why \in BOOLEAN
          PROVE  /\ Layer(row[i], "l2", s, why) \in Rows /\ Layer(row[i], "l2", s, why).key = row[i].key
                 /\ [Layer(row[i], "l2", s, why) EXCEPT !.status = "curated"] \in Rows
                 /\ [Layer(row[i], "l2", s, why) EXCEPT !.status = "curated"].key = row[i].key
      <3>1. Layer(row[i], "l2", s, why) \in Rows /\ Layer(row[i], "l2", s, why).key = row[i].key
        BY <1>0, Layered
      <3> QED
        BY <3>1 DEF Rows, Statuses
    <2>4. {"done", "skipped", "error"} \subseteq State
      BY DEF State
    <2>5. KeepsKeys
      <3>1. PICK r : row' = [row EXCEPT ![i] = r] /\ r \in Rows /\ r.key = row[i].key
        <4>1. CASE row' = [row EXCEPT ![i] = Layer(row[i], "l2", "error", TRUE)]
          BY <4>1, <2>3, <2>4
        <4>2. CASE \E s \in {"done", "skipped"} :
                     row' = [row EXCEPT ![i] = [Layer(row[i], "l2", s, FALSE) EXCEPT !.status = "curated"]]
          <5>1. PICK s \in {"done", "skipped"} :
                     row' = [row EXCEPT ![i] = [Layer(row[i], "l2", s, FALSE) EXCEPT !.status = "curated"]]
            BY <4>2
          <5> DEFINE r == [Layer(row[i], "l2", s, FALSE) EXCEPT !.status = "curated"]
          <5>2. r \in Rows /\ r.key = row[i].key
            BY <2>3, <2>4
          <5> HIDE DEF r
          <5> QED
            BY <5>1, <5>2 DEF r
        <4> QED
          BY <2>1, <4>1, <4>2
      <3> QED
        BY <1>0, <3>1 DEF KeepsKeys, Live
    <2>6. Live' = Live
      BY <2>5 DEF KeepsKeys, Live
    <2>7. units' \in [Ids -> Texts \cup {none}] /\ \A h \in Ids \ Live : units'[h] = units[h]
      BY <1>0, <2>1 DEF Base, Served, Files, Rows
    <2>8. Served'
      BY <2>2, <2>6, <2>7 DEF Base, Served, ClosureGone
    <2> QED
      BY <1>1, <2>2, <2>5, <2>8
  <1>3. CASE Cluster
    <2>1. PICK l3bad, l4bad \in BOOLEAN, R \in SUBSET {i \in Live : units[i] # none}, n \in BOOLEAN :
            /\ n => R # {}
            /\ report' = R /\ node' = n
            /\ row' = Clustered(l3bad, l4bad, R, n)
            /\ Run
            /\ UNCHANGED <<vault, tomb, page, units, told, lastId>>
      BY <1>3 DEF Cluster
    <2>2. ASSUME NEW i \in Live
          PROVE  row'[i] \in Rows /\ row'[i].key = row[i].key
      <3> DEFINE why == l3bad \/ l4bad
                 l3 == IF l3bad THEN "error" ELSE IF i \in R THEN "done" ELSE "skipped"
                 l4 == IF l4bad THEN "error" ELSE IF n /\ i \in R THEN "done" ELSE "skipped"
      <3>1. row'[i] = IF row[i].l2 # "done" THEN row[i] ELSE [row[i] EXCEPT !.why = why, !.l3 = l3, !.l4 = l4]
        BY <2>1 DEF Clustered
      <3>2. why \in BOOLEAN
        OBVIOUS
      <3>3. l3 \in State /\ l4 \in State
        BY DEF State
      <3> HIDE DEF why, l3, l4
      <3>4. /\ [row[i] EXCEPT !.why = why, !.l3 = l3, !.l4 = l4] \in Rows
            /\ [row[i] EXCEPT !.why = why, !.l3 = l3, !.l4 = l4].key = row[i].key
        BY <1>0, <3>2, <3>3 DEF Rows
      <3> QED
        BY <1>0, <3>1, <3>4
    <2>3. DOMAIN row' = Live
      BY <2>1 DEF Clustered
    <2>4. KeepsKeys
      BY <2>2, <2>3 DEF KeepsKeys
    <2>5. Live' = Live
      BY <2>3 DEF Live
    <2>6. report' \subseteq Live /\ report' \subseteq Ids /\ node' \in BOOLEAN /\ (node' => report' # {})
      BY <2>1, <1>0
    <2>7. Served'
      BY <2>1, <2>5, <2>6 DEF Base, Served, ClosureGone
    <2> QED
      BY <1>1, <2>1, <2>4, <2>7
  <1>4. CASE MarkGaps
    <2>1. /\ row' = [i \in Live |-> IF row[i].l2 # "done" THEN row[i]
                                    ELSE [row[i] EXCEPT !.l3 = "error", !.why = TRUE, !.l4 = "pending"]]
          /\ Run
          /\ UNCHANGED <<vault, tomb, page, units, report, node, told, lastId>>
      BY <1>4 DEF MarkGaps
    <2>2. \A i \in Live : /\ [row[i] EXCEPT !.l3 = "error", !.why = TRUE, !.l4 = "pending"] \in Rows
                          /\ [row[i] EXCEPT !.l3 = "error", !.why = TRUE, !.l4 = "pending"].key = row[i].key
      BY ZenonT(60), <1>0 DEF Rows, State
    <2>3. KeepsKeys
      BY <1>0, <2>1, <2>2 DEF KeepsKeys
    <2>4. Live' = Live
      BY <2>1 DEF Live
    <2> QED
      BY <1>1, <2>1, <2>3, <2>4, ServedStays DEF Base
  <1> QED
    BY <1>2, <1>3, <1>4 DEF Pipeline

LEMMA PluginKeeps ==
  ASSUME Base, Plugin
  PROVE  Base'
  <1>0. /\ \A i \in Live : row[i] \in Rows
        /\ Commands /\ calm \subseteq Procs /\ Files
    BY DEF Base, Registry
  <1>1. ASSUME KeepsKeys, Disturb, told' \subseteq told,
               UNCHANGED <<vault, tomb, page, units, report, node, lastId>>
        PROVE  Base'
    <2>1. Registry' /\ Live' = Live
      BY <1>1, KeysStay DEF Base
    <2>2. Files'
      BY <1>1 DEF Base, Files
    <2> QED
      BY <1>1, <2>1, <2>2, ServedStays, Disturbed DEF Base
  <1>2. CASE RelocateSource
    <2>1. PICK t \in told :
            /\ t[2] # none
            /\ row' = IF At(t[2]) = {}
                      THEN [i \in Live |-> IF i \in At(t[1]) THEN [row[i] EXCEPT !.path = t[2]] ELSE row[i]]
                      ELSE row
            /\ told' = told \ {t}
            /\ Disturb
            /\ UNCHANGED <<vault, tomb, page, units, report, node, lastId>>
      BY <1>2 DEF RelocateSource
    <2>2. t[2] \in Paths
      BY <1>0, <2>1 DEF Files
    <2>3. \A i \in Live : /\ [row[i] EXCEPT !.path = t[2]] \in Rows
                          /\ [row[i] EXCEPT !.path = t[2]].key = row[i].key
      BY <1>0, <2>2 DEF Rows
    <2>4. KeepsKeys
      BY <1>0, <2>1, <2>3 DEF KeepsKeys, Live
    <2> QED
      BY <1>1, <2>1, <2>4
  <1>3. CASE MarkMissing
    <2>1. PICK t \in told :
            /\ row' = [i \in Live |-> IF i \in At(t[1]) THEN [row[i] EXCEPT !.reason = "file_missing"] ELSE row[i]]
            /\ told' = told \ {t}
            /\ Disturb
            /\ UNCHANGED <<vault, tomb, page, units, report, node, lastId>>
      BY <1>3 DEF MarkMissing
    <2>2. \A i \in Live : /\ [row[i] EXCEPT !.reason = "file_missing"] \in Rows
                          /\ [row[i] EXCEPT !.reason = "file_missing"].key = row[i].key
      BY <1>0 DEF Rows
    <2>3. KeepsKeys
      BY <1>0, <2>1, <2>2 DEF KeepsKeys
    <2> QED
      BY <1>1, <2>1, <2>3
  <1> QED
    BY <1>2, <1>3 DEF Plugin

LEMMA UserKeeps ==
  ASSUME Base, User
  PROVE  Base'
  <1>1. ASSUME NEW v \in [Paths -> Texts \cup {none}], Edited(v), told' \subseteq Paths \X (Paths \cup {none})
        PROVE  Base'
    <2>1. /\ vault' = v /\ Disturb /\ UNCHANGED <<row, tomb, page, units, report, node, lastId>>
      BY <1>1 DEF Edited
    <2>2. Files'
      BY <1>1, <2>1 DEF Base, Files
    <2> QED
      BY <2>1, <2>2, RowsStay, ServedStays, Disturbed DEF Base
  <1>2. /\ vault \in [Paths -> Texts \cup {none}]
        /\ told \subseteq Paths \X (Paths \cup {none})
    BY DEF Base, Files
  <1>3. CASE WriteFile
    BY <1>1, <1>2, <1>3 DEF WriteFile
  <1>4. CASE DeleteFile
    <2>1. PICK q \in Paths : /\ Edited([vault EXCEPT ![q] = none])
                             /\ told' \in {told, told \cup {<<q, none>>}}
      BY <1>4 DEF DeleteFile
    <2>2. [vault EXCEPT ![q] = none] \in [Paths -> Texts \cup {none}]
      BY <1>2
    <2>3. told' \subseteq Paths \X (Paths \cup {none})
      BY <1>2, <2>1
    <2> QED
      BY <1>1, <2>1, <2>2, <2>3
  <1>5. CASE RenameFile
    <2>1. PICK q, r \in Paths : /\ Edited([vault EXCEPT ![q] = none, ![r] = vault[q]])
                                /\ told' \in {told, told \cup {<<q, r>>}}
      BY <1>5 DEF RenameFile
    <2>2. [vault EXCEPT ![q] = none, ![r] = vault[q]] \in [Paths -> Texts \cup {none}]
      BY <1>2
    <2>3. told' \subseteq Paths \X (Paths \cup {none})
      BY <1>2, <2>1
    <2> QED
      BY <1>1, <2>1, <2>2, <2>3
  <1> QED
    BY <1>3, <1>4, <1>5 DEF User

LEMMA InitBase == Init => Base
  <1> SUFFICES ASSUME Init PROVE Base
    OBVIOUS
  <1>1. Live = {} /\ lastId = 0 /\ tomb = {} /\ units = [i \in Ids |-> none] /\ report = {} /\ node = FALSE
    BY DEF Init, Live
  <1>2. Registry
    BY <1>1 DEF Registry, KeysApart, KeyLivesOrDied
  <1>3. Served
    BY <1>1 DEF Served, ClosureGone
  <1>4. Files
    BY DEF Init, Files
  <1>5. Commands /\ calm \subseteq Procs
    BY HeldPlain DEF Init, Commands
  <1> QED
    BY <1>2, <1>3, <1>4, <1>5 DEF Base

LEMMA StutterBase ==
  ASSUME Base, UNCHANGED vars
  PROVE  Base'
  BY RowsStay, ServedStays, FilesStay DEF Base, vars, Commands

LEMMA NextKeeps == Base /\ [Next]_vars => Base'
  <1> SUFFICES ASSUME Base, [Next]_vars PROVE Base'
    OBVIOUS
  <1>1. ASSUME NEW p \in Procs, Command(p, Live) PROVE Base'
    BY <1>1, DiscoverKeeps, GenerateKeeps, ReemitKeeps DEF Command
  <1> QED
    BY <1>1, PipelineKeeps, PluginKeeps, UserKeeps, StutterBase DEF Next

LEMMA BaseMeans == Base => TypeOK /\ KeyLivesOrDied /\ ClosureGone
  BY DEF Base, Registry, Served, Files, TypeOK

(* However commands overlap, and whatever the user and the plugin do       *)
(* meanwhile, a key is a live source's or a deleted one's and never both   *)
(* (add_file takes the tombstone back, the deletion writes it), and what   *)
(* is served never comes from a source that is gone.                       *)
THEOREM GoneLeavesNothing == Spec => [](TypeOK /\ KeyLivesOrDied /\ ClosureGone)
  BY InitBase, NextKeeps, BaseMeans, PTL DEF Spec

-----------------------------------------------------------------------------
(* Commands one at a time *)

Alone == \A p, o \in Procs : p # o => At0(p) \/ At0(o)

\* a Context that a job knows of is still there
Knows(rows, j) == j.id \in DOMAIN rows /\ j.ctx # none => rows[j.id].ctx # none

KnowsJobs(rows, c) ==
  c.at \in {"selecting", "parsing", "linking"} /\ c.kind \in {"add", "register"} =>
    /\ \A j \in c.jobs : Knows(rows, j)
    /\ c.at = "parsing" => Knows(rows, c.job)

CalmInv == Base /\ DoneHasContext /\ Alone /\ \A p \in Procs : KnowsJobs(row, cmd[p])

Quiet(p) == \A o \in Procs \ {p} : At0(o)

LEMMA CalmStep ==
  ASSUME CalmInv, Base', NEW p \in Procs, NEW c, Quiet(p), Go(p, c) \/ Begin(p, c),
         DoneHasContext', KnowsJobs(row', c)
  PROVE  CalmInv'
  <1>1. DOMAIN cmd = Procs
    BY DEF CalmInv, Base, Commands
  <1>2. cmd'[p] = c /\ \A o \in Procs \ {p} : cmd'[o] = cmd[o]
    BY <1>1 DEF Go, Begin
  <1>3. \A o \in Procs \ {p} : cmd'[o].at = "idle"
    BY <1>2 DEF Quiet, At0
  <1>4. Alone'
    BY <1>3 DEF Alone, At0
  <1>5. \A o \in Procs : KnowsJobs(row', cmd'[o])
    BY <1>2, <1>3 DEF KnowsJobs
  <1> QED
    BY <1>4, <1>5 DEF CalmInv

(* A command that is not about to generate an L1 knows of no job.          *)
LEMMA KnowsNone ==
  /\ \A rows : KnowsJobs(rows, Idle)
  /\ \A rows, c : c.at \in {"scanning", "adding", "reading", "settling", "cleaning", "unlinking"}
                  => KnowsJobs(rows, c)
  /\ \A rows, c : c.kind \in {"force", "add_all", "reforce", "retry"} => KnowsJobs(rows, c)
  BY DEF KnowsJobs, Idle

(* A step that leaves every row its Context and its L1.                    *)
KeepsContexts ==
  /\ DOMAIN row' \subseteq Live
  /\ \A i \in DOMAIN row' : row'[i].ctx = row[i].ctx /\ row'[i].l1 \in {row[i].l1, "pending", "running", "error"}

LEMMA ContextsStay ==
  ASSUME KeepsContexts, DoneHasContext
  PROVE  DoneHasContext' /\ \A j : Knows(row, j) => Knows(row', j)
  BY DEF KeepsContexts, DoneHasContext, Knows, Live

LEMMA SameRows ==
  ASSUME UNCHANGED row
  PROVE  KeepsContexts
  BY DEF KeepsContexts, Live

LEMMA CalmDiscover ==
  ASSUME CalmInv, NEW p \in Procs, Quiet(p), Discover(p)
  PROVE  CalmInv'
  <1>0. Base /\ DoneHasContext /\ Base' /\ \A i \in Live : row[i] \in Rows
    BY DiscoverKeeps DEF CalmInv, Base, Registry
  <1>1. CASE StartScan(p)
    <2>1. PICK k \in {"add", "force", "add_all"} :
            Begin(p, [at |-> "scanning", kind |-> k, seen |-> {<<i, row[i].path>> : i \in Live}])
      BY <1>1 DEF StartScan
    <2>2. DoneHasContext'
      BY <1>0, <1>1, SameRows, ContextsStay DEF StartScan
    <2> QED
      BY <1>0, <2>1, <2>2, CalmStep, KnowsNone
  <1>2. CASE DropOrphans(p)
    <2>1. KeepsContexts
      BY <1>2 DEF DropOrphans, Retire, Restrict, KeepsContexts, Live
    <2>2. DoneHasContext'
      BY <1>0, <2>1, ContextsStay
    <2> QED
      BY <1>0, <1>2, <2>2, CalmStep, KnowsNone DEF DropOrphans
  <1>3. CASE AddFile(p)
    <2>1. PICK q \in cmd[p].todo :
            /\ ~KeyTaken(q)
            /\ \/ vault[q] # none /\ Registered(q)
               \/ vault[q] = none /\ UNCHANGED <<row, tomb, lastId>>
            /\ Go(p, [at |-> "adding", kind |-> cmd[p].kind, todo |-> cmd[p].todo \ {q}])
      BY <1>3 DEF AddFile
    <2>2. q \in Paths
      BY <1>0, <1>3 DEF AddFile, Held, Base, Commands
    <2>3. DoneHasContext'
      <3>1. CASE UNCHANGED row
        BY <1>0, <3>1, SameRows, ContextsStay
      <3>2. CASE vault[q] # none /\ \E i \in At(q) : row' = [row EXCEPT ![i] = [Anew(@) EXCEPT !.hash = vault[q]]]
        <4>1. PICK i \in At(q) : row' = [row EXCEPT ![i] = [Anew(@) EXCEPT !.hash = vault[q]]]
          BY <3>2
        <4> DEFINE r == [Anew(row[i]) EXCEPT !.hash = vault[q]]
        <4>2. i \in Live /\ row[i] \in Rows /\ row' = [row EXCEPT ![i] = r]
          BY <1>0, <4>1 DEF At
        <4>3. Anew(row[i]) \in Rows /\ Anew(row[i]).l1 = "pending"
          BY <4>2, AnewIs
        <4>4. r.l1 = "pending"
          BY <4>3 DEF Rows
        <4> HIDE DEF r
        <4> QED
          BY <1>0, <4>2, <4>4 DEF DoneHasContext, Live
      <3>3. CASE /\ vault[q] # none
                 /\ row' = [i \in Live \cup {lastId + 1} |-> IF i \in Live THEN row[i] ELSE New(q)]
        <4>1. New(q).l1 # "done"
          BY <1>0, <2>2, <3>3, NewIs DEF Base
        <4> QED
          BY <1>0, <3>3, <4>1 DEF DoneHasContext, Live
      <3> QED
        BY <2>1, <3>1, <3>2, <3>3 DEF Registered
    <2> QED
      BY <1>0, <2>1, <2>3, CalmStep, KnowsNone
  <1>4. CASE AddFails(p)
    BY <1>0, <1>4, CalmStep, KnowsNone, SameRows, ContextsStay DEF AddFails
  <1>5. CASE SelectL1(p)
    <2> DEFINE k == cmd[p].kind
               S == {i \in Candidates(k) : k = "force" \/ NeedsL1(i)}
               c == [at |-> "selecting", kind |-> k, jobs |-> {Job(i, row[i]) : i \in S}]
    <2>1. /\ row' = IF k = "force" THEN [i \in Live |-> IF i \in S THEN Forced(row[i]) ELSE row[i]] ELSE row
          /\ Go(p, c)
      BY <1>5 DEF SelectL1
    <2>2. KeepsContexts
      <3> HIDE DEF S
      <3> QED
        BY <1>0, <2>1, ForcedIs DEF KeepsContexts, Live
    <2>3. \A j \in c.jobs : Knows(row, j)
      <3>1. \A i \in S : i \in Live
        BY DEF Candidates
      <3> HIDE DEF S
      <3>2. \A i \in S : Job(i, row[i]).id = i /\ Job(i, row[i]).ctx = row[i].ctx
        BY DEF Job
      <3> QED
        BY <3>2 DEF Knows
    <2>4. KnowsJobs(row', c)
      <3>1. c.at = "selecting"
        OBVIOUS
      <3> HIDE DEF c
      <3> QED
        BY <1>0, <2>2, <2>3, <3>1, ContextsStay DEF KnowsJobs
    <2>5. DoneHasContext'
      BY <1>0, <2>2, ContextsStay
    <2> HIDE DEF c
    <2> QED
      BY <1>0, <2>1, <2>4, <2>5, CalmStep
  <1> QED
    BY <1>1, <1>2, <1>3, <1>4, <1>5 DEF Discover

LEMMA CalmGenerate ==
  ASSUME CalmInv, NEW p \in Procs, NEW S \in SUBSET Live, Quiet(p), Generate(p, S)
  PROVE  CalmInv'
  <1>0. /\ Base /\ DoneHasContext /\ Base' /\ \A i \in Live : row[i] \in Rows
        /\ Held(cmd[p]) /\ KnowsJobs(row, cmd[p])
    BY GenerateKeeps DEF CalmInv, Base, Registry, Commands
  <1>1. CASE Register(p, S)
    <2>1. PICK i \in S, force \in BOOLEAN :
           LET r == IF force THEN [Forced(row[i]) EXCEPT !.ctx = none] ELSE row[i]
               j == Job(i, [r EXCEPT !.l1 = row[i].l1])
           IN /\ row' = IF force THEN [row EXCEPT ![i] = Forced(row[i])] ELSE row
              /\ j \in Jobs /\ j.id = i /\ j.ctx = r.ctx
              /\ Begin(p, [at |-> "selecting", kind |-> IF force THEN "reforce" ELSE "register", jobs |-> {j}])
              /\ UNCHANGED <<vault, tomb, page, units, report, node, told, lastId>>
      BY <1>0, <1>1, RegisterIs
    <2> DEFINE r == IF force THEN [Forced(row[i]) EXCEPT !.ctx = none] ELSE row[i]
               j == Job(i, [r EXCEPT !.l1 = row[i].l1])
               c == [at |-> "selecting", kind |-> IF force THEN "reforce" ELSE "register", jobs |-> {j}]
    <2>2. Begin(p, c)
      BY <2>1
    <2>3. KeepsContexts
      BY <1>0, <2>1, ForcedIs DEF KeepsContexts, Live
    <2>4. KnowsJobs(row', c)
      <3>1. CASE force
        BY <3>1, KnowsNone
      <3>2. CASE ~force
        <4>1. row' = row /\ j.id = i /\ j.ctx = row[i].ctx
          BY <2>1, <3>2
        <4> HIDE DEF j
        <4> QED
          BY <4>1 DEF KnowsJobs, Knows
      <3> QED
        BY <3>1, <3>2
    <2>5. DoneHasContext'
      BY <1>0, <2>3, ContextsStay
    <2> HIDE DEF c
    <2> QED
      BY <1>0, <2>2, <2>4, <2>5, CalmStep
  <1>2. CASE RetryL1(p)
    <2>1. PICK J, T : /\ row' = [i \in Live |-> IF i \in T
                                   THEN [Restart(row[i]) EXCEPT !.status = "pending", !.reason = "none"] ELSE row[i]]
                      /\ Begin(p, [at |-> "selecting", kind |-> "retry", jobs |-> J])
      BY <1>2 DEF RetryL1
    <2>2. ASSUME NEW i \in Live
          PROVE  /\ [Restart(row[i]) EXCEPT !.status = "pending", !.reason = "none"].ctx = row[i].ctx
                 /\ [Restart(row[i]) EXCEPT !.status = "pending", !.reason = "none"].l1 = "pending"
      <3>1. Restart(row[i]) \in Rows /\ Restart(row[i]).ctx = row[i].ctx /\ Restart(row[i]).l1 = "pending"
        BY <1>0, Restarted
      <3> QED
        BY <3>1 DEF Rows
    <2>3. KeepsContexts
      BY <2>1, <2>2 DEF KeepsContexts
    <2> DEFINE c == [at |-> "selecting", kind |-> "retry", jobs |-> J]
    <2>4. KnowsJobs(row', c)
      BY KnowsNone
    <2>5. DoneHasContext'
      BY <1>0, <2>3, ContextsStay
    <2> HIDE DEF c
    <2> QED
      BY <1>0, <2>1, <2>4, <2>5, CalmStep DEF c
  <1>3. CASE MarkRunning(p)
    <2>1. PICK j \in cmd[p].jobs :
            /\ IF cmd[p].kind = "retry" \/ j.id \notin Live THEN UNCHANGED row
               ELSE row' = [row EXCEPT ![j.id] = Layer(@, "l1", "running", FALSE)]
            /\ Go(p, [at |-> "parsing", kind |-> cmd[p].kind, jobs |-> cmd[p].jobs \ {j}, job |-> j])
      BY <1>3 DEF MarkRunning
    <2> DEFINE c == [at |-> "parsing", kind |-> cmd[p].kind, jobs |-> cmd[p].jobs \ {j}, job |-> j]
    <2>2. j.id \in Live => /\ Layer(row[j.id], "l1", "running", FALSE).ctx = row[j.id].ctx
                           /\ Layer(row[j.id], "l1", "running", FALSE).l1 = "running"
      BY <1>0, Layered DEF State
    <2>3. KeepsContexts
      BY <2>1, <2>2 DEF KeepsContexts, Live
    <2>4. KnowsJobs(row', c)
      BY <1>0, <1>3, <2>1, <2>3, ContextsStay DEF KnowsJobs, MarkRunning
    <2> HIDE DEF c
    <2> QED
      BY <1>0, <2>1, <2>3, <2>4, ContextsStay, CalmStep DEF c
  <1>4. CASE WritePage(p)
    <2>1. PICK d \in Ctxs : Go(p, [at |-> "linking", kind |-> cmd[p].kind, jobs |-> cmd[p].jobs,
                                   job |-> cmd[p].job, ctx |-> d])
      BY <1>4 DEF WritePage
    <2> DEFINE c == [at |-> "linking", kind |-> cmd[p].kind, jobs |-> cmd[p].jobs, job |-> cmd[p].job, ctx |-> d]
    <2>2. cmd[p].at = "parsing" /\ row' = row
      BY <1>4 DEF WritePage
    <2>3. KnowsJobs(row', c)
      BY <1>0, <2>2 DEF KnowsJobs
    <2> HIDE DEF c
    <2> QED
      BY <1>0, <2>1, <2>2, <2>3, SameRows, ContextsStay, CalmStep DEF c
  <1>5. CASE LinkPage(p)
    <2> DEFINE i == cmd[p].job.id
               n == [Layer(row[i], "l1", "done", FALSE) EXCEPT !.ctx = cmd[p].ctx]
    <2>1. /\ cmd[p].at = "linking"
          /\ IF i \in Live THEN row' = [row EXCEPT ![i] = n] /\ Go(p, Next0(cmd[p]))
                           ELSE UNCHANGED row /\ Go(p, Idle)
      BY <1>5 DEF LinkPage
    <2>2. cmd[p].ctx \in Ctxs /\ cmd[p].ctx # none
      BY <1>0, <2>1, IdAssumption DEF Held
    <2>3. CASE i \in Live
      <3>1. n.ctx # none
        <4>1. Layer(row[i], "l1", "done", FALSE) \in Rows
          BY <1>0, <2>3, Layered DEF State
        <4> QED
          BY <2>2, <4>1 DEF Rows
      <3>2. row' = [row EXCEPT ![i] = n] /\ Go(p, Next0(cmd[p]))
        BY <2>1, <2>3
      <3> HIDE DEF n
      <3>3. DoneHasContext' /\ \A j : Knows(row, j) => Knows(row', j)
        BY <1>0, <3>1, <3>2 DEF DoneHasContext, Knows, Live
      <3>4. KnowsJobs(row', Next0(cmd[p]))
        BY <1>0, <2>1, <3>3 DEF KnowsJobs, Next0
      <3> QED
        BY <1>0, <3>2, <3>3, <3>4, CalmStep
    <2>4. CASE i \notin Live
      BY <1>0, <2>1, <2>4, SameRows, ContextsStay, CalmStep, KnowsNone
    <2> QED
      BY <2>3, <2>4
  <1>6. CASE L1Fails(p)
    <2> DEFINE j == cmd[p].job
               r == row[j.id]
               e == IF vault[j.path] = none THEN r ELSE Layer(r, "l1", "error", TRUE)
               old == j.done /\ j.ctx # none /\ cmd[p].kind \in {"add", "register"}
               n == IF old THEN Layer(e, "l1", "done", FALSE)
                    ELSE IF cmd[p].kind \in {"add", "force", "add_all"} THEN Layer(e, "l1", "error", TRUE)
                    ELSE e
    <2>1. cmd[p].at = "parsing" /\ SetRow(j.id, n) /\ Go(p, Next0(cmd[p]))
      BY <1>6 DEF L1Fails
    <2>2. ASSUME j.id \in Live
          PROVE  n.ctx = r.ctx /\ (n.l1 = "done" => r.ctx # none)
      <3>1. r \in Rows /\ (r.l1 = "done" => r.ctx # none)
        BY <1>0, <2>2 DEF DoneHasContext
      <3>2. old => r.ctx # none
        BY <1>0, <2>1, <2>2 DEF KnowsJobs, Knows, Live
      <3>3. e \in Rows /\ e.ctx = r.ctx /\ (e.l1 = "done" => r.ctx # none)
        <4> HIDE DEF r
        <4>1. /\ Layer(r, "l1", "error", TRUE) \in Rows /\ Layer(r, "l1", "error", TRUE).ctx = r.ctx
              /\ Layer(r, "l1", "error", TRUE).l1 = "error"
          BY <3>1, Layered DEF State
        <4> QED
          BY <3>1, <4>1
      <3> HIDE DEF e, r, old
      <3>4. /\ Layer(e, "l1", "done", FALSE).ctx = e.ctx
            /\ Layer(e, "l1", "error", TRUE).ctx = e.ctx /\ Layer(e, "l1", "error", TRUE).l1 = "error"
        BY <3>3, Layered DEF State
      <3> QED
        BY <3>2, <3>3, <3>4
    <2> HIDE DEF n
    <2>3. DoneHasContext' /\ \A k : Knows(row, k) => Knows(row', k)
      BY <1>0, <2>1, <2>2 DEF SetRow, DoneHasContext, Knows, Live
    <2>4. KnowsJobs(row', Next0(cmd[p]))
      BY <1>0, <2>1, <2>3 DEF KnowsJobs, Next0
    <2> QED
      BY <1>0, <2>1, <2>3, <2>4, CalmStep
  <1>7. CASE EndCommand(p)
    BY <1>0, <1>7, CalmStep, KnowsNone, SameRows, ContextsStay DEF EndCommand
  <1> QED
    BY <1>1, <1>2, <1>3, <1>4, <1>5, <1>6, <1>7 DEF Generate

LEMMA CalmReemit ==
  ASSUME CalmInv, NEW p \in Procs, Quiet(p), Reemit(p)
  PROVE  CalmInv'
  <1>0. Base /\ DoneHasContext /\ Base' /\ \A i \in Live : row[i] \in Rows
    BY ReemitKeeps DEF CalmInv, Base, Registry
  <1>1. CASE Remove(p)
    <2>1. PICK i \in Live, unlink \in BOOLEAN :
            /\ Retire({i})
            /\ Begin(p, [at |-> "reading", unlink |-> unlink, path |-> row[i].path])
      BY <1>1 DEF Remove
    <2>2. KeepsContexts
      BY <2>1 DEF Retire, Restrict, KeepsContexts, Live
    <2> QED
      BY <1>0, <2>1, <2>2, ContextsStay, CalmStep, KnowsNone
  <1>2. CASE StartReemit(p)
    <2>1. PICK q \in Paths : Begin(p, [at |-> "reading", unlink |-> FALSE, path |-> q])
      BY <1>2 DEF StartReemit
    <2>2. DoneHasContext'
      BY <1>0, <1>2, SameRows, ContextsStay DEF StartReemit
    <2> QED
      BY <1>0, <2>1, <2>2, CalmStep, KnowsNone
  <1>3. CASE ReadStatuses(p)
    <2>1. PICK S, R, C, T : Go(p, Settling(cmd[p], S, R, C, T))
      BY <1>3 DEF ReadStatuses
    <2>2. KnowsJobs(row', Settling(cmd[p], S, R, C, T))
      BY KnowsNone DEF Settling
    <2>3. DoneHasContext'
      BY <1>0, <1>3, SameRows, ContextsStay DEF ReadStatuses
    <2> QED
      BY <1>0, <2>1, <2>2, <2>3, CalmStep
  <1>4. CASE SettleRow(p)
    <2>1. PICK t \in cmd[p].rows :
            /\ SetRow(t[1], IF t[1] \in Live THEN Settled(row[t[1]], t[2], t[1] \in cmd[p].serving,
                                       t[1] \in cmd[p].reported, t[1] \in cmd[p].cited) ELSE t[2])
            /\ Go(p, Settling(cmd[p], cmd[p].serving, cmd[p].reported, cmd[p].cited, cmd[p].rows \ {t}))
      BY <1>4 DEF SettleRow
    <2>2. KnowsJobs(row', Settling(cmd[p], cmd[p].serving, cmd[p].reported, cmd[p].cited, cmd[p].rows \ {t}))
      BY KnowsNone DEF Settling
    <2> DEFINE n == Settled(row[t[1]], t[2], t[1] \in cmd[p].serving, t[1] \in cmd[p].reported, t[1] \in cmd[p].cited)
    <2>3. t[1] \in Live => n.ctx = row[t[1]].ctx /\ n.l1 = row[t[1]].l1
      BY <1>0, SettledIs
    <2>4. SetRow(t[1], IF t[1] \in Live THEN n ELSE t[2])
      BY <2>1
    <2> HIDE DEF n
    <2>5. KeepsContexts
      BY <2>3, <2>4 DEF SetRow, KeepsContexts, Live
    <2>6. DoneHasContext'
      BY <1>0, <2>5, ContextsStay
    <2> QED
      BY <1>0, <2>1, <2>2, <2>6, CalmStep
  <1>5. CASE ReadContexts(p)
    <2>1. DoneHasContext'
      BY <1>0, <1>5, SameRows, ContextsStay DEF ReadContexts
    <2> QED
      BY <1>0, <1>5, <2>1, CalmStep, KnowsNone DEF ReadContexts
  <1>6. CASE CleanContexts(p)
    <2>1. DoneHasContext'
      BY <1>0, <1>6, SameRows, ContextsStay DEF CleanContexts
    <2> QED
      BY <1>0, <1>6, <2>1, CalmStep, KnowsNone DEF CleanContexts
  <1>7. CASE Unlink(p)
    <2>1. DoneHasContext'
      BY <1>0, <1>7, SameRows, ContextsStay DEF Unlink
    <2> QED
      BY <1>0, <1>7, <2>1, CalmStep, KnowsNone DEF Unlink
  <1> QED
    BY <1>1, <1>2, <1>3, <1>4, <1>5, <1>6, <1>7 DEF Reemit

(* A step of the world changes no Context and no L1.                       *)
LEMMA CalmWorld ==
  ASSUME CalmInv, Pipeline \/ Plugin \/ User
  PROVE  CalmInv'
  <1>0. /\ Base /\ DoneHasContext /\ Base' /\ \A i \in Live : row[i] \in Rows
        /\ Alone /\ \A p \in Procs : KnowsJobs(row, cmd[p])
    BY PipelineKeeps, PluginKeeps, UserKeeps DEF CalmInv, Base, Registry
  <1>1. UNCHANGED cmd
    BY DEF Pipeline, Compile, Cluster, MarkGaps, Run, Plugin, RelocateSource, MarkMissing,
           User, WriteFile, DeleteFile, RenameFile, Edited, Disturb
  <1>2. KeepsContexts
    <2>1. CASE Compile
      <3>1. PICK i \in Live : \E r :
              /\ row' = [row EXCEPT ![i] = r]
              /\ \/ \E s \in {"done", "skipped"} : r = [Layer(row[i], "l2", s, FALSE) EXCEPT !.status = "curated"]
                 \/ r = Layer(row[i], "l2", "error", TRUE)
        BY <2>1 DEF Compile
      <3>2. PICK r : /\ row' = [row EXCEPT ![i] = r]
                     /\ \/ \E s \in {"done", "skipped"} : r = [Layer(row[i], "l2", s, FALSE) EXCEPT !.status = "curated"]
                        \/ r = Layer(row[i], "l2", "error", TRUE)
        BY <3>1
      <3>3. \A s \in {"done", "skipped", "error"}, why \in BOOLEAN :
              LET l == Layer(row[i], "l2", s, why) IN l \in Rows /\ l.ctx = row[i].ctx /\ l.l1 = row[i].l1
        BY SMTT(30), <1>0, Layered DEF State
      <3>4. r.ctx = row[i].ctx /\ r.l1 = row[i].l1
        <4>1. CASE r = Layer(row[i], "l2", "error", TRUE)
          BY <3>3, <4>1
        <4>2. ASSUME NEW s \in {"done", "skipped"}, r = [Layer(row[i], "l2", s, FALSE) EXCEPT !.status = "curated"]
              PROVE  r.ctx = row[i].ctx /\ r.l1 = row[i].l1
          <5> DEFINE l == Layer(row[i], "l2", s, FALSE)
          <5>1. l \in Rows /\ l.ctx = row[i].ctx /\ l.l1 = row[i].l1
            BY <3>3
          <5> HIDE DEF l
          <5> QED
            BY <5>1, <4>2 DEF Rows, l
        <4> QED
          BY <3>2, <4>1, <4>2
      <3> QED
        BY <3>2, <3>4 DEF KeepsContexts, Live
    <2>2. CASE Cluster
      <3>1. PICK l3bad, l4bad, R, n : row' = Clustered(l3bad, l4bad, R, n)
        BY <2>2 DEF Cluster
      <3>2. ASSUME NEW i \in Live
            PROVE  row'[i].ctx = row[i].ctx /\ row'[i].l1 = row[i].l1
        <4> DEFINE why == l3bad \/ l4bad
                   l3 == IF l3bad THEN "error" ELSE IF i \in R THEN "done" ELSE "skipped"
                   l4 == IF l4bad THEN "error" ELSE IF n /\ i \in R THEN "done" ELSE "skipped"
        <4>1. row'[i] = IF row[i].l2 # "done" THEN row[i] ELSE [row[i] EXCEPT !.why = why, !.l3 = l3, !.l4 = l4]
          BY <3>1 DEF Clustered
        <4> HIDE DEF why, l3, l4
        <4> QED
          BY <1>0, <4>1 DEF Rows
      <3>3. DOMAIN row' = Live
        BY <3>1 DEF Clustered
      <3> QED
        BY <3>2, <3>3 DEF KeepsContexts
    <2>3. CASE MarkGaps
      BY <1>0, <2>3 DEF MarkGaps, KeepsContexts, Rows
    <2>4. CASE RelocateSource
      BY <1>0, <2>4 DEF RelocateSource, KeepsContexts, Rows, Live
    <2>5. CASE MarkMissing
      BY <1>0, <2>5 DEF MarkMissing, KeepsContexts, Rows
    <2>6. CASE User
      BY <2>6, SameRows DEF User, WriteFile, DeleteFile, RenameFile, Edited
    <2> QED
      BY <2>1, <2>2, <2>3, <2>4, <2>5, <2>6 DEF Pipeline, Plugin
  <1>3. DoneHasContext' /\ \A j : Knows(row, j) => Knows(row', j)
    BY <1>0, <1>2, ContextsStay
  <1>4. Alone'
    BY <1>0, <1>1 DEF Alone, At0
  <1>5. \A p \in Procs : KnowsJobs(row', cmd'[p])
    BY <1>0, <1>1, <1>3 DEF KnowsJobs
  <1> QED
    BY <1>0, <1>3, <1>4, <1>5 DEF CalmInv

LEMMA InitCalm == Init => CalmInv
  <1> SUFFICES ASSUME Init PROVE CalmInv
    OBVIOUS
  <1>1. Base
    BY InitBase
  <1>2. DoneHasContext
    BY DEF Init, DoneHasContext, Live
  <1>3. \A p \in Procs : cmd[p] = Idle /\ At0(p)
    BY DEF Init, Idle, At0
  <1> QED
    BY <1>1, <1>2, <1>3, KnowsNone DEF CalmInv, Alone

LEMMA CalmKeeps == CalmInv /\ [CalmNext]_vars => CalmInv'
  <1> SUFFICES ASSUME CalmInv, [CalmNext]_vars PROVE CalmInv'
    OBVIOUS
  <1>1. ASSUME NEW p \in Procs, \A o \in Procs \ {p} : At0(o), Command(p, Opened)
        PROVE  CalmInv'
    <2>1. Quiet(p) /\ Opened \in SUBSET Live
      BY <1>1 DEF Quiet, Opened
    <2> QED
      BY <1>1, <2>1, CalmDiscover, CalmGenerate, CalmReemit DEF Command
  <1>2. CASE UNCHANGED vars
    <2>1. Base'
      BY <1>2, StutterBase DEF CalmInv
    <2>2. UNCHANGED <<row, cmd>>
      BY <1>2 DEF vars
    <2> QED
      BY <2>1, <2>2 DEF CalmInv, DoneHasContext, Alone, At0, Live
  <1> QED
    BY <1>1, <1>2, CalmWorld DEF CalmNext

(* While commands run one at a time, an L1 that is done also has its       *)
(* Context: the job that generate_l1_summary copied before it parsed still *)
(* says whether there was one (ingest_raw.py:1936).                        *)
THEOREM RegisteredIsWhole == CalmSpec => []RegisteredOrGone
  <1>1. CalmInv => RegisteredOrGone
    BY BaseMeans DEF CalmInv, RegisteredOrGone
  <1> QED
    BY <1>1, InitCalm, CalmKeeps, PTL DEF CalmSpec

-----------------------------------------------------------------------------
(* What a reemit knows that nothing interfered with                        *)

LEMMA LayerIs ==
  ASSUME NEW r \in Rows, NEW l \in {"l1", "l2", "l3", "l4"}, NEW s \in State, NEW why \in BOOLEAN
  PROVE  /\ Layer(r, l, s, why).hash = r.hash /\ Layer(r, l, s, why).status = r.status
         /\ Layer(r, l, s, why).reason = r.reason
         /\ Layer(r, l, s, why).l2 = IF l = "l2" THEN s ELSE r.l2
         /\ Layer(r, l, s, why).l3 = IF l = "l3" THEN s ELSE r.l3
         /\ Layer(r, l, s, why).l4 = IF l = "l4" THEN s ELSE r.l4
  <1>1. CASE l = "l1"
    BY <1>1 DEF Layer, Rows
  <1>2. CASE l = "l2"
    BY <1>2 DEF Layer, Rows
  <1>3. CASE l = "l3"
    BY <1>3 DEF Layer, Rows
  <1>4. CASE l = "l4"
    BY <1>4 DEF Layer, Rows
  <1> QED
    BY <1>1, <1>2, <1>3, <1>4

LEMMA SetSays ==
  ASSUME NEW r \in Rows, NEW l \in {"l2", "l3", "l4"}, NEW is \in State,
         NEW was \in State, l = "l2" => was = r.l2, l = "l3" => was = r.l3, l = "l4" => was = r.l4,
         NEW n, n = Set(r, l, was, is)
  PROVE  /\ n \in Rows /\ n.hash = r.hash /\ n.status = r.status /\ n.path = r.path
         /\ n.l2 = IF l = "l2" THEN is ELSE r.l2
         /\ n.l3 = IF l = "l3" THEN is ELSE r.l3
         /\ n.l4 = IF l = "l4" THEN is ELSE r.l4
  <1>1. CASE was = is
    BY <1>1 DEF Set
  <1>2. CASE was # is
    <2>1. n = Layer(r, l, is, FALSE) /\ FALSE \in BOOLEAN /\ l \in {"l1", "l2", "l3", "l4"}
      BY <1>2 DEF Set
    <2>2. Layer(r, l, is, FALSE) \in Rows /\ Layer(r, l, is, FALSE).path = r.path
      BY <2>1, ZenonT(60), Layered
    <2>3. Layer(r, l, is, FALSE).hash = r.hash /\ Layer(r, l, is, FALSE).status = r.status
      BY <2>1, ZenonT(60), LayerIs
    <2>4. Layer(r, l, is, FALSE).l2 = IF l = "l2" THEN is ELSE r.l2
      BY <2>1, ZenonT(60), LayerIs
    <2>5. Layer(r, l, is, FALSE).l3 = IF l = "l3" THEN is ELSE r.l3
      BY <2>1, ZenonT(60), LayerIs
    <2>6. Layer(r, l, is, FALSE).l4 = IF l = "l4" THEN is ELSE r.l4
      BY <2>1, ZenonT(60), LayerIs
    <2> QED
      BY <2>1, <2>2, <2>3, <2>4, <2>5, <2>6
  <1> QED
    BY <1>1, <1>2

(* The three writes of a settling, one after the other.                    *)
LEMMA SettledSays ==
  ASSUME NEW r \in Rows, NEW l2 \in State, NEW l3 \in State, NEW l4 \in State,
         NEW n, n = Set(Set(Set(r, "l2", r.l2, l2), "l3", r.l3, l3), "l4", r.l4, l4)
  PROVE  n.l2 = l2 /\ n.l3 = l3 /\ n.l4 = l4
  <1>1. r.l2 \in State /\ r.l3 \in State /\ r.l4 \in State
    BY DEF Rows
  <1>2. PICK r2 : r2 = Set(r, "l2", r.l2, l2)
    OBVIOUS
  <1>3. PICK r3 : r3 = Set(r2, "l3", r.l3, l3)
    OBVIOUS
  <1>4. r2 \in Rows /\ r2.l2 = l2 /\ r2.l3 = r.l3 /\ r2.l4 = r.l4
    BY <1>1, <1>2, SetSays
  <1>5. r3 \in Rows /\ r3.l2 = l2 /\ r3.l3 = l3 /\ r3.l4 = r.l4
    BY <1>1, <1>3, <1>4, SetSays
  <1>6. n = Set(r3, "l4", r.l4, l4)
    BY <1>2, <1>3
  <1> QED
    BY <1>1, <1>5, <1>6, SetSays

\* the statuses of a compiled source say what is served of it
Says(i) ==
  /\ row[i].l2 = "done" <=> units[i] # none
  /\ row[i].l3 = "done" => i \in report
  /\ row[i].l4 = "done" => node /\ i \in report
Compiled(i) == row[i].l2 \in {"done", "skipped"}

ReemitKnows(c) ==
  /\ c.at = "settling" =>
       /\ c.serving = {i \in Live : units[i] # none}
       /\ c.reported = report /\ c.cited = IF node THEN report ELSE {}
       /\ \A t \in c.rows : t[1] \in Live /\ t = <<t[1], row[t[1]]>>
       /\ \A i \in Live : Compiled(i) => Says(i) \/ \E t \in c.rows : t[1] = i
  /\ c.at = "cleaning" =>
       /\ \A i \in Live : Compiled(i) => Says(i)
       /\ c.current = {row[i].ctx : i \in Live}
  /\ c.at = "unlinking" => Truthful

CalmReemits == \A p \in calm : ReemitKnows(cmd[p])

KnowsNothing(c) == c.at \notin {"settling", "cleaning", "unlinking"}

(* Whoever takes a step ends the calm of the others that are busy.         *)
LEMMA StepsEndCalm ==
  ASSUME Base, NEW p \in Procs, NEW c, Go(p, c) \/ Begin(p, c)
  PROVE  /\ cmd'[p] = c
         /\ \A o \in calm' \ {p} : cmd'[o].at = "idle"
  BY DEF Base, Commands, Go, Begin, At0

LEMMA WorldEndsCalm ==
  ASSUME Base, Disturb, NEW o \in calm'
  PROVE  cmd'[o].at = "idle"
  BY DEF Base, Commands, Disturb, At0

(* Where nobody is in a reemit there is nothing to know.                   *)
LEMMA NoReemit ==
  ASSUME Base, NEW p \in Procs, NEW c, Go(p, c) \/ Begin(p, c), KnowsNothing(c)
  PROVE  CalmReemits'
  BY StepsEndCalm DEF CalmReemits, ReemitKnows, KnowsNothing

(* A step of a reemit that goes on with what it knows.                     *)
LEMMA ReemitGoesOn ==
  ASSUME Base, NEW p \in Procs, NEW c, Go(p, c), p \in calm => ReemitKnows(c)'
  PROVE  CalmReemits'
  <1>1. cmd'[p] = c /\ \A o \in calm' \ {p} : cmd'[o].at = "idle"
    BY StepsEndCalm
  <1>2. p \in calm' => p \in calm
    BY DEF Go
  <1>3. ASSUME NEW o \in calm' PROVE ReemitKnows(cmd[o])'
    <2>1. CASE o = p
      BY <1>1, <1>2, <2>1 DEF ReemitKnows
    <2>2. CASE o # p
      BY <1>1, <2>2 DEF ReemitKnows
    <2> QED
      BY <2>1, <2>2
  <1> QED
    BY <1>3 DEF CalmReemits

LEMMA DiscoverKnows ==
  ASSUME Base, NEW p \in Procs, Discover(p)
  PROVE  CalmReemits'
  <1>1. CASE StartScan(p)
    BY <1>1, NoReemit DEF StartScan, KnowsNothing
  <1>2. CASE DropOrphans(p)
    BY <1>2, NoReemit DEF DropOrphans, KnowsNothing
  <1>3. CASE AddFile(p)
    BY <1>3, NoReemit DEF AddFile, KnowsNothing
  <1>4. CASE AddFails(p)
    BY <1>4, NoReemit DEF AddFails, Idle, KnowsNothing
  <1>5. CASE SelectL1(p)
    BY <1>5, NoReemit DEF SelectL1, KnowsNothing
  <1> QED
    BY <1>1, <1>2, <1>3, <1>4, <1>5 DEF Discover

LEMMA GenerateKnows ==
  ASSUME Base, NEW p \in Procs, NEW S, Generate(p, S)
  PROVE  CalmReemits'
  <1>1. CASE Register(p, S)
    BY <1>1, NoReemit DEF Register, KnowsNothing
  <1>2. CASE RetryL1(p)
    BY <1>2, NoReemit DEF RetryL1, KnowsNothing
  <1>3. CASE MarkRunning(p)
    BY <1>3, NoReemit DEF MarkRunning, KnowsNothing
  <1>4. CASE WritePage(p)
    BY <1>4, NoReemit DEF WritePage, KnowsNothing
  <1>5. CASE LinkPage(p)
    BY <1>5, NoReemit DEF LinkPage, Next0, Idle, KnowsNothing
  <1>6. CASE L1Fails(p)
    BY <1>6, NoReemit DEF L1Fails, Next0, KnowsNothing
  <1>7. CASE EndCommand(p)
    BY <1>7, NoReemit DEF EndCommand, Idle, KnowsNothing
  <1> QED
    BY <1>1, <1>2, <1>3, <1>4, <1>5, <1>6, <1>7 DEF Generate

LEMMA SettleKnows ==
  ASSUME Base, CalmReemits, NEW p \in Procs, SettleRow(p)
  PROVE  CalmReemits'
  <1>1. PICK t \in cmd[p].rows :
          /\ SetRow(t[1], IF t[1] \in Live THEN Settled(row[t[1]], t[2], t[1] \in cmd[p].serving,
                                  t[1] \in cmd[p].reported, t[1] \in cmd[p].cited) ELSE t[2])
          /\ Go(p, Settling(cmd[p], cmd[p].serving, cmd[p].reported, cmd[p].cited, cmd[p].rows \ {t}))
    BY DEF SettleRow
  <1>2. cmd[p].at = "settling" /\ UNCHANGED <<units, report, node>>
    BY DEF SettleRow
  <1>3. PICK c : c = Settling(cmd[p], cmd[p].serving, cmd[p].reported, cmd[p].cited, cmd[p].rows \ {t})
    OBVIOUS
  <1>4. /\ c.at = "settling" /\ c.serving = cmd[p].serving /\ c.reported = cmd[p].reported
        /\ c.cited = cmd[p].cited /\ c.rows = cmd[p].rows \ {t}
    BY <1>3 DEF Settling
  <1>5. ASSUME p \in calm PROVE ReemitKnows(c)'
    <2>1. /\ cmd[p].serving = {i \in Live : units[i] # none}
          /\ cmd[p].reported = report /\ cmd[p].cited = IF node THEN report ELSE {}
          /\ \A u \in cmd[p].rows : u[1] \in Live /\ u = <<u[1], row[u[1]]>>
          /\ \A i \in Live : Compiled(i) => Says(i) \/ \E u \in cmd[p].rows : u[1] = i
      BY <1>2, <1>5 DEF CalmReemits, ReemitKnows
    <2>2. PICK i \in Live : t = <<i, row[i]>>
      BY <2>1
    <2>3. row[i] \in Rows
      BY DEF Base, Registry
    <2>4. PICK n : n = Settled(row[i], row[i], i \in cmd[p].serving, i \in cmd[p].reported, i \in cmd[p].cited)
      OBVIOUS
    <2>5. row' = [row EXCEPT ![i] = n] /\ Live' = Live
      BY <1>1, <2>2, <2>4 DEF SetRow, Live
    <2>6. row'[i] = n /\ \A j \in Live : j # i => row'[j] = row[j]
      BY <2>5 DEF Live
    <2>7. /\ n.l2 = IF i \in cmd[p].serving THEN "done" ELSE "skipped"
          /\ n.l3 = "done" => i \in cmd[p].serving /\ i \in cmd[p].reported
          /\ n.l4 = "done" => i \in cmd[p].serving /\ i \in cmd[p].cited
      <3>1. PICK l2 : l2 = IF i \in cmd[p].serving THEN "done" ELSE "skipped"
        OBVIOUS
      <3>2. PICK l3 : l3 = Desired(row[i].l3, row[i].why, l2, i \in cmd[p].reported)
        OBVIOUS
      <3>3. PICK l4 : l4 = Desired(row[i].l4, row[i].why, l2, i \in cmd[p].cited)
        OBVIOUS
      <3>4. l2 \in State /\ l3 \in State /\ l4 \in State
        BY <3>1, <3>2, <3>3 DEF Desired, State
      <3>5. /\ l3 = "done" => i \in cmd[p].serving /\ i \in cmd[p].reported
            /\ l4 = "done" => i \in cmd[p].serving /\ i \in cmd[p].cited
        BY <3>1, <3>2, <3>3 DEF Desired
      <3>6. n = Set(Set(Set(row[i], "l2", row[i].l2, l2), "l3", row[i].l3, l3), "l4", row[i].l4, l4)
        BY <2>4, <3>1, <3>2, <3>3 DEF Settled
      <3>7. n.l2 = l2 /\ n.l3 = l3 /\ n.l4 = l4
        BY <2>3, <3>4, <3>6, SettledSays
      <3> QED
        BY <3>1, <3>5, <3>7
    <2>8. Says(i)'
      BY <1>2, <2>1, <2>6, <2>7 DEF Says
    <2>9. ASSUME NEW j \in Live, Compiled(j)'
          PROVE  Says(j)' \/ \E u \in c.rows : u[1] = j
      <3>1. CASE j = i
        BY <2>8, <3>1
      <3>2. CASE j # i
        <4>1. Compiled(j) /\ (Says(j) => Says(j)')
          BY <1>2, <2>6, <2>9, <3>2 DEF Compiled, Says
        <4>2. ASSUME NEW u \in cmd[p].rows, u[1] = j PROVE u \in c.rows
          BY <1>4, <2>2, <3>2, <4>2
        <4> QED
          BY <2>1, <4>1, <4>2
      <3> QED
        BY <3>1, <3>2
    <2>10. ASSUME NEW u \in c.rows PROVE u[1] \in Live /\ u = <<u[1], row'[u[1]]>>
      <3>1. u \in cmd[p].rows /\ u # t
        BY <1>4
      <3>2. u[1] \in Live /\ u = <<u[1], row[u[1]]>>
        BY <2>1, <3>1
      <3>3. u[1] # i
        BY <2>2, <3>1, <3>2
      <3> QED
        BY <2>6, <3>2, <3>3
    <2>11. /\ c.serving = {j \in Live : units'[j] # none}
           /\ c.reported = report' /\ c.cited = IF node' THEN report' ELSE {}
      BY <1>2, <1>4, <2>1
    <2> QED
      BY <1>4, <2>5, <2>9, <2>10, <2>11 DEF ReemitKnows
  <1> QED
    BY <1>1, <1>3, <1>5, ReemitGoesOn

LEMMA ReemitsKnow ==
  ASSUME Base, CalmReemits, NEW p \in Procs, Reemit(p)
  PROVE  CalmReemits'
  <1>1. CASE Remove(p)
    BY <1>1, NoReemit DEF Remove, KnowsNothing
  <1>2. CASE StartReemit(p)
    BY <1>2, NoReemit DEF StartReemit, KnowsNothing
  <1>3. CASE ReadStatuses(p)
    <2>1. PICK c : c = Settling(cmd[p], {i \in Live : units[i] # none}, report, IF node THEN report ELSE {},
                    {<<i, row[i]>> : i \in {i \in Live : row[i].l2 \in {"done", "skipped"}}})
      OBVIOUS
    <2>2. Go(p, c) /\ UNCHANGED <<row, units, report, node>>
      BY <1>3, <2>1 DEF ReadStatuses
    <2>3. /\ c.at = "settling" /\ c.serving = {i \in Live : units[i] # none}
          /\ c.reported = report /\ c.cited = IF node THEN report ELSE {}
          /\ c.rows = {<<i, row[i]>> : i \in {i \in Live : row[i].l2 \in {"done", "skipped"}}}
      BY <2>1 DEF Settling
    <2>4. ReemitKnows(c)
      <3>1. \A t \in c.rows : t[1] \in Live /\ t = <<t[1], row[t[1]]>>
        BY <2>3
      <3>2. ASSUME NEW i \in Live, Compiled(i) PROVE \E t \in c.rows : t[1] = i
        <4>1. <<i, row[i]>> \in c.rows
          BY <2>3, <3>2 DEF Compiled
        <4> QED
          BY <4>1
      <3> QED
        BY <2>3, <3>1, <3>2 DEF ReemitKnows
    <2>5. ReemitKnows(c)'
      BY <2>2, <2>3, <2>4 DEF ReemitKnows, Compiled, Says, Live
    <2> QED
      BY <2>2, <2>5, ReemitGoesOn
  <1>4. CASE SettleRow(p)
    BY <1>4, SettleKnows
  <1>5. CASE ReadContexts(p)
    <2>1. PICK c : c = [at |-> "cleaning", unlink |-> cmd[p].unlink, path |-> cmd[p].path,
                        current |-> {row[i].ctx : i \in Live}]
      OBVIOUS
    <2>2. Go(p, c) /\ UNCHANGED <<row, units, report, node>> /\ cmd[p].at = "settling" /\ cmd[p].rows = {}
      BY <1>5, <2>1 DEF ReadContexts
    <2>3. c.at = "cleaning" /\ c.current = {row[i].ctx : i \in Live}
      BY <2>1
    <2>4. ASSUME p \in calm PROVE \A i \in Live : Compiled(i) => Says(i)
      BY <2>2, <2>4 DEF CalmReemits, ReemitKnows
    <2>5. p \in calm => ReemitKnows(c)'
      BY <2>2, <2>3, <2>4 DEF ReemitKnows, Compiled, Says, Live
    <2> QED
      BY <2>2, <2>5, ReemitGoesOn
  <1>6. CASE CleanContexts(p)
    <2>1. PICK c : c = [at |-> "unlinking", unlink |-> cmd[p].unlink, path |-> cmd[p].path]
      OBVIOUS
    <2>2. /\ Go(p, c) /\ UNCHANGED <<row, units, report, node>> /\ cmd[p].at = "cleaning"
          /\ page' = [d \in Ctxs |-> IF d \in cmd[p].current THEN page[d] ELSE none]
      BY <1>6, <2>1 DEF CleanContexts
    <2>3. c.at = "unlinking"
      BY <2>1
    <2>4. ASSUME p \in calm PROVE Truthful'
      <3>1. /\ \A i \in Live : Compiled(i) => Says(i)
            /\ cmd[p].current = {row[i].ctx : i \in Live}
        BY <2>2, <2>4 DEF CalmReemits, ReemitKnows
      <3>2. \A i \in Live' : Compiled(i)' => Says(i)'
        BY <2>2, <3>1 DEF Compiled, Says, Live
      <3>3. \A d \in Ctxs : page'[d] # none => \E i \in Live' : row'[i].ctx = d
        BY <2>2, <3>1 DEF Live
      <3> QED
        BY <3>2, <3>3 DEF Truthful, Compiled, Says
    <2>5. p \in calm => ReemitKnows(c)'
      BY <2>3, <2>4 DEF ReemitKnows
    <2> QED
      BY <2>2, <2>5, ReemitGoesOn
  <1>7. CASE Unlink(p)
    BY <1>7, NoReemit DEF Unlink, Idle, KnowsNothing
  <1> QED
    BY <1>1, <1>2, <1>3, <1>4, <1>5, <1>6, <1>7 DEF Reemit

LEMMA WorldKnows ==
  ASSUME Base, Disturb
  PROVE  CalmReemits'
  BY WorldEndsCalm DEF CalmReemits, ReemitKnows

LEMMA KnowsStays ==
  ASSUME CalmReemits, UNCHANGED vars
  PROVE  CalmReemits'
  <1>1. ASSUME NEW c, ReemitKnows(c) PROVE ReemitKnows(c)'
    BY <1>1 DEF vars, ReemitKnows, Compiled, Says, Live, Truthful
  <1> QED
    BY <1>1 DEF vars, CalmReemits

LEMMA ReemitsEnd == CalmReemits => ReemitTruthful
  BY DEF CalmReemits, ReemitKnows, ReemitTruthful, Unlink

(* When a reemit that nothing interfered with ends, the statuses of every compiled *)
(* source say what is served of it, and the Context pages on disk are those in use *)
(* (pipeline/compile.py:1406).                                                      *)
THEOREM ReemitsAreTruthful == Spec => [][ReemitTruthful]_vars
  <1>1. Init => Base /\ CalmReemits
    BY InitBase DEF Init, CalmReemits
  <1>2. ASSUME Base, CalmReemits, [Next]_vars PROVE Base' /\ CalmReemits'
    <2>1. Base'
      BY <1>2, NextKeeps
    <2>2. ASSUME NEW p \in Procs, Command(p, Live) PROVE CalmReemits'
      BY <1>2, <2>2, DiscoverKnows, GenerateKnows, ReemitsKnow DEF Command
    <2>3. CASE Pipeline
      <3>1. Disturb
        BY <2>3 DEF Pipeline, Compile, Cluster, MarkGaps, Run
      <3> QED
        BY <1>2, <2>1, <3>1, WorldKnows
    <2>4. CASE Plugin
      <3>1. Disturb
        BY <2>4 DEF Plugin, RelocateSource, MarkMissing
      <3> QED
        BY <1>2, <2>1, <3>1, WorldKnows
    <2>5. CASE User
      <3>1. Disturb
        BY <2>5 DEF User, WriteFile, DeleteFile, RenameFile, Edited
      <3> QED
        BY <1>2, <2>1, <3>1, WorldKnows
    <2>6. CASE UNCHANGED vars
      BY <1>2, <2>1, <2>6, KnowsStays
    <2> QED
      BY <1>2, <2>1, <2>2, <2>3, <2>4, <2>5, <2>6 DEF Next
  <1> QED
    BY <1>1, <1>2, ReemitsEnd, PTL DEF Spec
-----------------------------------------------------------------------------
(* What a scan that nothing interfered with knows                           *)

Scans == {"add", "force", "add_all"}
Generating == {"selecting", "parsing", "linking"}

\* a source's page is the page of its text; an error without a page is an error of L1
RowOK(r) ==
  /\ r.ctx # none => page[r.ctx] # none /\ page[r.ctx].hash = r.hash
  /\ r.status = "error" /\ r.ctx = none => r.l1 \in {"error", "running"}
  /\ r.l1 # "skipped"
PagesApart == \A i, j \in Live : row[i].ctx = row[j].ctx /\ row[i].ctx # none => i = j
RowsOK == PagesApart /\ \A i \in Live : RowOK(row[i])

Runs(c, i) == c.at \in {"parsing", "linking"} /\ c.kind # "retry" /\ c.job.id = i

AllJobs(c) == c.jobs \cup (IF c.at = "selecting" THEN {} ELSE {c.job})
JobOK(k, j) ==
  /\ j.id \in Live /\ j.hash = row[j.id].hash /\ j.ctx \in {none, row[j.id].ctx}
  /\ k \in {"register", "reforce"} => vault[j.path] # none
CmdOK(c) ==
  /\ c.at \in {"scanning", "adding"} => c.kind \in Scans
  /\ c.at \in Generating =>
       /\ c.kind \in Kinds
       /\ \A j \in AllJobs(c) : JobOK(c.kind, j)
       /\ \A j, o \in AllJobs(c) : j.id = o.id => j = o
  /\ c.at \in {"parsing", "linking"} => c.job \notin c.jobs
  /\ c.at = "linking" =>
       /\ page[c.ctx] # none /\ page[c.ctx].hash = c.job.hash
       /\ \A i \in Live : row[i].ctx = c.ctx => i = c.job.id
  /\ c.at = "cleaning" => \A i \in Live : row[i].ctx \in c.current

\* every source has its file, and every file but those of todo has its source
Filed(todo) ==
  /\ \A i \in Live : vault[row[i].path] # none
  /\ \A q \in Paths \ todo : vault[q] # none => \E i \in At(q) : row[i].hash = vault[q]
Finished(i, taken) ==
  \/ row[i].l1 \in {"done", "error"}
  \/ ~taken /\ row[i].l1 = "pending" /\ row[i].ctx # none
ScanOK(c) ==
  /\ c.at = "scanning" => c.seen = {<<i, row[i].path>> : i \in Live}
  /\ c.at = "adding" => Filed(c.todo)
  /\ c.at \in Generating /\ c.kind \in Scans =>
       /\ Filed({})
       /\ \A i \in Live : Finished(i, c.kind = "force") \/ \E j \in AllJobs(c) : j.id = i

Tidy ==
  /\ RowsOK
  /\ \A i \in Live : row[i].l1 = "running" => \E p \in Procs : Runs(cmd[p], i)
  /\ \A p \in Procs : CmdOK(cmd[p])
  /\ \A p \in calm : ScanOK(cmd[p])

TidyInv == CalmInv /\ Tidy

(* Rows that are written and keep what Tidy says of them.                  *)
Light ==
  /\ Live' = Live
  /\ \A i \in Live : /\ row'[i].ctx = row[i].ctx /\ row'[i].hash = row[i].hash /\ row'[i].l1 = row[i].l1
                     /\ row'[i].status = row[i].status \/ row'[i].status # "error"

LEMMA LightRows ==
  ASSUME RowsOK, Light, UNCHANGED page
  PROVE  RowsOK'
  <1>1. PagesApart'
    BY DEF RowsOK, PagesApart, Light
  <1>2. ASSUME NEW i \in Live PROVE RowOK(row[i])'
    BY DEF RowsOK, RowOK, Light
  <1> QED
    BY <1>1, <1>2 DEF RowsOK, Light

LEMMA LightCommand ==
  ASSUME NEW c, CmdOK(c), Light, UNCHANGED <<page, vault>>
  PROVE  CmdOK(c)'
  <1>1. ASSUME c.at \in Generating PROVE \A j \in AllJobs(c) : JobOK(c.kind, j)'
    BY <1>1 DEF CmdOK, JobOK, Light
  <1> QED
    BY <1>1 DEF CmdOK, Light

(* A step of the only command there is.                                    *)
LEMMA TidyStep ==
  ASSUME CalmInv, Tidy, NEW p \in Procs, Quiet(p), NEW c, Go(p, c) \/ Begin(p, c),
         RowsOK', CmdOK(c)', \A i \in Live' : row'[i].l1 = "running" => Runs(c, i),
         p \in calm' => ScanOK(c)'
  PROVE  Tidy'
  <1>1. DOMAIN cmd = Procs /\ calm \subseteq Procs
    BY DEF CalmInv, Base, Commands
  <1>2. cmd'[p] = c /\ \A o \in Procs \ {p} : cmd'[o] = cmd[o] /\ cmd[o].at = "idle"
    BY <1>1 DEF Go, Begin, Quiet, At0
  <1>3. calm' \subseteq Procs
    BY <1>1 DEF Go, Begin
  <1>4. ASSUME NEW o \in Procs PROVE CmdOK(cmd[o])'
    <2>1. CASE o = p
      BY <1>2, <2>1 DEF CmdOK
    <2>2. CASE o # p
      BY <1>2, <2>2 DEF CmdOK, Generating
    <2> QED
      BY <2>1, <2>2
  <1>5. ASSUME NEW o \in calm' PROVE ScanOK(cmd[o])'
    <2>1. CASE o = p
      BY <1>2, <1>5, <2>1 DEF ScanOK
    <2>2. CASE o # p
      BY <1>2, <1>3, <2>2 DEF ScanOK, Generating
    <2> QED
      BY <2>1, <2>2
  <1>6. ASSUME NEW i \in Live', row'[i].l1 = "running" PROVE \E o \in Procs : Runs(cmd'[o], i)
    BY <1>2, <1>6
  <1> QED
    BY <1>4, <1>5, <1>6 DEF Tidy

LEMMA QuietRuns ==
  ASSUME Tidy, NEW p \in Procs, Quiet(p), NEW i \in Live, row[i].l1 = "running"
  PROVE  Runs(cmd[p], i)
  BY DEF Tidy, Quiet, At0, Runs

(* A step of the world, that changes no more of a row than Light allows.   *)
LEMMA TidyWorld ==
  ASSUME CalmInv, Tidy, Light, Disturb, UNCHANGED page, UNCHANGED vault \/ AtRest
  PROVE  Tidy'
  <1>1. calm' \subseteq Procs /\ UNCHANGED cmd /\ \A o \in calm' : cmd[o].at = "idle"
    BY DEF CalmInv, Base, Disturb, At0
  <1>2. RowsOK'
    BY LightRows DEF Tidy
  <1>3. ASSUME NEW p \in Procs PROVE CmdOK(cmd[p])'
    <2>1. CmdOK(cmd[p])
      BY DEF Tidy
    <2>2. CASE UNCHANGED vault
      BY <1>1, <2>1, <2>2, LightCommand DEF CmdOK
    <2>3. CASE AtRest
      BY <1>1, <2>3 DEF AtRest, At0, CmdOK, Generating
    <2> QED
      BY <2>2, <2>3
  <1>4. ASSUME NEW i \in Live', row'[i].l1 = "running" PROVE \E o \in Procs : Runs(cmd'[o], i)
    BY <1>1, <1>4 DEF Tidy, Light
  <1>5. ASSUME NEW o \in calm' PROVE ScanOK(cmd[o])'
    BY <1>1 DEF ScanOK, Generating
  <1> QED
    BY <1>2, <1>3, <1>4, <1>5 DEF Tidy

-----------------------------------------------------------------------------
(* Rows again *)

LEMMA ForcedKeeps ==
  ASSUME NEW r \in Rows
  PROVE  Forced(r).hash = r.hash /\ Forced(r).status = "force_pending"
  BY ZenonT(60) DEF Forced, Restart, Rows

LEMMA SetKeeps ==
  ASSUME NEW r \in Rows, NEW l \in {"l2", "l3", "l4"}, NEW was, NEW is \in State
  PROVE  Set(r, l, was, is).hash = r.hash /\ Set(r, l, was, is).status = r.status
  <1>1. l \in {"l1", "l2", "l3", "l4"} /\ FALSE \in BOOLEAN
    OBVIOUS
  <1>2. Layer(r, l, is, FALSE).hash = r.hash /\ Layer(r, l, is, FALSE).status = r.status
    BY <1>1, ZenonT(60), LayerIs
  <1>3. CASE was = is
    BY <1>3 DEF Set
  <1>4. CASE was # is
    BY <1>2, <1>4 DEF Set
  <1> QED
    BY <1>3, <1>4

LEMMA SettledKeeps ==
  ASSUME NEW r \in Rows, NEW old, NEW serving, NEW reported, NEW cited
  PROVE  /\ Settled(r, old, serving, reported, cited).hash = r.hash
         /\ Settled(r, old, serving, reported, cited).status = r.status
  <1> DEFINE l2 == IF serving THEN "done" ELSE "skipped"
             l3 == Desired(old.l3, old.why, l2, reported)
             l4 == Desired(old.l4, old.why, l2, cited)
             r2 == Set(r, "l2", old.l2, l2)
             r3 == Set(r2, "l3", old.l3, l3)
             r4 == Set(r3, "l4", old.l4, l4)
  <1>1. l2 \in State /\ l3 \in State /\ l4 \in State
    BY DEF Desired, State
  <1>2. r2 \in Rows /\ r2.hash = r.hash /\ r2.status = r.status
    BY <1>1, SetIs, SetKeeps
  <1>3. r3 \in Rows /\ r3.hash = r.hash /\ r3.status = r.status
    <2> HIDE DEF r2, l3
    <2> QED
      BY <1>1, <1>2, SetIs, SetKeeps
  <1>4. r4.hash = r.hash /\ r4.status = r.status
    <2> HIDE DEF r3, l4
    <2> QED
      BY <1>1, <1>3, SetKeeps
  <1>5. Settled(r, old, serving, reported, cited) = r4
    BY DEF Settled
  <1> QED
    BY <1>4, <1>5

-----------------------------------------------------------------------------
(* Steps of a scan                                                         *)

(* Rows that go, and a row that changes, leave the others as they are.     *)
LEMMA FewerRows ==
  ASSUME RowsOK, DOMAIN row' \subseteq Live, \A i \in DOMAIN row' : row'[i] = row[i], UNCHANGED page
  PROVE  RowsOK'
  <1>1. PagesApart'
    BY DEF RowsOK, PagesApart, Live
  <1>2. ASSUME NEW i \in Live' PROVE RowOK(row[i])'
    BY <1>2 DEF RowsOK, RowOK, Live
  <1> QED
    BY <1>1, <1>2 DEF RowsOK

LEMMA OneRow ==
  ASSUME RowsOK, NEW i \in Live, NEW n, row' = [row EXCEPT ![i] = n], n.ctx \in {row[i].ctx, none},
         RowOK(n), UNCHANGED page
  PROVE  RowsOK' /\ Live' = Live
  <1>1. Live' = Live /\ row'[i] = n /\ \A j \in Live : j # i => row'[j] = row[j]
    BY DEF Live
  <1>2. PagesApart'
    BY <1>1 DEF RowsOK, PagesApart
  <1>3. ASSUME NEW j \in Live PROVE RowOK(row[j])'
    BY <1>1 DEF RowsOK, RowOK
  <1> QED
    BY <1>1, <1>2, <1>3 DEF RowsOK

LEMMA TidyDiscover ==
  ASSUME TidyInv, NEW p \in Procs, Quiet(p), Discover(p)
  PROVE  Tidy'
  <1>0. /\ CalmInv /\ Tidy /\ RowsOK /\ \A i \in Live : row[i] \in Rows
        /\ CmdOK(cmd[p]) /\ calm \subseteq Procs /\ Base /\ Held(cmd[p])
    BY DEF TidyInv, Tidy, CalmInv, Base, Registry, Commands
  <1>1. CASE StartScan(p)
    <2>0. PICK k \in Scans : Begin(p, [at |-> "scanning", kind |-> k, seen |-> {<<i, row[i].path>> : i \in Live}])
      BY <1>1 DEF StartScan, Scans
    <2>1. PICK c : c = [at |-> "scanning", kind |-> k, seen |-> {<<i, row[i].path>> : i \in Live}] /\ Begin(p, c)
      BY <2>0
    <2>2. UNCHANGED <<row, page, vault>> /\ At0(p)
      BY <1>1, <2>1 DEF StartScan, Begin
    <2>3. RowsOK'
      BY <1>0, <2>2, FewerRows DEF Live
    <2>4. CmdOK(c)' /\ ScanOK(c)'
      BY <2>1, <2>2 DEF CmdOK, ScanOK, Generating, Live
    <2>5. \A i \in Live' : row'[i].l1 # "running"
      BY <1>0, <2>2, QuietRuns DEF At0, Runs, Live
    <2> QED
      BY <1>0, <2>1, <2>3, <2>4, <2>5, TidyStep
  <1>2. CASE DropOrphans(p)
    <2>1. PICK c : /\ c = [at |-> "adding", kind |-> cmd[p].kind, todo |-> {q \in Paths : vault[q] # none}]
                   /\ Go(p, c)
      BY <1>2 DEF DropOrphans
    <2>2. /\ cmd[p].at = "scanning" /\ UNCHANGED <<page, vault>>
          /\ DOMAIN row' = Live \ Orphans(p) /\ \A i \in DOMAIN row' : row'[i] = row[i]
      BY <1>2 DEF DropOrphans, Retire, Restrict, Live
    <2>3. RowsOK'
      BY <1>0, <2>2, FewerRows
    <2>4. CmdOK(c)'
      BY <1>0, <2>1, <2>2 DEF CmdOK, Generating
    <2>5. \A i \in Live' : row'[i].l1 # "running"
      BY <1>0, <2>2, QuietRuns DEF Runs, Live
    <2>6. ASSUME p \in calm' PROVE ScanOK(c)'
      <3>1. cmd[p].seen = {<<i, row[i].path>> : i \in Live}
        BY <1>0, <2>1, <2>2, <2>6 DEF Go, Tidy, ScanOK
      <3>2. ASSUME NEW i \in Live' PROVE vault'[row'[i].path] # none
        <4>1. i \in Live /\ i \notin Orphans(p) /\ row'[i] = row[i]
          BY <2>2 DEF Live
        <4>2. <<i, row[i].path>> \in cmd[p].seen
          BY <3>1, <4>1
        <4>3. vault[row[i].path] # none
          BY <4>1, <4>2 DEF Orphans
        <4> QED
          BY <2>2, <4>1, <4>3
      <3>3. Filed(c.todo)'
        BY <2>1, <2>2, <3>2 DEF Filed
      <3> QED
        BY <2>1, <3>3 DEF ScanOK, Generating
    <2> QED
      BY <1>0, <2>1, <2>3, <2>4, <2>5, <2>6, TidyStep
  <1>3. CASE AddFile(p)
    <2>1. PICK q \in cmd[p].todo :
            /\ \/ vault[q] # none /\ Registered(q)
               \/ vault[q] = none /\ UNCHANGED row
            /\ Go(p, [at |-> "adding", kind |-> cmd[p].kind, todo |-> cmd[p].todo \ {q}])
      BY <1>3 DEF AddFile
    <2>2. PICK c : c = [at |-> "adding", kind |-> cmd[p].kind, todo |-> cmd[p].todo \ {q}]
      OBVIOUS
    <2>3. cmd[p].at = "adding" /\ UNCHANGED <<page, vault>> /\ q \in Paths
      BY <1>0, <1>3 DEF AddFile, Held
    <2>4. CmdOK(c)'
      BY <1>0, <2>2, <2>3 DEF CmdOK, Generating
    <2>5. \A i \in Live : row[i].l1 # "running"
      BY <1>0, <2>3, QuietRuns DEF Runs
    <2>6. p \in calm' => Filed(cmd[p].todo)
      BY <1>0, <2>1, <2>3 DEF Go, Tidy, ScanOK
    <2>7. /\ RowsOK' /\ \A i \in Live' : row'[i].l1 # "running"
          /\ p \in calm' => Filed(c.todo)'
      <3>1. CASE UNCHANGED row /\ (vault[q] # none => \E i \in At(q) : row[i].hash = vault[q])
        <4>1. RowsOK' /\ \A i \in Live' : row'[i].l1 # "running"
          BY <1>0, <2>3, <2>5, <3>1, FewerRows DEF Live
        <4>2. ASSUME p \in calm' PROVE Filed(c.todo)'
          BY <2>2, <2>3, <2>6, <3>1, <4>2 DEF Filed, At, Live
        <4> QED
          BY <4>1, <4>2
      <3>2. CASE vault[q] # none /\ \E i \in At(q) : row' = [row EXCEPT ![i] = [Anew(@) EXCEPT !.hash = vault[q]]]
        <4>1. PICK i \in At(q) : row' = [row EXCEPT ![i] = [Anew(@) EXCEPT !.hash = vault[q]]]
          BY <3>2
        <4>2. PICK n : n = [Anew(row[i]) EXCEPT !.hash = vault[q]]
          OBVIOUS
        <4>3. i \in Live /\ row[i] \in Rows /\ row[i].path = q /\ row' = [row EXCEPT ![i] = n]
          BY <1>0, <4>1, <4>2 DEF At
        <4>4. n.ctx = none /\ n.status = "pending" /\ n.l1 = "pending" /\ n.hash = vault[q] /\ n.path = q
          BY <4>2, <4>3 DEF Anew, Restart, Rows
        <4>5. RowOK(n)
          BY <4>4 DEF RowOK
        <4>6. RowsOK' /\ Live' = Live
          BY <1>0, <2>3, <4>3, <4>4, <4>5, OneRow
        <4>7. row'[i] = n /\ \A j \in Live : j # i => row'[j] = row[j]
          BY <4>3 DEF Live
        <4>8. \A j \in Live' : row'[j].l1 # "running"
          BY <2>5, <4>4, <4>6, <4>7
        <4>9. ASSUME p \in calm' PROVE Filed(c.todo)'
          <5>1. \A j \in Live' : vault'[row'[j].path] # none
            BY <2>3, <2>6, <3>2, <4>4, <4>6, <4>7, <4>9 DEF Filed
          <5>2. ASSUME NEW u \in Paths \ c.todo, vault'[u] # none
                PROVE  \E j \in Live' : row'[j].path = u /\ row'[j].hash = vault'[u]
            <6>1. CASE u = q
              BY <2>3, <4>3, <4>4, <4>6, <4>7, <6>1
            <6>2. CASE u # q
              <7>1. u \in Paths \ cmd[p].todo /\ vault[u] # none
                BY <2>2, <2>3, <5>2, <6>2
              <7>2. PICK j \in Live : row[j].path = u /\ row[j].hash = vault[u]
                BY <2>6, <4>9, <7>1 DEF Filed, At
              <7>3. j # i
                BY <4>3, <6>2, <7>2
              <7> QED
                BY <2>3, <4>6, <4>7, <7>2, <7>3
            <6> QED
              BY <6>1, <6>2
          <5> QED
            BY <5>1, <5>2 DEF Filed, At
        <4> QED
          BY <4>6, <4>8, <4>9
      <3>3. CASE /\ vault[q] # none /\ lastId + 1 \in Ids
                 /\ row' = [i \in Live \cup {lastId + 1} |-> IF i \in Live THEN row[i] ELSE New(q)]
        <4>1. lastId + 1 \notin Live
          BY <1>0, IdAssumption DEF Base, Registry
        <4>2. /\ Live' = Live \cup {lastId + 1} /\ row'[lastId + 1] = New(q)
              /\ \A j \in Live : j # lastId + 1 /\ row'[j] = row[j]
          BY <3>3, <4>1 DEF Live
        <4>3. PICK n : n = New(q)
          OBVIOUS
        <4>4. n.ctx = none /\ n.path = q /\ n.hash = vault[q] /\ (n.status = "error" => n.l1 = "error")
              /\ n.l1 \in {"error", "pending"}
          BY <4>3 DEF New
        <4>5. RowsOK'
          <5>1. PagesApart'
            BY <1>0, <4>2, <4>3, <4>4 DEF RowsOK, PagesApart
          <5>2. ASSUME NEW j \in Live' PROVE RowOK(row[j])'
            <6>1. CASE j \in Live
              BY <1>0, <2>3, <4>2, <6>1 DEF RowsOK, RowOK
            <6>2. CASE j = lastId + 1
              BY <4>2, <4>3, <4>4, <6>2 DEF RowOK
            <6> QED
              BY <4>2, <6>1, <6>2
          <5> QED
            BY <5>1, <5>2 DEF RowsOK
        <4>6. \A j \in Live' : row'[j].l1 # "running"
          BY <2>5, <4>2, <4>3, <4>4
        <4>7. ASSUME p \in calm' PROVE Filed(c.todo)'
          <5>1. \A j \in Live' : vault'[row'[j].path] # none
            BY <2>3, <2>6, <3>3, <4>2, <4>3, <4>4, <4>7 DEF Filed
          <5>2. ASSUME NEW u \in Paths \ c.todo, vault'[u] # none
                PROVE  \E j \in Live' : row'[j].path = u /\ row'[j].hash = vault'[u]
            <6>1. CASE u = q
              BY <2>3, <4>2, <4>3, <4>4, <6>1
            <6>2. CASE u # q
              <7>1. u \in Paths \ cmd[p].todo /\ vault[u] # none
                BY <2>2, <2>3, <5>2, <6>2
              <7>2. PICK j \in Live : row[j].path = u /\ row[j].hash = vault[u]
                BY <2>6, <4>7, <7>1 DEF Filed, At
              <7> QED
                BY <2>3, <4>2, <7>2
            <6> QED
              BY <6>1, <6>2
          <5> QED
            BY <5>1, <5>2 DEF Filed, At
        <4> QED
          BY <4>5, <4>6, <4>7
      <3> QED
        BY <2>1, <3>1, <3>2, <3>3 DEF Registered
    <2>8. p \in calm' => ScanOK(c)'
      BY <2>2, <2>7 DEF ScanOK, Generating
    <2> QED
      BY <1>0, <2>1, <2>2, <2>4, <2>7, <2>8, TidyStep
  <1>4. CASE AddFails(p)
    <2>1. Go(p, Idle) /\ UNCHANGED <<row, page, vault>> /\ cmd[p].at = "adding"
      BY <1>4 DEF AddFails
    <2>2. RowsOK'
      BY <1>0, <2>1, FewerRows DEF Live
    <2>3. CmdOK(Idle)' /\ ScanOK(Idle)'
      BY DEF CmdOK, ScanOK, Idle, Generating
    <2>4. \A i \in Live' : row'[i].l1 # "running"
      BY <1>0, <2>1, QuietRuns DEF Runs, Live
    <2> QED
      BY <1>0, <2>1, <2>2, <2>3, <2>4, TidyStep
  <1>5. CASE SelectL1(p)
    <2>1. PICK k, S, c :
            /\ k = cmd[p].kind /\ S = {i \in Candidates(k) : k = "force" \/ NeedsL1(i)}
            /\ c = [at |-> "selecting", kind |-> k, jobs |-> {Job(i, row[i]) : i \in S}]
      OBVIOUS
    <2>2. /\ row' = IF k = "force" THEN [i \in Live |-> IF i \in S THEN Forced(row[i]) ELSE row[i]] ELSE row
          /\ cmd[p].at = "adding" /\ cmd[p].todo = {} /\ Go(p, c) /\ UNCHANGED <<page, vault>>
      BY <1>5, <2>1 DEF SelectL1
    <2>3. S \subseteq Live
      BY <2>1 DEF Candidates
    <2>4. k \in Scans
      BY <1>0, <2>1, <2>2 DEF CmdOK
    <2>5. /\ Live' = Live
          /\ \A i \in Live : /\ row'[i].ctx = row[i].ctx /\ row'[i].hash = row[i].hash /\ row'[i].path = row[i].path
                             /\ \/ row'[i].status = row[i].status /\ row'[i].l1 = row[i].l1
                                \/ row'[i].status = "force_pending" /\ row'[i].l1 = "pending"
      BY <1>0, <2>2, ForcedIs, ForcedKeeps DEF Live
    <2>6. RowsOK'
      <3>1. PagesApart'
        BY <1>0, <2>5 DEF RowsOK, PagesApart
      <3>2. ASSUME NEW i \in Live PROVE RowOK(row[i])'
        BY <1>0, <2>2, <2>5 DEF RowsOK, RowOK
      <3> QED
        BY <2>5, <3>1, <3>2 DEF RowsOK
    <2>7. \A i \in Live : Job(i, row[i]).id = i /\ Job(i, row[i]).hash = row[i].hash /\ Job(i, row[i]).ctx = row[i].ctx
      BY DEF Job
    <2>8. AllJobs(c) = {Job(i, row[i]) : i \in S}
      BY <2>1 DEF AllJobs
    <2>9. CmdOK(c)'
      <3>1. ASSUME NEW j \in AllJobs(c) PROVE JobOK(c.kind, j)'
        BY <2>1, <2>3, <2>4, <2>5, <2>7, <2>8 DEF JobOK, Scans
      <3>2. ASSUME NEW j \in AllJobs(c), NEW o \in AllJobs(c), j.id = o.id PROVE j = o
        BY <2>3, <2>7, <2>8, <3>2
      <3> QED
        BY <2>1, <2>4, <3>1, <3>2 DEF CmdOK, Generating, Scans, Kinds
    <2>10. \A i \in Live : row[i].l1 # "running"
      BY <1>0, <2>2, QuietRuns DEF Runs
    <2>11. \A i \in Live' : row'[i].l1 # "running"
      BY <2>5, <2>10
    <2>12. ASSUME p \in calm' PROVE ScanOK(c)'
      <3>1. Filed({})
        BY <1>0, <2>2, <2>12 DEF Go, Tidy, ScanOK
      <3>2. Filed({})'
        BY <2>2, <2>5, <3>1 DEF Filed, At
      <3>3. ASSUME NEW i \in Live PROVE Finished(i, c.kind = "force")' \/ \E j \in AllJobs(c) : j.id = i
        <4>1. CASE i \in S
          BY <2>7, <2>8, <4>1
        <4>2. CASE i \notin S
          <5>1. k # "force" /\ (row[i].status = "error" \/ ~NeedsL1(i)) /\ row' = row
            BY <2>1, <2>2, <4>2 DEF Candidates
          <5>2. row[i].ctx = none => row[i].status = "error"
            BY <5>1, IdAssumption DEF NeedsL1
          <5>3. row[i].l1 \in {"error", "pending", "done"} /\ (row[i].ctx = none => row[i].l1 = "error")
            BY <1>0, <2>10, <5>2 DEF RowsOK, RowOK, Rows, State
          <5> QED
            BY <2>1, <5>1, <5>3 DEF Finished
        <4> QED
          BY <4>1, <4>2
      <3> QED
        BY <2>1, <2>5, <3>2, <3>3 DEF ScanOK
    <2> QED
      BY <1>0, <2>2, <2>6, <2>9, <2>11, <2>12, TidyStep
  <1> QED
    BY <1>1, <1>2, <1>3, <1>4, <1>5 DEF Discover

-----------------------------------------------------------------------------
(* Steps of a generation                                                   *)

(* While a source is generated, a scan knows that the others are finished. *)
LEMMA JobsStay ==
  ASSUME NEW k, NEW j, JobOK(k, j), Live \subseteq Live', row'[j.id].hash = row[j.id].hash,
         row'[j.id].ctx = row[j.id].ctx, UNCHANGED vault
  PROVE  JobOK(k, j)'
  BY DEF JobOK

LEMMA TidyBegin ==
  ASSUME TidyInv, NEW p \in Procs, NEW S \in SUBSET Opened, Quiet(p), Register(p, S) \/ RetryL1(p)
  PROVE  Tidy'
  <1>0. /\ CalmInv /\ Tidy /\ RowsOK /\ \A i \in Live : row[i] \in Rows
        /\ \A i \in S : i \in Live /\ vault[row[i].path] # none
    BY DEF TidyInv, Tidy, CalmInv, Base, Registry, Opened
  <1>1. CASE Register(p, S)
    <2>1. PICK i \in S, force \in BOOLEAN :
            LET r == IF force THEN [Forced(row[i]) EXCEPT !.ctx = none] ELSE row[i] IN
            /\ row' = IF force THEN [row EXCEPT ![i] = Forced(@)] ELSE row
            /\ Begin(p, [at |-> "selecting", kind |-> IF force THEN "reforce" ELSE "register",
                         jobs |-> {Job(i, [r EXCEPT !.l1 = row[i].l1])}])
      BY <1>1 DEF Register
    <2>2. UNCHANGED <<page, vault>>
      BY <1>1 DEF Register
    <2>3. PICK r : r = IF force THEN [Forced(row[i]) EXCEPT !.ctx = none] ELSE row[i]
      OBVIOUS
    <2>4. PICK j : j = Job(i, [r EXCEPT !.l1 = row[i].l1])
      OBVIOUS
    <2>5. PICK c : c = [at |-> "selecting", kind |-> IF force THEN "reforce" ELSE "register", jobs |-> {j}]
      OBVIOUS
    <2>6. i \in Live /\ row[i] \in Rows /\ vault[row[i].path] # none
      BY <1>0
    <2>7. Forced(row[i]) \in Rows /\ Forced(row[i]).path = row[i].path /\ Forced(row[i]).hash = row[i].hash
          /\ Forced(row[i]).ctx = row[i].ctx /\ Forced(row[i]).l1 = "pending" /\ Forced(row[i]).status = "force_pending"
      BY <2>6, ForcedIs, ForcedKeeps
    <2>8. j.id = i /\ j.path = row[i].path /\ j.hash = row[i].hash /\ j.ctx \in {none, row[i].ctx}
      <3>1. CASE force
        <4>1. r = [Forced(row[i]) EXCEPT !.ctx = none]
          BY <2>3, <3>1
        <4>2. [r EXCEPT !.l1 = row[i].l1].path = row[i].path /\ [r EXCEPT !.l1 = row[i].l1].hash = row[i].hash
              /\ [r EXCEPT !.l1 = row[i].l1].ctx = none
          BY <2>7, <4>1 DEF Rows
        <4> QED
          BY <2>4, <4>2 DEF Job
      <3>2. CASE ~force
        <4>1. [r EXCEPT !.l1 = row[i].l1].path = row[i].path /\ [r EXCEPT !.l1 = row[i].l1].hash = row[i].hash
              /\ [r EXCEPT !.l1 = row[i].l1].ctx = row[i].ctx
          BY <2>3, <2>6, <3>2 DEF Rows
        <4> QED
          BY <2>4, <4>1 DEF Job
      <3> QED
        BY <3>1, <3>2
    <2>9. Begin(p, c)
      BY <2>1, <2>3, <2>4, <2>5
    <2>10. At0(p) /\ \A o \in Live : row[o].l1 # "running"
      BY <1>0, <2>9, QuietRuns DEF Begin, At0, Runs
    <2>11. RowsOK' /\ Live' = Live /\ (\A o \in Live : row'[o].l1 # "running")
           /\ row'[i].hash = row[i].hash /\ row'[i].ctx = row[i].ctx
      <3>1. CASE force
        <4>1. row' = [row EXCEPT ![i] = Forced(row[i])]
          BY <2>1, <3>1
        <4>2. RowOK(Forced(row[i]))
          BY <1>0, <2>6, <2>7 DEF RowsOK, RowOK
        <4>3. PICK n : n = Forced(row[i])
          OBVIOUS
        <4>4. RowsOK' /\ Live' = Live
          BY <1>0, <2>2, <2>6, <2>7, <4>1, <4>2, <4>3, OneRow
        <4> QED
          BY <2>6, <2>7, <2>10, <4>1, <4>4 DEF Live
      <3>2. CASE ~force
        <4>1. UNCHANGED row
          BY <2>1, <3>2
        <4> QED
          BY <1>0, <2>2, <2>10, <4>1, FewerRows DEF Live
      <3> QED
        BY <3>1, <3>2
    <2>12. CmdOK(c)'
      <3>1. AllJobs(c) = {j} /\ c.at = "selecting" /\ c.kind \in {"register", "reforce"}
        BY <2>5 DEF AllJobs
      <3>2. JobOK(c.kind, j)'
        BY <2>2, <2>6, <2>8, <2>11 DEF JobOK
      <3> QED
        BY <2>5, <3>1, <3>2 DEF CmdOK, Kinds
    <2>13. ScanOK(c)'
      BY <2>5 DEF ScanOK, Generating, Scans
    <2> QED
      BY <1>0, <2>9, <2>11, <2>12, <2>13, TidyStep
  <1>2. CASE RetryL1(p)
    <2>1. PICK T \in SUBSET Live :
            /\ row' = [i \in Live |-> IF i \in T
                          THEN [Restart(row[i]) EXCEPT !.status = "pending", !.reason = "none"] ELSE row[i]]
            /\ Begin(p, [at |-> "selecting", kind |-> "retry", jobs |-> {Job(i, row[i]) : i \in T}])
      BY <1>2 DEF RetryL1
    <2>2. UNCHANGED <<page, vault>>
      BY <1>2 DEF RetryL1
    <2>3. PICK c : c = [at |-> "selecting", kind |-> "retry", jobs |-> {Job(i, row[i]) : i \in T}]
      OBVIOUS
    <2>4. Begin(p, c)
      BY <2>1, <2>3
    <2>5. At0(p) /\ \A o \in Live : row[o].l1 # "running"
      BY <1>0, <2>4, QuietRuns DEF Begin, At0, Runs
    <2>6. ASSUME NEW i \in Live
          PROVE  /\ [Restart(row[i]) EXCEPT !.status = "pending", !.reason = "none"].ctx = row[i].ctx
                 /\ [Restart(row[i]) EXCEPT !.status = "pending", !.reason = "none"].hash = row[i].hash
                 /\ [Restart(row[i]) EXCEPT !.status = "pending", !.reason = "none"].l1 = "pending"
                 /\ [Restart(row[i]) EXCEPT !.status = "pending", !.reason = "none"].status = "pending"
      BY <1>0 DEF Restart, Rows
    <2>7. /\ Live' = Live
          /\ \A i \in Live : /\ row'[i].ctx = row[i].ctx /\ row'[i].hash = row[i].hash
                             /\ \/ row'[i] = row[i]
                                \/ row'[i].status = "pending" /\ row'[i].l1 = "pending"
      BY <2>1, <2>6 DEF Live
    <2>8. RowsOK'
      <3>1. PagesApart'
        BY <1>0, <2>7 DEF RowsOK, PagesApart
      <3>2. ASSUME NEW i \in Live PROVE RowOK(row[i])'
        BY <1>0, <2>2, <2>7 DEF RowsOK, RowOK
      <3> QED
        BY <2>7, <3>1, <3>2 DEF RowsOK
    <2>9. \A i \in Live' : row'[i].l1 # "running"
      BY <2>5, <2>7
    <2>10. CmdOK(c)'
      <3>1. AllJobs(c) = {Job(i, row[i]) : i \in T} /\ c.at = "selecting" /\ c.kind = "retry"
        BY <2>3 DEF AllJobs
      <3>2. ASSUME NEW j \in AllJobs(c) PROVE JobOK(c.kind, j)'
        <4>1. PICK i \in Live : j = Job(i, row[i])
          BY <3>1
        <4> QED
          BY <2>7, <3>1, <4>1 DEF JobOK, Job
      <3>3. ASSUME NEW j \in AllJobs(c), NEW o \in AllJobs(c), j.id = o.id PROVE j = o
        BY <3>1, <3>3 DEF Job
      <3> QED
        BY <3>1, <3>2, <3>3 DEF CmdOK, Kinds
    <2>11. ScanOK(c)'
      BY <2>3 DEF ScanOK, Generating, Scans
    <2> QED
      BY <1>0, <2>4, <2>8, <2>9, <2>10, <2>11, TidyStep
  <1> QED
    BY <1>1, <1>2

LEMMA TidyMark ==
  ASSUME TidyInv, NEW p \in Procs, Quiet(p), MarkRunning(p)
  PROVE  Tidy'
  <1>0. /\ CalmInv /\ Tidy /\ RowsOK /\ \A i \in Live : row[i] \in Rows
        /\ CmdOK(cmd[p]) /\ calm \subseteq Procs
    BY DEF TidyInv, Tidy, CalmInv, Base, Registry, Commands
  <1>1. PICK j \in cmd[p].jobs :
          /\ IF cmd[p].kind = "retry" \/ j.id \notin Live THEN UNCHANGED row
             ELSE row' = [row EXCEPT ![j.id] = Layer(@, "l1", "running", FALSE)]
          /\ Go(p, [at |-> "parsing", kind |-> cmd[p].kind, jobs |-> cmd[p].jobs \ {j}, job |-> j])
    BY DEF MarkRunning
  <1>2. cmd[p].at = "selecting" /\ UNCHANGED <<page, vault>>
    BY DEF MarkRunning
  <1>3. PICK c : c = [at |-> "parsing", kind |-> cmd[p].kind, jobs |-> cmd[p].jobs \ {j}, job |-> j]
    OBVIOUS
  <1>4. /\ c.at = "parsing" /\ c.kind = cmd[p].kind /\ c.job = j /\ c.job \notin c.jobs
        /\ AllJobs(c) = AllJobs(cmd[p]) /\ j \in AllJobs(cmd[p])
    BY <1>2, <1>3 DEF AllJobs
  <1>5. \A i \in Live : row[i].l1 # "running"
    BY <1>0, <1>2, QuietRuns DEF Runs
  <1>6. j.id \in Live /\ row[j.id] \in Rows
    BY <1>0, <1>2, <1>4 DEF CmdOK, JobOK, Generating
  <1>7. PICK n : n = Layer(row[j.id], "l1", "running", FALSE)
    OBVIOUS
  <1>8. /\ n.ctx = row[j.id].ctx /\ n.path = row[j.id].path /\ n.hash = row[j.id].hash
        /\ n.status = row[j.id].status /\ n.l1 = "running"
    <2>1. "running" \in State /\ "l1" \in {"l1", "l2", "l3", "l4"}
      BY DEF State
    <2>2. Layer(row[j.id], "l1", "running", FALSE).ctx = row[j.id].ctx
          /\ Layer(row[j.id], "l1", "running", FALSE).path = row[j.id].path
          /\ Layer(row[j.id], "l1", "running", FALSE).l1 = "running"
      BY <1>6, <2>1, Layered
    <2>3. Layer(row[j.id], "l1", "running", FALSE).hash = row[j.id].hash
          /\ Layer(row[j.id], "l1", "running", FALSE).status = row[j.id].status
      BY <1>6, <2>1, LayerIs
    <2> QED
      BY <1>7, <2>2, <2>3
  <1>9. \/ cmd[p].kind = "retry" /\ UNCHANGED row
        \/ cmd[p].kind # "retry" /\ row' = [row EXCEPT ![j.id] = n]
    BY <1>1, <1>6, <1>7
  <1>10. RowsOK' /\ Live' = Live
    <2>1. CASE UNCHANGED row
      BY <1>0, <1>2, <2>1, FewerRows DEF Live
    <2>2. CASE row' = [row EXCEPT ![j.id] = n]
      <3>1. RowOK(n)
        BY <1>0, <1>6, <1>8 DEF RowsOK, RowOK
      <3> QED
        BY <1>0, <1>2, <1>6, <1>8, <2>2, <3>1, OneRow
    <2> QED
      BY <1>9, <2>1, <2>2
  <1>11. \A i \in Live : /\ row'[i].ctx = row[i].ctx /\ row'[i].hash = row[i].hash /\ row'[i].path = row[i].path
                         /\ i # j.id => row'[i] = row[i]
    BY <1>6, <1>8, <1>9 DEF Live
  <1>12. \A i \in Live' : row'[i].l1 = "running" => Runs(c, i)
    BY <1>4, <1>5, <1>9, <1>10, <1>11 DEF Runs
  <1>13. CmdOK(c)'
    <2>1. ASSUME NEW o \in AllJobs(c) PROVE JobOK(c.kind, o)'
      <3>1. JobOK(c.kind, o)
        BY <1>0, <1>2, <1>4 DEF CmdOK, Generating
      <3> QED
        BY <1>2, <1>10, <1>11, <3>1 DEF JobOK
    <2> QED
      BY <1>0, <1>2, <1>4, <2>1 DEF CmdOK, Generating
  <1>14. ASSUME p \in calm' PROVE ScanOK(c)'
    <2>1. ScanOK(cmd[p])
      BY <1>0, <1>1, <1>14 DEF Go, Tidy
    <2>2. ASSUME c.kind \in Scans
          PROVE  Filed({})' /\ \A i \in Live' : Finished(i, c.kind = "force")' \/ \E o \in AllJobs(c) : o.id = i
      <3>1. Filed({})
            /\ \A i \in Live : Finished(i, c.kind = "force") \/ \E o \in AllJobs(c) : o.id = i
        BY <1>2, <1>4, <2>1, <2>2 DEF ScanOK, Generating
      <3>2. Filed({})'
        BY <1>2, <1>10, <1>11, <3>1 DEF Filed, At
      <3>3. ASSUME NEW i \in Live PROVE Finished(i, c.kind = "force")' \/ \E o \in AllJobs(c) : o.id = i
        <4>1. CASE i = j.id
          BY <1>4, <4>1
        <4>2. CASE i # j.id
          BY <1>11, <3>1, <4>2 DEF Finished
        <4> QED
          BY <4>1, <4>2
      <3> QED
        BY <1>10, <3>2, <3>3
    <2> QED
      BY <1>4, <2>2 DEF ScanOK
  <1> QED
    BY <1>0, <1>1, <1>3, <1>10, <1>12, <1>13, <1>14, TidyStep

LEMMA TidyWrite ==
  ASSUME TidyInv, NEW p \in Procs, Quiet(p), WritePage(p)
  PROVE  Tidy'
  <1>0. /\ CalmInv /\ Tidy /\ RowsOK /\ \A i \in Live : row[i] \in Rows
        /\ CmdOK(cmd[p]) /\ calm \subseteq Procs /\ Held(cmd[p]) /\ Files
    BY DEF TidyInv, Tidy, CalmInv, Base, Registry, Commands
  <1>1. PICK j : j = cmd[p].job
    OBVIOUS
  <1>2. /\ cmd[p].at = "parsing" /\ vault[j.path] # none /\ UNCHANGED <<vault, row>>
    BY <1>1 DEF WritePage
  <1>3. PICK d \in Ctxs :
          /\ IF j.ctx # none THEN d = j.ctx ELSE d \notin InUse
          /\ page' = [page EXCEPT ![d] = [text |-> vault[j.path], hash |-> j.hash]]
          /\ Go(p, [at |-> "linking", kind |-> cmd[p].kind, jobs |-> cmd[p].jobs, job |-> j, ctx |-> d])
    BY <1>1 DEF WritePage
  <1>4. PICK c : c = [at |-> "linking", kind |-> cmd[p].kind, jobs |-> cmd[p].jobs, job |-> j, ctx |-> d]
    OBVIOUS
  <1>5. /\ c.at = "linking" /\ c.kind = cmd[p].kind /\ c.job = j /\ c.jobs = cmd[p].jobs /\ c.ctx = d
        /\ AllJobs(c) = AllJobs(cmd[p]) /\ j \in AllJobs(cmd[p])
    BY <1>1, <1>2, <1>4 DEF AllJobs
  <1>6. JobOK(cmd[p].kind, j)
    BY <1>0, <1>2, <1>5 DEF CmdOK, Generating
  <1>7. page'[d] # none /\ page'[d].hash = j.hash /\ \A e \in Ctxs : e # d => page'[e] = page[e]
    <2>1. j \in Jobs
      BY <1>0, <1>1, <1>2 DEF Held
    <2>2. vault[j.path] \in Texts /\ j.hash \in Texts
      BY <1>0, <1>2, <2>1 DEF Files, Jobs
    <2>3. [text |-> vault[j.path], hash |-> j.hash] \in [text : Texts, hash : Texts]
      BY <2>2
    <2>4. page'[d] = [text |-> vault[j.path], hash |-> j.hash] /\ \A e \in Ctxs : e # d => page'[e] = page[e]
      BY <1>0, <1>3 DEF Files
    <2> QED
      BY <2>3, <2>4, TextAssumption
  <1>8. \A i \in Live : row[i].ctx = d => i = j.id
    <2>1. CASE j.ctx # none
      <3>1. d = row[j.id].ctx /\ j.id \in Live /\ d # none
        BY <1>3, <1>6, <2>1 DEF JobOK
      <3> QED
        BY <1>0, <3>1 DEF RowsOK, PagesApart
    <2>2. CASE j.ctx = none
      BY <1>3, <2>2 DEF InUse
    <2> QED
      BY <2>1, <2>2
  <1>9. RowsOK' /\ Live' = Live
    <2>1. Live' = Live /\ PagesApart'
      BY <1>0, <1>2 DEF RowsOK, PagesApart, Live
    <2>2. ASSUME NEW i \in Live PROVE RowOK(row[i])'
      <3>1. RowOK(row[i]) /\ row'[i] = row[i] /\ row[i].ctx \in Ctxs \cup {none}
        BY <1>0, <1>2 DEF RowsOK, Rows
      <3>2. CASE row[i].ctx = d
        BY <1>2, <1>6, <1>7, <1>8, <3>1, <3>2 DEF RowOK, JobOK
      <3>3. CASE row[i].ctx # d
        BY <1>2, <1>7, <3>1, <3>3 DEF RowOK
      <3> QED
        BY <3>2, <3>3
    <2> QED
      BY <2>1, <2>2 DEF RowsOK
  <1>10. \A i \in Live' : row'[i].l1 = "running" => Runs(c, i)
    <2>1. ASSUME NEW i \in Live, row[i].l1 = "running" PROVE Runs(c, i)
      <3>1. Runs(cmd[p], i)
        BY <1>0, <2>1, QuietRuns
      <3> QED
        BY <1>1, <1>5, <3>1 DEF Runs
    <2> QED
      BY <1>2, <1>9, <2>1
  <1>11. CmdOK(c)'
    <2>1. ASSUME NEW o \in AllJobs(c) PROVE JobOK(c.kind, o)'
      <3>1. JobOK(c.kind, o)
        BY <1>0, <1>2, <1>5 DEF CmdOK, Generating
      <3> QED
        BY <1>2, <1>9, <3>1 DEF JobOK
    <2>2. page'[c.ctx] # none /\ page'[c.ctx].hash = c.job.hash /\ \A i \in Live' : row'[i].ctx = c.ctx => i = c.job.id
      BY <1>2, <1>5, <1>7, <1>8, <1>9
    <2>3. c.job \notin c.jobs
      BY <1>0, <1>1, <1>2, <1>5 DEF CmdOK
    <2> QED
      BY <1>0, <1>2, <1>5, <2>1, <2>2, <2>3 DEF CmdOK, Generating
  <1>12. ASSUME p \in calm' PROVE ScanOK(c)'
    <2>1. ScanOK(cmd[p])
      BY <1>0, <1>3, <1>12 DEF Go, Tidy
    <2> QED
      BY <1>2, <1>5, <1>9, <2>1 DEF ScanOK, Generating, Filed, Finished, At
  <1> QED
    BY <1>0, <1>3, <1>4, <1>9, <1>10, <1>11, <1>12, TidyStep

(* A source that is generated, or failed, is finished; the others go on.   *)
LEMMA TidyNext ==
  ASSUME TidyInv, NEW p \in Procs, Quiet(p), cmd[p].at \in {"parsing", "linking"}, Go(p, Next0(cmd[p])),
         NEW n, n.path = row[cmd[p].job.id].path, n.hash = row[cmd[p].job.id].hash, n.l1 # "running",
         cmd[p].kind \in Scans => n.l1 \in {"done", "error"},
         row' = [row EXCEPT ![cmd[p].job.id] = n], RowsOK', UNCHANGED vault
  PROVE  Tidy'
  <1>0. CalmInv /\ Tidy /\ CmdOK(cmd[p]) /\ calm \subseteq Procs
    BY DEF TidyInv, Tidy, CalmInv, Base
  <1>1. PICK i : i = cmd[p].job.id
    OBVIOUS
  <1>2. PICK c : c = Next0(cmd[p])
    OBVIOUS
  <1>3. /\ c.at = "selecting" /\ c.kind = cmd[p].kind /\ c.jobs = cmd[p].jobs /\ AllJobs(c) = c.jobs
        /\ AllJobs(cmd[p]) = c.jobs \cup {cmd[p].job}
    BY <1>2 DEF Next0, AllJobs
  <1>4. \A o \in AllJobs(cmd[p]) : JobOK(c.kind, o)
    BY <1>0, <1>3 DEF CmdOK, Generating
  <1>5. ASSUME NEW o \in c.jobs PROVE o.id # i
    BY <1>0, <1>1, <1>3, <1>5 DEF CmdOK, Generating
  <1>6. i \in Live
    BY <1>1, <1>3, <1>4 DEF JobOK
  <1>7. Live' = Live /\ row'[i] = n /\ \A o \in Live : o # i => row'[o] = row[o]
    BY <1>1, <1>6 DEF Live
  <1>8. ASSUME NEW o \in Live' PROVE row'[o].l1 # "running"
    <2>1. CASE o = i
      BY <1>7, <2>1
    <2>2. CASE o # i
      BY <1>0, <1>1, <1>7, <2>2, QuietRuns DEF Runs
    <2> QED
      BY <2>1, <2>2
  <1>9. CmdOK(c)'
    <2>1. ASSUME NEW o \in c.jobs PROVE JobOK(c.kind, o)'
      BY <1>3, <1>4, <1>5, <1>7 DEF JobOK
    <2>2. c.kind \in Kinds /\ \A o, u \in AllJobs(c) : o.id = u.id => o = u
      BY <1>0, <1>3 DEF CmdOK, Generating
    <2> QED
      BY <1>3, <2>1, <2>2 DEF CmdOK
  <1>10. ASSUME p \in calm' PROVE ScanOK(c)'
    <2>1. ScanOK(cmd[p])
      BY <1>0, <1>10 DEF Go, Tidy
    <2>2. ASSUME c.kind \in Scans
          PROVE  Filed({})' /\ \A o \in Live' : Finished(o, c.kind = "force")' \/ \E j \in AllJobs(c) : j.id = o
      <3>1. Filed({})
            /\ \A o \in Live : Finished(o, c.kind = "force") \/ \E j \in AllJobs(cmd[p]) : j.id = o
        BY <1>3, <2>1, <2>2 DEF ScanOK, Generating
      <3>2. Filed({})'
        BY <1>1, <1>7, <3>1 DEF Filed, At
      <3>3. ASSUME NEW o \in Live PROVE Finished(o, c.kind = "force")' \/ \E j \in AllJobs(c) : j.id = o
        <4>1. CASE o = i
          BY <1>3, <1>7, <2>2, <4>1 DEF Finished
        <4>2. CASE o # i
          <5>1. CASE Finished(o, c.kind = "force")
            BY <1>7, <4>2, <5>1 DEF Finished
          <5>2. CASE \E j \in AllJobs(cmd[p]) : j.id = o
            BY <1>1, <1>3, <4>2, <5>2
          <5> QED
            BY <3>1, <5>1, <5>2
        <4> QED
          BY <4>1, <4>2
      <3> QED
        BY <1>7, <3>2, <3>3
    <2> QED
      BY <1>3, <2>2 DEF ScanOK
  <1> QED
    BY <1>0, <1>2, <1>8, <1>9, <1>10, TidyStep

LEMMA TidyLink ==
  ASSUME TidyInv, NEW p \in Procs, Quiet(p), LinkPage(p)
  PROVE  Tidy'
  <1>0. /\ CalmInv /\ Tidy /\ RowsOK /\ \A i \in Live : row[i] \in Rows
        /\ CmdOK(cmd[p]) /\ Held(cmd[p])
    BY DEF TidyInv, Tidy, CalmInv, Base, Registry, Commands
  <1>1. PICK i : i = cmd[p].job.id
    OBVIOUS
  <1>2. cmd[p].at = "linking" /\ UNCHANGED <<page, vault>> /\ cmd[p].ctx \in Ctxs /\ cmd[p].ctx # none
    BY <1>0, IdAssumption DEF LinkPage, Held
  <1>3. JobOK(cmd[p].kind, cmd[p].job)
    BY <1>0, <1>2 DEF CmdOK, Generating, AllJobs
  <1>4. i \in Live /\ row[i] \in Rows /\ cmd[p].job.hash = row[i].hash
    BY <1>0, <1>1, <1>3 DEF JobOK
  <1>5. PICK n : n = [Layer(row[i], "l1", "done", FALSE) EXCEPT !.ctx = cmd[p].ctx]
    OBVIOUS
  <1>6. row' = [row EXCEPT ![i] = n] /\ Go(p, Next0(cmd[p]))
    BY <1>1, <1>4, <1>5 DEF LinkPage
  <1>7. n.ctx = cmd[p].ctx /\ n.path = row[i].path /\ n.hash = row[i].hash /\ n.l1 = "done"
    BY <1>4, <1>5 DEF Layer, Rows
  <1>8. RowsOK'
    <2>1. /\ page[cmd[p].ctx] # none /\ page[cmd[p].ctx].hash = row[i].hash
          /\ \A o \in Live : row[o].ctx = cmd[p].ctx => o = i
      BY <1>0, <1>1, <1>2, <1>4 DEF CmdOK
    <2>2. Live' = Live /\ row'[i] = n /\ \A o \in Live : o # i => row'[o] = row[o]
      BY <1>4, <1>6 DEF Live
    <2>3. PagesApart'
      BY <1>0, <1>7, <2>1, <2>2 DEF RowsOK, PagesApart
    <2>4. ASSUME NEW o \in Live PROVE RowOK(row[o])'
      BY <1>0, <1>2, <1>7, <2>1, <2>2 DEF RowsOK, RowOK
    <2> QED
      BY <2>2, <2>3, <2>4 DEF RowsOK
  <1> QED
    BY <1>1, <1>2, <1>6, <1>7, <1>8, TidyNext

LEMMA TidyFails ==
  ASSUME TidyInv, NEW p \in Procs, Quiet(p), L1Fails(p)
  PROVE  Tidy'
  <1>0. /\ CalmInv /\ Tidy /\ RowsOK /\ \A i \in Live : row[i] \in Rows /\ (row[i].l1 = "done" => row[i].ctx # none)
        /\ CmdOK(cmd[p]) /\ KnowsJobs(row, cmd[p])
    BY DEF TidyInv, Tidy, CalmInv, Base, Registry, DoneHasContext
  <1>1. PICK j : j = cmd[p].job
    OBVIOUS
  <1>2. cmd[p].at = "parsing" /\ UNCHANGED <<page, vault>> /\ Go(p, Next0(cmd[p]))
    BY DEF L1Fails
  <1>3. JobOK(cmd[p].kind, j) /\ cmd[p].kind \in Kinds
    BY <1>0, <1>1, <1>2 DEF CmdOK, Generating, AllJobs
  <1>4. j.id \in Live /\ row[j.id] \in Rows /\ RowOK(row[j.id])
    BY <1>0, <1>3 DEF JobOK, RowsOK
  <1>5. PICK e : e = IF vault[j.path] = none THEN row[j.id] ELSE Layer(row[j.id], "l1", "error", TRUE)
    OBVIOUS
  <1>6. PICK n : n = IF j.done /\ j.ctx # none /\ cmd[p].kind \in {"add", "register"} THEN Layer(e, "l1", "done", FALSE)
                     ELSE IF cmd[p].kind \in Scans THEN Layer(e, "l1", "error", TRUE)
                     ELSE e
    OBVIOUS
  <1>7. row' = [row EXCEPT ![j.id] = n]
    BY <1>1, <1>4, <1>5, <1>6 DEF L1Fails, SetRow, Scans
  <1>8. ASSUME NEW r \in Rows, NEW s \in {"done", "error"}, NEW why \in BOOLEAN
        PROVE  /\ Layer(r, "l1", s, why) \in Rows
               /\ Layer(r, "l1", s, why).path = r.path /\ Layer(r, "l1", s, why).hash = r.hash
               /\ Layer(r, "l1", s, why).ctx = r.ctx /\ Layer(r, "l1", s, why).status = r.status
               /\ Layer(r, "l1", s, why).l1 = s
    BY DEF Layer, Rows, State
  <1>9. /\ e \in Rows /\ e.path = row[j.id].path /\ e.hash = row[j.id].hash
        /\ e.ctx = row[j.id].ctx /\ e.status = row[j.id].status
        /\ IF vault[j.path] = none THEN e.l1 = row[j.id].l1 ELSE e.l1 = "error"
    BY <1>4, <1>5, <1>8
  <1>10. /\ n.path = e.path /\ n.hash = e.hash /\ n.ctx = e.ctx /\ n.status = e.status
         /\ n.l1 = IF j.done /\ j.ctx # none /\ cmd[p].kind \in {"add", "register"} THEN "done"
                   ELSE IF cmd[p].kind \in Scans THEN "error" ELSE e.l1
    BY <1>6, <1>8, <1>9
  <1>11. n.l1 # "running"
    <2>1. CASE cmd[p].kind \in Scans
      BY <1>10, <2>1
    <2>2. CASE cmd[p].kind \in {"register", "reforce"}
      BY <1>3, <1>9, <1>10, <2>2 DEF JobOK
    <2>3. CASE cmd[p].kind = "retry"
      <3>1. row[j.id].l1 # "running"
        BY <1>0, <1>4, <2>3, QuietRuns DEF Runs
      <3> QED
        BY <1>9, <1>10, <2>3, <3>1 DEF Scans
    <2> QED
      BY <1>3, <2>1, <2>2, <2>3 DEF Kinds, Scans
  <1>12. cmd[p].kind \in Scans => n.l1 \in {"done", "error"}
    BY <1>10
  <1>13. RowsOK'
    <2>1. j.ctx # none /\ cmd[p].kind \in {"add", "register"} => row[j.id].ctx # none
      BY <1>0, <1>1, <1>2, <1>4 DEF KnowsJobs, Knows, Live
    <2>2. n.status = "error" /\ n.ctx = none => n.l1 \in {"error", "running"}
      BY <1>4, <1>9, <1>10, <2>1 DEF RowOK
    <2>3. n.l1 # "skipped"
      BY <1>4, <1>9, <1>10 DEF RowOK
    <2>4. RowOK(n)
      BY <1>4, <1>9, <1>10, <2>2, <2>3 DEF RowOK
    <2> QED
      BY <1>0, <1>2, <1>4, <1>7, <1>9, <1>10, <2>4, OneRow
  <1> QED
    BY <1>1, <1>2, <1>7, <1>9, <1>10, <1>11, <1>12, <1>13, TidyNext

LEMMA TidyGenerate ==
  ASSUME TidyInv, NEW p \in Procs, Quiet(p), Generate(p, Opened)
  PROVE  Tidy'
  <1>1. CASE EndCommand(p)
    <2>1. CalmInv /\ Tidy /\ RowsOK
      BY DEF TidyInv, Tidy
    <2>2. cmd[p].at = "selecting" /\ Go(p, Idle) /\ UNCHANGED <<row, page, vault>>
      BY <1>1 DEF EndCommand
    <2>3. RowsOK'
      BY <2>1, <2>2, FewerRows DEF Live
    <2>4. CmdOK(Idle)' /\ ScanOK(Idle)'
      BY DEF CmdOK, ScanOK, Idle, Generating
    <2>5. \A i \in Live' : row'[i].l1 # "running"
      BY <2>1, <2>2, QuietRuns DEF Runs, Live
    <2> QED
      BY <2>1, <2>2, <2>3, <2>4, <2>5, TidyStep
  <1> QED
    BY <1>1, TidyBegin, TidyMark, TidyWrite, TidyLink, TidyFails DEF Generate

-----------------------------------------------------------------------------
(* Steps of a reemit, of the pipeline, the plugin and the user             *)

(* A step of a reemit is no step of a scan, and no L1 is running.          *)
LEMMA ReemitStep ==
  ASSUME TidyInv, NEW p \in Procs, Quiet(p), NEW c, Go(p, c) \/ Begin(p, c), ~(cmd[p].at \in {"parsing", "linking"}),
         RowsOK', Live' \subseteq Live, \A i \in Live' : row'[i].l1 = row[i].l1,
         c.at \in {"reading", "settling", "cleaning", "unlinking", "idle"},
         c.at = "cleaning" => \A i \in Live' : row'[i].ctx \in c.current
  PROVE  Tidy'
  <1>1. CalmInv /\ Tidy
    BY DEF TidyInv
  <1>2. \A i \in Live' : row'[i].l1 # "running"
    BY <1>1, QuietRuns DEF Runs
  <1>3. CmdOK(c)' /\ ScanOK(c)'
    BY DEF CmdOK, ScanOK, Generating
  <1> QED
    BY <1>1, <1>2, <1>3, TidyStep

LEMMA TidyReemit ==
  ASSUME TidyInv, NEW p \in Procs, Quiet(p), Reemit(p)
  PROVE  Tidy'
  <1>0. RowsOK /\ CmdOK(cmd[p]) /\ \A i \in Live : row[i] \in Rows
    BY DEF TidyInv, Tidy, CalmInv, Base, Registry
  <1>1. UNCHANGED <<row, page>> => RowsOK' /\ Live' \subseteq Live /\ \A i \in Live' : row'[i].l1 = row[i].l1
    BY <1>0, FewerRows DEF Live
  <1>2. CASE Remove(p)
    <2>1. PICK i \in Live, unlink \in BOOLEAN :
            /\ Retire({i})
            /\ Begin(p, [at |-> "reading", unlink |-> unlink, path |-> row[i].path])
      BY <1>2 DEF Remove
    <2>2. DOMAIN row' = Live \ {i} /\ (\A o \in DOMAIN row' : row'[o] = row[o]) /\ UNCHANGED page
      BY <1>2, <2>1 DEF Remove, Retire, Restrict, Live
    <2>3. RowsOK' /\ Live' \subseteq Live /\ \A o \in Live' : row'[o].l1 = row[o].l1
      BY <1>0, <2>2, FewerRows DEF Live
    <2>4. cmd[p].at = "idle"
      BY <2>1 DEF Begin, At0
    <2> QED
      BY <2>1, <2>3, <2>4, ReemitStep
  <1>3. CASE StartReemit(p)
    <2>1. PICK q \in Paths : Begin(p, [at |-> "reading", unlink |-> FALSE, path |-> q])
      BY <1>3 DEF StartReemit
    <2>2. cmd[p].at = "idle" /\ UNCHANGED <<row, page>>
      BY <1>3, <2>1 DEF StartReemit, Begin, At0
    <2> QED
      BY <1>1, <2>1, <2>2, ReemitStep
  <1>4. CASE ReadStatuses(p)
    <2>1. PICK S, R, C, T : Go(p, Settling(cmd[p], S, R, C, T))
      BY <1>4 DEF ReadStatuses
    <2>2. Settling(cmd[p], S, R, C, T).at = "settling"
      BY DEF Settling
    <2>3. cmd[p].at = "reading" /\ UNCHANGED <<row, page>>
      BY <1>4 DEF ReadStatuses
    <2> QED
      BY <1>1, <2>1, <2>2, <2>3, ReemitStep
  <1>5. CASE SettleRow(p)
    <2>1. PICK t \in cmd[p].rows :
            /\ SetRow(t[1], IF t[1] \in Live THEN Settled(row[t[1]], t[2], t[1] \in cmd[p].serving,
                                       t[1] \in cmd[p].reported, t[1] \in cmd[p].cited) ELSE t[2])
            /\ Go(p, Settling(cmd[p], cmd[p].serving, cmd[p].reported, cmd[p].cited, cmd[p].rows \ {t}))
      BY <1>5 DEF SettleRow
    <2>2. PICK c : c = Settling(cmd[p], cmd[p].serving, cmd[p].reported, cmd[p].cited, cmd[p].rows \ {t})
      OBVIOUS
    <2>3. c.at = "settling" /\ cmd[p].at = "settling" /\ UNCHANGED page
      BY <1>5, <2>2 DEF Settling, SettleRow
    <2> DEFINE n == Settled(row[t[1]], t[2], t[1] \in cmd[p].serving, t[1] \in cmd[p].reported, t[1] \in cmd[p].cited)
    <2>4. t[1] \in Live => n.ctx = row[t[1]].ctx /\ n.l1 = row[t[1]].l1
      BY <1>0, SettledIs
    <2>5. t[1] \in Live => n.hash = row[t[1]].hash /\ n.status = row[t[1]].status
      BY <1>0, SettledKeeps
    <2>6. SetRow(t[1], IF t[1] \in Live THEN n ELSE t[2])
      BY <2>1
    <2> HIDE DEF n
    <2>7. Light
      BY <2>4, <2>5, <2>6 DEF SetRow, Light, Live
    <2>8. RowsOK' /\ Live' \subseteq Live /\ \A i \in Live' : row'[i].l1 = row[i].l1
      BY <1>0, <2>3, <2>7, LightRows DEF Light
    <2> QED
      BY <2>1, <2>2, <2>3, <2>8, ReemitStep
  <1>6. CASE ReadContexts(p)
    <2>1. PICK c : /\ c = [at |-> "cleaning", unlink |-> cmd[p].unlink, path |-> cmd[p].path,
                           current |-> {row[i].ctx : i \in Live}]
                   /\ Go(p, c)
      BY <1>6 DEF ReadContexts
    <2>2. cmd[p].at = "settling" /\ UNCHANGED <<row, page>>
      BY <1>6 DEF ReadContexts
    <2>3. c.at = "cleaning" /\ \A i \in Live' : row'[i].ctx \in c.current
      BY <2>1, <2>2 DEF Live
    <2> QED
      BY <1>1, <2>1, <2>2, <2>3, ReemitStep
  <1>7. CASE CleanContexts(p)
    <2>1. PICK c : c = [at |-> "unlinking", unlink |-> cmd[p].unlink, path |-> cmd[p].path] /\ Go(p, c)
      BY <1>7 DEF CleanContexts
    <2>2. /\ cmd[p].at = "cleaning" /\ UNCHANGED row
          /\ page' = [d \in Ctxs |-> IF d \in cmd[p].current THEN page[d] ELSE none]
      BY <1>7 DEF CleanContexts
    <2>3. \A i \in Live : row[i].ctx \in cmd[p].current
      BY <1>0, <2>2 DEF CmdOK
    <2>4. RowsOK'
      <3>1. PagesApart' /\ Live' = Live
        BY <1>0, <2>2 DEF RowsOK, PagesApart, Live
      <3>2. ASSUME NEW i \in Live PROVE RowOK(row[i])'
        <4>1. RowOK(row[i]) /\ row[i].ctx \in Ctxs \cup {none} /\ row[i].ctx \in cmd[p].current /\ row'[i] = row[i]
          BY <1>0, <2>2, <2>3 DEF RowsOK, Rows
        <4>2. row[i].ctx # none => page'[row[i].ctx] = page[row[i].ctx]
          BY <2>2, <4>1
        <4> QED
          BY <4>1, <4>2 DEF RowOK
      <3> QED
        BY <3>1, <3>2 DEF RowsOK
    <2>5. Live' \subseteq Live /\ \A i \in Live' : row'[i].l1 = row[i].l1
      BY <2>2 DEF Live
    <2> QED
      BY <2>1, <2>2, <2>4, <2>5, ReemitStep
  <1>8. CASE Unlink(p)
    <2>1. Go(p, Idle) /\ Idle.at = "idle" /\ cmd[p].at = "unlinking" /\ UNCHANGED <<row, page>>
      BY <1>8 DEF Unlink, Idle
    <2> QED
      BY <1>1, <2>1, ReemitStep
  <1> QED
    BY <1>2, <1>3, <1>4, <1>5, <1>6, <1>7, <1>8 DEF Reemit

LEMMA TidyPipeline ==
  ASSUME TidyInv, AtRest, Pipeline
  PROVE  Tidy'
  <1>0. CalmInv /\ Tidy /\ \A i \in Live : row[i] \in Rows
    BY DEF TidyInv, CalmInv, Base, Registry
  <1>1. Disturb /\ UNCHANGED <<page, vault>>
    BY DEF Pipeline, Compile, Cluster, MarkGaps, Run
  <1>2. Light
    <2>1. CASE Compile
      <3>1. PICK i \in Live : \E r :
              /\ row' = [row EXCEPT ![i] = r]
              /\ \/ \E s \in {"done", "skipped"} : r = [Layer(row[i], "l2", s, FALSE) EXCEPT !.status = "curated"]
                 \/ r = Layer(row[i], "l2", "error", TRUE)
        BY <2>1 DEF Compile
      <3>2. PICK r : /\ row' = [row EXCEPT ![i] = r]
                     /\ \/ \E s \in {"done", "skipped"} : r = [Layer(row[i], "l2", s, FALSE) EXCEPT !.status = "curated"]
                        \/ r = Layer(row[i], "l2", "error", TRUE)
        BY <3>1
      <3>3. ASSUME NEW s \in {"done", "skipped", "error"}, NEW why \in BOOLEAN, NEW l, l = Layer(row[i], "l2", s, why)
            PROVE  /\ l \in Rows /\ l.ctx = row[i].ctx /\ l.l1 = row[i].l1 /\ l.hash = row[i].hash
                   /\ l.status = row[i].status
        <4>1. s \in State /\ "l2" \in {"l1", "l2", "l3", "l4"} /\ row[i] \in Rows
          BY <1>0 DEF State
        <4>2. Layer(row[i], "l2", s, why) \in Rows
          BY <4>1, SMTT(30), Layered
        <4>3. Layer(row[i], "l2", s, why).ctx = row[i].ctx /\ Layer(row[i], "l2", s, why).l1 = row[i].l1
          BY <4>1, SMTT(30), Layered
        <4>4. Layer(row[i], "l2", s, why).hash = row[i].hash /\ Layer(row[i], "l2", s, why).status = row[i].status
          BY <4>1, SMTT(30), LayerIs
        <4> QED
          BY <3>3, <4>2, <4>3, <4>4
      <3>4. r.ctx = row[i].ctx /\ r.l1 = row[i].l1 /\ r.hash = row[i].hash /\ r.status \in {row[i].status, "curated"}
        <4>1. CASE r = Layer(row[i], "l2", "error", TRUE)
          BY <3>3, <4>1
        <4>2. ASSUME NEW s \in {"done", "skipped"}, r = [Layer(row[i], "l2", s, FALSE) EXCEPT !.status = "curated"]
              PROVE  r.ctx = row[i].ctx /\ r.l1 = row[i].l1 /\ r.hash = row[i].hash /\ r.status = "curated"
          <5>1. PICK l : l = Layer(row[i], "l2", s, FALSE)
            OBVIOUS
          <5>2. l \in Rows /\ l.ctx = row[i].ctx /\ l.l1 = row[i].l1 /\ l.hash = row[i].hash
            BY <3>3, <5>1
          <5> QED
            BY <4>2, <5>1, <5>2 DEF Rows
        <4> QED
          BY <3>2, <4>1, <4>2
      <3> QED
        BY <3>2, <3>4 DEF Light, Live
    <2>2. CASE Cluster
      <3>1. PICK l3bad, l4bad, R, n : row' = Clustered(l3bad, l4bad, R, n)
        BY <2>2 DEF Cluster
      <3>2. ASSUME NEW i \in Live
            PROVE  /\ row'[i].ctx = row[i].ctx /\ row'[i].l1 = row[i].l1 /\ row'[i].hash = row[i].hash
                   /\ row'[i].status = row[i].status
        <4> DEFINE why == l3bad \/ l4bad
                   l3 == IF l3bad THEN "error" ELSE IF i \in R THEN "done" ELSE "skipped"
                   l4 == IF l4bad THEN "error" ELSE IF n /\ i \in R THEN "done" ELSE "skipped"
        <4>1. row'[i] = IF row[i].l2 # "done" THEN row[i] ELSE [row[i] EXCEPT !.why = why, !.l3 = l3, !.l4 = l4]
          BY <3>1 DEF Clustered
        <4> HIDE DEF why, l3, l4
        <4> QED
          BY <1>0, <4>1 DEF Rows
      <3>3. DOMAIN row' = Live
        BY <3>1 DEF Clustered
      <3> QED
        BY <3>2, <3>3 DEF Light, Live
    <2>3. CASE MarkGaps
      BY <1>0, <2>3 DEF MarkGaps, Light, Rows, Live
    <2> QED
      BY <2>1, <2>2, <2>3 DEF Pipeline
  <1> QED
    BY <1>0, <1>1, <1>2, TidyWorld

LEMMA TidyPlugin ==
  ASSUME TidyInv, Plugin \/ (AtRest /\ User)
  PROVE  Tidy'
  <1>0. CalmInv /\ Tidy /\ \A i \in Live : row[i] \in Rows
    BY DEF TidyInv, CalmInv, Base, Registry
  <1>1. CASE RelocateSource
    <2>1. Light
      BY <1>0, <1>1 DEF RelocateSource, Light, Rows, Live
    <2>2. Disturb /\ UNCHANGED <<page, vault>>
      BY <1>1 DEF RelocateSource
    <2> QED
      BY <1>0, <2>1, <2>2, TidyWorld
  <1>2. CASE MarkMissing
    <2>1. Light
      BY <1>0, <1>2 DEF MarkMissing, Light, Rows, Live
    <2>2. Disturb /\ UNCHANGED <<page, vault>>
      BY <1>2 DEF MarkMissing
    <2> QED
      BY <1>0, <2>1, <2>2, TidyWorld
  <1>3. CASE AtRest /\ User
    <2>1. Disturb /\ UNCHANGED <<page, row>>
      BY <1>3 DEF User, WriteFile, DeleteFile, RenameFile, Edited
    <2>2. Light
      BY <2>1 DEF Light, Live
    <2> QED
      BY <1>0, <1>3, <2>1, <2>2, TidyWorld
  <1> QED
    BY <1>1, <1>2, <1>3 DEF Plugin

(* When a scan that nothing interfered with ends, there is a source for every file  *)
(* and a file for every source, at its text, with its page or an error.             *)
LEMMA ScansMatch ==
  ASSUME TidyInv
  PROVE  ScanConverges
  <1> SUFFICES ASSUME NEW p \in calm, EndCommand(p), cmd[p].kind \in {"add", "force", "add_all"}
               PROVE  Matches(cmd[p].kind = "force")
    BY DEF ScanConverges
  <1>1. /\ DoneHasContext /\ Tidy /\ RowsOK /\ ScanOK(cmd[p])
        /\ \A i \in Live : row[i] \in Rows
    BY DEF TidyInv, Tidy, CalmInv, Base, Registry
  <1>2. cmd[p].at = "selecting" /\ cmd[p].jobs = {} /\ AllJobs(cmd[p]) = {}
    BY DEF EndCommand, AllJobs
  <1>3. Filed({}) /\ \A i \in Live : Finished(i, cmd[p].kind = "force")
    BY <1>1, <1>2 DEF ScanOK, Generating, Scans
  <1>4. ASSUME NEW q \in Paths, vault[q] # none
        PROVE  \E i \in At(q) : /\ row[i].hash = vault[q]
                                /\ \/ row[i].l1 = "error"
                                   \/ row[i].l1 = "done" /\ Drifted(row[i].ctx)
                                   \/ row[i].l1 = "done" /\ page[row[i].ctx].text = vault[q]
                                   \/ ~(cmd[p].kind = "force") /\ LeftPending(i)
    <2>1. PICK i \in At(q) : row[i].hash = vault[q]
      BY <1>3, <1>4 DEF Filed
    <2>2. i \in Live
      BY DEF At
    <2>3. RowOK(row[i]) /\ (row[i].l1 = "done" => row[i].ctx # none)
      BY <1>1, <2>2 DEF RowsOK, DoneHasContext
    <2>4. CASE row[i].l1 = "error"
      BY <2>1, <2>4
    <2>5. CASE row[i].l1 = "done"
      BY <2>1, <2>3, <2>5 DEF RowOK, Drifted
    <2>6. CASE ~(cmd[p].kind = "force") /\ row[i].l1 = "pending" /\ row[i].ctx # none
      BY <2>1, <2>3, <2>6 DEF RowOK, LeftPending
    <2> QED
      BY <1>3, <2>2, <2>4, <2>5, <2>6 DEF Finished
  <1> QED
    BY <1>3, <1>4 DEF Matches, Filed

(* A command that nothing interfered with leaves the records as the vault is: what  *)
(* a scan registers and what a reemit settles (ingest_llm.py:262, commands/core.py: *)
(* 802, pipeline/compile.py:1406).                                                   *)
THEOREM CommandsAlwaysConverge == CalmSpec => CommandsConverge
  <1>1. Init => TidyInv /\ CalmReemits
    <2> SUFFICES ASSUME Init PROVE TidyInv /\ CalmReemits
      OBVIOUS
    <2>1. CalmInv
      BY InitCalm
    <2>2. Live = {} /\ calm = {} /\ \A p \in Procs : cmd[p].at = "idle"
      BY DEF Init, Live, Idle
    <2>3. RowsOK /\ \A i \in Live : row[i].l1 # "running"
      BY <2>2 DEF RowsOK, PagesApart
    <2>4. \A p \in Procs : CmdOK(cmd[p])
      BY <2>2 DEF CmdOK, Generating
    <2> QED
      BY <2>1, <2>2, <2>3, <2>4 DEF TidyInv, Tidy, CalmReemits
  <1>2. TidyInv /\ CalmReemits /\ [CalmNext]_vars => TidyInv' /\ CalmReemits'
    <2> SUFFICES ASSUME TidyInv, CalmReemits, [CalmNext]_vars PROVE TidyInv' /\ CalmReemits'
      OBVIOUS
    <2>1. CalmInv' /\ Base /\ CalmInv
      BY CalmKeeps DEF TidyInv, CalmInv
    <2>2. ASSUME NEW p \in Procs, \A o \in Procs \ {p} : At0(o), Command(p, Opened)
          PROVE  Tidy' /\ CalmReemits'
      <3>1. Quiet(p)
        BY <2>2 DEF Quiet
      <3> QED
        BY <2>1, <2>2, <3>1, TidyDiscover, TidyGenerate, TidyReemit, DiscoverKnows, GenerateKnows, ReemitsKnow
        DEF Command
    <2>3. CASE AtRest /\ Pipeline
      <3>1. Disturb
        BY <2>3 DEF Pipeline, Compile, Cluster, MarkGaps, Run
      <3> QED
        BY <2>1, <2>3, <3>1, TidyPipeline, WorldKnows DEF TidyInv
    <2>4. CASE Plugin \/ (AtRest /\ User)
      <3>1. Disturb
        BY <2>4 DEF Plugin, RelocateSource, MarkMissing, User, WriteFile, DeleteFile, RenameFile, Edited
      <3> QED
        BY <2>1, <2>4, <3>1, TidyPlugin, WorldKnows DEF TidyInv
    <2>5. CASE UNCHANGED vars
      <3>1. Tidy'
        <4>1. UNCHANGED <<vault, row, page, cmd, calm>>
          BY <2>5 DEF vars
        <4>2. RowsOK' /\ Tidy
          BY <4>1, FewerRows DEF TidyInv, Tidy, Live
        <4>3. \A p \in Procs : CmdOK(cmd[p])'
          BY <4>1, <4>2 DEF Tidy, CmdOK, JobOK, Live
        <4>4. \A p \in calm' : ScanOK(cmd[p])'
          BY <4>1, <4>2 DEF Tidy, ScanOK, Filed, Finished, At, Live
        <4> QED
          BY <4>1, <4>2, <4>3, <4>4 DEF Tidy, Live
      <3> QED
        BY <2>1, <2>5, <3>1, KnowsStays DEF TidyInv
    <2> QED
      BY <2>1, <2>2, <2>3, <2>4, <2>5 DEF CalmNext, TidyInv
  <1>3. TidyInv /\ CalmReemits => ScanConverges /\ ReemitTruthful
    BY ScansMatch, ReemitsEnd DEF TidyInv, CalmInv
  <1> QED
    BY <1>1, <1>2, <1>3, PTL DEF CalmSpec, CommandsConverge
=============================================================================
