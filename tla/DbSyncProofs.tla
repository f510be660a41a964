---------------------------- MODULE DbSyncProofs ----------------------------
(***************************************************************************)
(* Proofs about DbSync, for any number of devices, keys and processes, any *)
(* clocks and any bounds.                                                  *)
(***************************************************************************)
EXTENDS DbSync, TLAPS

Entry == [row : Nat, tomb : Nat]
Proper(e) == e.row = 0 \/ e.tomb = 0

LocalWriteAt(d, k) == Add(d, k) \/ Update(d, k) \/ Delete(d, k)

(* What an import does to one entry. *)
MergeEntry(e, t) == MergeRow(MergeTomb(e, t.tomb), t.row)

-----------------------------------------------------------------------------
(* The merge of two entries *)

LEMMA SameEntry ==
    ASSUME NEW e \in Entry, NEW f \in Entry, e.row = f.row, e.tomb = f.tomb PROVE e = f
  BY DEF Entry

LEMMA RowEntry ==
    ASSUME NEW r \in Nat
    PROVE  Row(r) \in Entry /\ Row(r).row = r /\ Row(r).tomb = 0 /\ Proper(Row(r))
  BY DEF Row, Entry, Proper

LEMMA TombEntry ==
    ASSUME NEW t \in Nat
    PROVE  /\ Tombstone(t) \in Entry /\ Tombstone(t).row = 0
           /\ Tombstone(t).tomb = t /\ Proper(Tombstone(t))
  BY DEF Tombstone, Entry, Proper

LEMMA LaterNat == ASSUME NEW a \in Nat, NEW b \in Nat PROVE Later(a, b) \in Nat
  BY DEF Later

LEMMA MergedTomb ==
    ASSUME NEW e \in Entry, NEW t \in Nat
    PROVE  /\ MergeTomb(e, t) \in Entry
           /\ Proper(e) => Proper(MergeTomb(e, t))
  BY TombEntry DEF MergeTomb

LEMMA MergedRow ==
    ASSUME NEW e \in Entry, NEW r \in Nat
    PROVE  /\ MergeRow(e, r) \in Entry
           /\ Proper(e) => Proper(MergeRow(e, r))
  <1>1. Later(e.row, r) \in Nat
    BY LaterNat DEF Entry
  <1> QED
    BY <1>1, RowEntry DEF MergeRow

(* A merged entry is one, with a row or a tombstone and not both.          *)
LEMMA Merged ==
    ASSUME NEW e \in Entry, NEW t \in Entry
    PROVE  /\ MergeEntry(e, t) \in Entry
           /\ Proper(e) => Proper(MergeEntry(e, t))
  <1>1. t.row \in Nat /\ t.tomb \in Nat
    BY DEF Entry
  <1> QED
    BY <1>1, MergedTomb, MergedRow DEF MergeEntry

(* When a merge leaves an entry alone. *)
LEMMA Absorbs ==
    ASSUME NEW e \in Entry, NEW t \in Entry, Proper(e),
           e.tomb >= t.tomb \/ e.row > t.tomb,
           e.tomb >= t.row \/ (e.tomb = 0 /\ e.row >= t.row)
    PROVE  MergeEntry(e, t) = e
  <1>1. e.row \in Nat /\ e.tomb \in Nat /\ t.row \in Nat /\ t.tomb \in Nat
    BY DEF Entry
  <1>2. MergeTomb(e, t.tomb) = e
    BY DEF MergeTomb
  <1>3. CASE e.tomb >= t.row
    BY <1>2, <1>3 DEF MergeEntry, MergeRow
  <1>4. CASE ~(e.tomb >= t.row)
    <2>1. e.tomb = 0 /\ Later(e.row, t.row) = e.row
      BY <1>1, <1>4 DEF Later
    <2>2. Row(e.row) = e
      BY <1>1, <2>1, RowEntry, SameEntry
    <2> QED
      BY <1>2, <1>4, <2>1, <2>2 DEF MergeEntry, MergeRow
  <1> QED
    BY <1>3, <1>4

(* And only then. *)
LEMMA AbsorbedOnlyIf ==
    ASSUME NEW e \in Entry, NEW t \in Entry, Proper(e), MergeEntry(e, t) = e
    PROVE  /\ e.tomb >= t.tomb \/ e.row > t.tomb
           /\ e.tomb >= t.row \/ (e.tomb = 0 /\ e.row >= t.row)
  <1>1. e.row \in Nat /\ e.tomb \in Nat /\ t.row \in Nat /\ t.tomb \in Nat
    BY DEF Entry
  <1>2. CASE e.tomb >= t.tomb \/ e.row > t.tomb
    <2>1. MergeRow(e, t.row) = e
      BY <1>2 DEF MergeEntry, MergeTomb
    <2>2. CASE e.tomb >= t.row
      BY <1>2, <2>2
    <2>3. CASE ~(e.tomb >= t.row)
      <3>1. e = Row(Later(e.row, t.row)) /\ Later(e.row, t.row) \in Nat
        BY <1>1, <2>1, <2>3, LaterNat DEF MergeRow
      <3>2. e.tomb = 0 /\ e.row = Later(e.row, t.row)
        BY <3>1, RowEntry
      <3> QED
        BY <1>1, <1>2, <3>2 DEF Later
    <2> QED
      BY <2>2, <2>3
  <1>3. CASE ~(e.tomb >= t.tomb \/ e.row > t.tomb)
    <2>1. MergeEntry(e, t) = MergeRow(Tombstone(t.tomb), t.row)
      BY <1>3 DEF MergeEntry, MergeTomb
    <2>2. Tombstone(t.tomb).tomb = t.tomb /\ Tombstone(t.tomb).row = 0
      BY <1>1, TombEntry
    <2>3. CASE t.tomb >= t.row
      <3>1. MergeEntry(e, t) = Tombstone(t.tomb)
        BY <2>1, <2>2, <2>3 DEF MergeRow
      <3> QED
        BY <1>1, <1>3, <2>2, <3>1
    <2>4. CASE ~(t.tomb >= t.row)
      <3>1. MergeEntry(e, t) = Row(Later(0, t.row)) /\ Later(0, t.row) = t.row
        BY <1>1, <2>1, <2>2, <2>4 DEF MergeRow, Later
      <3>2. e.row = t.row
        BY <1>1, <3>1, RowEntry
      <3> QED
        BY <1>1, <1>3, <2>4, <3>2
    <2> QED
      BY <2>3, <2>4
  <1> QED
    BY <1>2, <1>3

(* A merge goes forward or nowhere. *)
LEMMA MergeAdvances ==
    ASSUME NEW e \in Entry, NEW t \in Entry, Proper(e), MergeEntry(e, t) # e
    PROVE  Supersedes(MergeEntry(e, t), e)
  <1>1. e.row \in Nat /\ e.tomb \in Nat /\ t.row \in Nat /\ t.tomb \in Nat
    BY DEF Entry
  <1>2. CASE e.tomb >= t.tomb \/ e.row > t.tomb
    <2>1. MergeEntry(e, t) = MergeRow(e, t.row) /\ ~(e.tomb >= t.row)
      BY <1>2 DEF MergeEntry, MergeTomb, MergeRow
    <2>2. MergeEntry(e, t) = Row(Later(e.row, t.row))
      BY <2>1 DEF MergeRow
    <2>3. ~(e.tomb = 0 /\ e.row >= t.row)
      BY <1>2, Absorbs
    <2>4. t.row > e.row /\ t.row > e.tomb
      BY <1>1, <2>1, <2>3 DEF Proper
    <2>5. MergeEntry(e, t).row = t.row /\ MergeEntry(e, t).tomb = 0
      BY <1>1, <2>2, <2>4, RowEntry DEF Later
    <2> QED
      BY <1>1, <2>4, <2>5 DEF Supersedes, Version, Later
  <1>3. CASE ~(e.tomb >= t.tomb \/ e.row > t.tomb)
    <2>1. MergeEntry(e, t) = MergeRow(Tombstone(t.tomb), t.row)
      BY <1>3 DEF MergeEntry, MergeTomb
    <2>2. Tombstone(t.tomb).tomb = t.tomb /\ Tombstone(t.tomb).row = 0
      BY <1>1, TombEntry
    <2>3. CASE t.tomb >= t.row
      <3>1. MergeEntry(e, t) = Tombstone(t.tomb)
        BY <2>1, <2>2, <2>3 DEF MergeRow
      <3> QED
        BY <1>1, <1>3, <2>2, <3>1 DEF Supersedes, Version, Later, Proper
    <2>4. CASE ~(t.tomb >= t.row)
      <3>1. MergeEntry(e, t) = Row(t.row)
        BY <1>1, <2>1, <2>2, <2>4 DEF MergeRow, Later
      <3>2. MergeEntry(e, t).row = t.row /\ MergeEntry(e, t).tomb = 0
        BY <1>1, <3>1, RowEntry
      <3> QED
        BY <1>1, <1>3, <2>4, <3>2 DEF Supersedes, Version, Later
    <2> QED
      BY <2>3, <2>4
  <1> QED
    BY <1>2, <1>3

(* What was merged once has nothing to give. *)
LEMMA MergeTwice ==
    ASSUME NEW e \in Entry, NEW t \in Entry, Proper(e)
    PROVE  MergeEntry(MergeEntry(e, t), t) = MergeEntry(e, t)
  <1>1. e.row \in Nat /\ e.tomb \in Nat /\ t.row \in Nat /\ t.tomb \in Nat
    BY DEF Entry
  <1>2. MergeEntry(e, t) \in Entry /\ Proper(MergeEntry(e, t))
    BY Merged
  <1>3. PICK m \in Entry : m = MergeTomb(e, t.tomb)
    BY <1>1, MergedTomb
  <1>4. (m.tomb >= t.tomb \/ m.row > t.tomb) /\ Proper(m)
    BY <1>1, <1>3, TombEntry, MergedTomb DEF MergeTomb
  <1>5. MergeEntry(e, t) = MergeRow(m, t.row)
    BY <1>3 DEF MergeEntry
  <1>6. CASE m.tomb >= t.row
    <2>1. MergeEntry(e, t) = m
      BY <1>5, <1>6 DEF MergeRow
    <2> QED
      BY <1>4, <1>6, <2>1, Absorbs
  <1>7. CASE ~(m.tomb >= t.row)
    <2>1. m.row \in Nat /\ m.tomb \in Nat
      BY DEF Entry
    <2>2. MergeEntry(e, t) = Row(Later(m.row, t.row)) /\ Later(m.row, t.row) \in Nat
      BY <1>1, <1>5, <1>7, <2>1, LaterNat DEF MergeRow
    <2>3. MergeEntry(e, t).row = Later(m.row, t.row) /\ MergeEntry(e, t).tomb = 0
      BY <2>2, RowEntry
    <2>4. MergeEntry(e, t).row > t.tomb /\ MergeEntry(e, t).row >= t.row
      BY <1>1, <1>4, <1>7, <2>1, <2>3 DEF Later
    <2> QED
      BY <1>2, <2>3, <2>4, Absorbs
  <1> QED
    BY <1>6, <1>7

(* And never will have, however the entry advances. *)
LEMMA AbsorbedStays ==
    ASSUME NEW e \in Entry, NEW n \in Entry, NEW t \in Entry, Proper(e), Proper(n),
           MergeEntry(e, t) = e, Supersedes(n, e)
    PROVE  MergeEntry(n, t) = n
  <1>1. /\ e.row \in Nat /\ e.tomb \in Nat /\ t.row \in Nat /\ t.tomb \in Nat
        /\ n.row \in Nat /\ n.tomb \in Nat
    BY DEF Entry
  <1>2. /\ e.tomb >= t.tomb \/ e.row > t.tomb
        /\ e.tomb >= t.row \/ (e.tomb = 0 /\ e.row >= t.row)
    BY AbsorbedOnlyIf
  <1>3. Version(e) >= t.tomb /\ Version(e) >= t.row
    BY <1>1, <1>2 DEF Version, Later
  <1>4. CASE n.row = 0
    <2>1. n.tomb >= Version(e)
      BY <1>1, <1>4 DEF Supersedes, Version, Later
    <2> QED
      BY <1>1, <1>3, <2>1, Absorbs DEF Version, Later
  <1>5. CASE n.row # 0
    <2>1. n.tomb = 0 /\ n.row > Version(e)
      BY <1>1, <1>5 DEF Supersedes, Version, Later, Proper
    <2> QED
      BY <1>1, <1>3, <2>1, Absorbs DEF Version, Later
  <1> QED
    BY <1>4, <1>5
-----------------------------------------------------------------------------
(* Types *)

LEMMA FloorNat == ASSUME NEW t \in Nat PROVE Floor(t) \in Nat
  BY ConstantsAssumption DEF Floor

LEMMA NothingType == Nothing \in Entries
  BY DEF Nothing, Absent, Entries

LEMMA MergeType ==
    ASSUME NEW mine \in Entries, NEW theirs \in Entries
    PROVE  Merge(mine, theirs) \in Entries
  <1>1. \A k \in Keys : MergeEntry(mine[k], theirs[k]) \in Entry
    BY Merged DEF Entries, Entry
  <1> QED
    BY <1>1 DEF Merge, MergeEntry, Entries, Entry

LEMMA InitType == Init => TypeOK
  <1> SUFFICES ASSUME Init PROVE TypeOK
    OBVIOUS
  <1>1. PICK S \in Initial :
           LET before == [k \in Keys |-> IF k \in S THEN Row(Second) ELSE Absent] IN
           /\ db = [d \in Devices |-> before]
           /\ file = [d \in Devices |-> before]
           /\ copy = [d \in Devices |-> [e \in Devices |-> before]]
           /\ exported = [d \in Devices |-> IF S = {} THEN Never ELSE Second]
    BY DEF Init
  <1>2. [k \in Keys |-> IF k \in S THEN Row(Second) ELSE Absent] \in Entries
    BY ConstantsAssumption DEF Row, Absent, Entries
  <1>3. /\ db \in [Devices -> Entries] /\ file \in [Devices -> Entries]
        /\ copy \in [Devices -> [Devices -> Entries]]
        /\ exported \in [Devices -> Nat]
    BY <1>1, <1>2, ConstantsAssumption DEF Never
  <1> QED
    BY <1>3, NothingType, ConstantsAssumption DEF Init, TypeOK, Labels, Never

(* A local write keeps the types. *)
LEMMA WriteType ==
    ASSUME TypeOK, NEW d \in Devices, NEW k \in Keys, NEW entry \in Entry, Write(d, k, entry)
    PROVE  TypeOK'
  <1>1. db' \in [Devices -> Entries]
    BY DEF TypeOK, Write, Entries, Entry
  <1>2. writes' \in 0 .. MaxWrites
    BY ConstantsAssumption DEF TypeOK, Write
  <1> QED
    BY <1>1, <1>2 DEF TypeOK, Write, state, transit, scan, exporting, ghosts

(* The entries that are written are entries. *)
LEMMA Written ==
    ASSUME TypeOK, NEW d \in Devices, NEW k \in Keys, LocalWriteAt(d, k)
    PROVE  \E entry \in Entry :
              /\ Write(d, k, entry) /\ Proper(entry)
              /\ Proper(db[d][k]) => Supersedes(entry, db[d][k])
  <1>1. /\ db[d][k] \in Entry /\ db[d][k].row \in Nat /\ db[d][k].tomb \in Nat
        /\ clock[d] \in Nat /\ clock[d] > 0
    BY ConstantsAssumption DEF TypeOK, Entries, Entry
  <1>2. CASE Add(d, k)
    <2> DEFINE r == IF db[d][k].tomb >= clock[d] THEN db[d][k].tomb + 1 ELSE clock[d]
    <2>1. r \in Nat /\ r > db[d][k].tomb /\ r > 0
      BY <1>1
    <2>2. Write(d, k, Row(r)) /\ db[d][k].row = 0
      BY <1>2 DEF Add
    <2>3. Supersedes(Row(r), db[d][k])
      BY <1>1, <2>1, <2>2, RowEntry DEF Supersedes, Version, Later
    <2> QED
      BY <2>1, <2>2, <2>3, RowEntry
  <1>3. CASE Update(d, k)
    <2> DEFINE r == Later(clock[d], db[d][k].row + 1)
    <2>1. r \in Nat /\ r > db[d][k].row
      BY <1>1 DEF Later
    <2>2. Write(d, k, Row(r)) /\ db[d][k].row # 0
      BY <1>3 DEF Update
    <2>3. Proper(db[d][k]) => Supersedes(Row(r), db[d][k])
      BY <1>1, <2>1, <2>2, RowEntry DEF Supersedes, Version, Later, Proper
    <2> QED
      BY <2>1, <2>2, <2>3, RowEntry
  <1>4. CASE Delete(d, k)
    <2> DEFINE t == Later(clock[d], db[d][k].row) + 1
    <2>1. t \in Nat /\ t > db[d][k].row
      BY <1>1 DEF Later
    <2>2. Write(d, k, Tombstone(t)) /\ db[d][k].row # 0
      BY <1>4 DEF Delete
    <2>3. Proper(db[d][k]) => Supersedes(Tombstone(t), db[d][k])
      BY <1>1, <2>1, <2>2, TombEntry DEF Supersedes, Version, Later, Proper
    <2> QED
      BY <2>1, <2>2, <2>3, TombEntry
  <1> QED
    BY <1>2, <1>3, <1>4 DEF LocalWriteAt

LEMMA LocalWriteType ==
    ASSUME TypeOK, NEW d \in Devices, NEW k \in Keys, LocalWriteAt(d, k)
    PROVE  TypeOK'
  <1>1. PICK entry \in Entry : Write(d, k, entry)
    BY Written
  <1> QED
    BY <1>1, WriteType

(* Every step, of any process on any device, keeps the types; of a pass,   *)
(* that it looks at peers only.                                            *)
LEMMA TypeStep == TypeOK /\ [Next]_vars => TypeOK'
  <1> SUFFICES ASSUME TypeOK, [Next]_vars PROVE TypeOK'
    OBVIOUS
  <1> USE ConstantsAssumption DEF TypeOK, Labels, Goto, Never,
          local, state, transit, scan, exporting, ghosts
  <1>1. ASSUME NEW d \in Devices, NEW k \in Keys, LocalWriteAt(d, k) PROVE TypeOK'
    <2> HIDE DEF TypeOK
    <2> QED
      BY <1>1, LocalWriteType
  <1>2. ASSUME NEW d \in Devices, Tick(d) PROVE TypeOK'
    BY <1>2 DEF Tick
  <1>3. ASSUME NEW d \in Devices, NEW e \in Devices, Deliver(d, e) PROVE TypeOK'
    BY <1>3 DEF Deliver
  <1>4. ASSUME NEW p \in Procs, StartPass(p) PROVE TypeOK'
    BY <1>4 DEF StartPass, CanStart
  <1>5. ASSUME NEW p \in Procs, StartExport(p) PROVE TypeOK'
    BY <1>5 DEF StartExport
  <1>6. ASSUME NEW p \in Procs, NEW e \in Devices, Peek(p, e) PROVE TypeOK'
    <2>1. todo' = [todo EXCEPT ![p] = @ \ {e}] /\ e \in todo[p]
      BY <1>6 DEF Peek
    <2>2. CASE e \in seen[Home[p]]
      BY <1>6, <2>1, <2>2 DEF Peek
    <2>3. CASE e \notin seen[Home[p]]
      <3>1. /\ pc' = [pc EXCEPT ![p] = "peeked"]
            /\ peeked' = [peeked EXCEPT ![p] = {e}]
            /\ fresh' = [fresh EXCEPT ![p] = @ \cup {e}]
        BY <1>6, <2>3 DEF Peek
      <3>2. \A q \in Procs : Home[q] \notin todo'[q] \cup peeked'[q] \cup fresh'[q]
        BY <2>1, <3>1
      <3> QED
        BY <1>6, <2>1, <3>1, <3>2 DEF Peek
    <2> QED
      BY <2>2, <2>3
  <1>7. ASSUME NEW p \in Procs, ImportFile(p) PROVE TypeOK'
    <2>1. PICK e \in peeked[p] :
             LET d == Home[p]
                 merged == Merge(db[d], copy[d][e]) IN
             /\ db' = [db EXCEPT ![d] = merged]
             /\ changed' = [changed EXCEPT ![p] = @ \/ merged # db[d]]
             /\ own' = [own EXCEPT ![d] = {k \in @ : merged[k] = db[d][k]}]
      BY <1>7 DEF ImportFile
    <2>2. Merge(db[Home[p]], copy[Home[p]][e]) \in Entries
      BY MergeType
    <2> QED
      BY <1>7, <2>1, <2>2 DEF ImportFile
  <1>8. ASSUME NEW p \in Procs, EndPass(p) PROVE TypeOK'
    BY <1>8 DEF EndPass
  <1>9. ASSUME NEW p \in Procs, Decide(p) PROVE TypeOK'
    BY <1>9 DEF Decide
  <1>10. ASSUME NEW p \in Procs, ReadTombstones(p) PROVE TypeOK'
    <2>1. Floor(clock[Home[p]]) \in Nat
      BY FloorNat
    <2>2. [k \in Keys |-> Tombstone(db[Home[p]][k].tomb)] \in Entries
      BY DEF Tombstone, Entries
    <2> QED
      BY <1>10, <2>1, <2>2 DEF ReadTombstones
  <1>11. ASSUME NEW p \in Procs, ReadRows(p) PROVE TypeOK'
    <2>1. [k \in Keys |-> [snap[p][k] EXCEPT !.row = db[Home[p]][k].row]] \in Entries
      <3>1. ASSUME NEW k \in Keys
            PROVE  [snap[p][k] EXCEPT !.row = db[Home[p]][k].row] \in [row : Nat, tomb : Nat]
        <4>1. /\ snap[p][k] \in [row : Nat, tomb : Nat]
              /\ db[Home[p]][k] \in [row : Nat, tomb : Nat]
          BY DEF Entries
        <4> QED
          BY <4>1
      <3> QED
        BY <3>1 DEF Entries
    <2> QED
      BY <1>11, <2>1 DEF ReadRows
  <1>12. ASSUME NEW p \in Procs, ReplaceFile(p) PROVE TypeOK'
    BY <1>12, NothingType DEF ReplaceFile
  <1>13. ASSUME NEW p \in Procs, Record(p) PROVE TypeOK'
    BY <1>13 DEF Record
  <1>14. ASSUME NEW p \in Procs, CutShort(p) PROVE TypeOK'
    BY <1>14, NothingType DEF CutShort
  <1>15. CASE UNCHANGED vars
    BY <1>15 DEF vars
  <1> QED
    BY <1>1, <1>2, <1>3, <1>4, <1>5, <1>6, <1>7, <1>8, <1>9, <1>10, <1>11, <1>12,
       <1>13, <1>14, <1>15 DEF Next, LocalWrite, LocalWriteAt, Step

(* The shape of the state, and "a device never imports its own file".      *)
THEOREM TypeCorrect == Spec => []TypeOK
  BY InitType, TypeStep, PTL DEF Spec

-----------------------------------------------------------------------------
(* What a step does to the entries *)

LEMMA InitProper == Init => RowOrTombstone
  BY DEF Init, RowOrTombstone, Row, Absent

(* An import takes every entry forward, or leaves it. *)
LEMMA ImportAdvances ==
    ASSUME TypeOK, RowOrTombstone, NEW p \in Procs, ImportFile(p),
           NEW d \in Devices, NEW k \in Keys, db'[d][k] # db[d][k]
    PROVE  Proper(db'[d][k]) /\ Supersedes(db'[d][k], db[d][k])
  <1>1. PICK e \in peeked[p] : db' = [db EXCEPT ![Home[p]] = Merge(db[Home[p]], copy[Home[p]][e])]
    BY DEF ImportFile
  <1>2. d = Home[p] /\ e \in Devices
    BY <1>1 DEF TypeOK
  <1>3. db[d][k] \in Entry /\ copy[d][e][k] \in Entry /\ Proper(db[d][k])
    BY <1>2 DEF TypeOK, Entries, Entry, RowOrTombstone, Proper
  <1>4. db'[d][k] = MergeEntry(db[d][k], copy[d][e][k])
    BY <1>1, <1>2 DEF TypeOK, Merge, MergeEntry
  <1> QED
    BY <1>3, <1>4, Merged, MergeAdvances

(* Every step takes every entry forward, or leaves it. *)
LEMMA StepAdvances ==
    ASSUME TypeOK, RowOrTombstone, [Next]_vars, NEW d \in Devices, NEW k \in Keys,
           db'[d][k] # db[d][k]
    PROVE  Proper(db'[d][k]) /\ Supersedes(db'[d][k], db[d][k])
  <1>1. ASSUME NEW c \in Devices, NEW j \in Keys, LocalWriteAt(c, j)
        PROVE  Proper(db'[d][k]) /\ Supersedes(db'[d][k], db[d][k])
    <2>1. PICK entry \in Entry :
             /\ Write(c, j, entry) /\ Proper(entry)
             /\ Proper(db[c][j]) => Supersedes(entry, db[c][j])
      BY <1>1, Written
    <2>2. db' = [db EXCEPT ![c][j] = entry]
      BY <2>1 DEF Write
    <2>3. c = d
      BY <2>2 DEF TypeOK
    <2>4. db'[d] = [db[d] EXCEPT ![j] = entry]
      BY <2>2, <2>3 DEF TypeOK
    <2>5. j = k /\ db'[d][k] = entry
      BY <2>4 DEF TypeOK, Entries
    <2>6. Proper(db[d][k])
      BY DEF RowOrTombstone, Proper
    <2>7. Proper(entry) /\ Supersedes(entry, db[d][k])
      BY <2>1, <2>3, <2>5, <2>6
    <2> QED
      BY <2>5, <2>7
  <1>2. ASSUME NEW p \in Procs, ImportFile(p)
        PROVE  Proper(db'[d][k]) /\ Supersedes(db'[d][k], db[d][k])
    BY <1>2, ImportAdvances
  <1> QED
    BY <1>1, <1>2 DEF Next, LocalWrite, LocalWriteAt, Step, Tick, Deliver, StartPass, StartExport,
       Peek, EndPass, Decide, ReadTombstones, ReadRows, ReplaceFile, Record, CutShort,
       vars, local

LEMMA ProperStep == TypeOK /\ RowOrTombstone /\ [Next]_vars => RowOrTombstone'
  <1> SUFFICES ASSUME TypeOK, RowOrTombstone, [Next]_vars, NEW d \in Devices, NEW k \in Keys
               PROVE  Proper(db'[d][k])
    BY DEF RowOrTombstone, Proper
  <1> QED
    BY StepAdvances DEF RowOrTombstone, Proper

(* A key has a row or a tombstone, not both, on every device: whatever is  *)
(* imported, from files however old, and whatever is written in between.   *)
THEOREM RowOrTombstoneAlways == Spec => []RowOrTombstone
  BY InitType, TypeStep, InitProper, ProperStep, PTL DEF Spec

(* No import and no write, with clocks set to anything, takes an entry     *)
(* back.                                                                   *)
THEOREM EntriesOnlyAdvance == Spec => EntriesAdvance
  <1>1. TypeOK /\ RowOrTombstone /\ [Next]_vars
          => [\A d \in Devices, k \in Keys :
                 db'[d][k] # db[d][k] => Supersedes(db'[d][k], db[d][k])]_vars
    BY StepAdvances
  <1> QED
    BY <1>1, TypeCorrect, RowOrTombstoneAlways, PTL DEF Spec, EntriesAdvance

-----------------------------------------------------------------------------
(* What is skipped was merged.  The checkpoints are those of the files the  *)
(* pass has read, so the invariant follows a file from the reading of its   *)
(* header: it is merged, or its import comes next.                          *)

Absorbed(d, e) ==
    \A k \in Keys : MergeEntry(db[d][k], copy[d][e][k]) = db[d][k]

SeenIsMerged == \A d, e \in Devices : e \in seen[d] => Absorbed(d, e)

ReadIsMerged ==
    \A p \in Procs :
        /\ pc[p] # "peeked" => peeked[p] = {}
        /\ \A e, f \in peeked[p] : e = f
        /\ \A e \in fresh[p] \ peeked[p] : Absorbed(Home[p], e)

SkipInv == TypeOK /\ RowOrTombstone /\ SeenIsMerged /\ ReadIsMerged

LEMMA SeenIsSkipped == TypeOK /\ SeenIsMerged => SkippedIsMerged
  <1> SUFFICES ASSUME TypeOK, NEW d \in Devices, NEW e \in Devices, Absorbed(d, e)
               PROVE  Merge(db[d], copy[d][e]) = db[d]
    BY DEF SeenIsMerged, SkippedIsMerged
  <1>1. db[d] \in [Keys -> Entry]
    BY DEF TypeOK, Entries, Entry
  <1> QED
    BY <1>1 DEF Absorbed, Merge, MergeEntry

LEMMA InitSkip == Init => SkipInv
  <1> SUFFICES ASSUME Init PROVE SkipInv
    OBVIOUS
  <1>1. TypeOK /\ RowOrTombstone
    BY InitType, InitProper
  <1>2. ASSUME NEW d \in Devices, NEW e \in Devices PROVE Absorbed(d, e)
    <2>1. PICK S \in Initial :
             LET before == [k \in Keys |-> IF k \in S THEN Row(Second) ELSE Absent] IN
             /\ db = [c \in Devices |-> before]
             /\ copy = [c \in Devices |-> [f \in Devices |-> before]]
      BY DEF Init
    <2>2. ASSUME NEW k \in Keys PROVE MergeEntry(db[d][k], copy[d][e][k]) = db[d][k]
      <3>1. db[d][k] \in Entry /\ copy[d][e][k] = db[d][k] /\ Proper(db[d][k])
        BY <1>1, <2>1 DEF TypeOK, Entries, Entry, RowOrTombstone, Proper
      <3>2. db[d][k] = Row(Second) \/ db[d][k] = Absent
        BY <2>1
      <3>3. db[d][k].row \in Nat /\ db[d][k].tomb = 0
        BY <3>1, <3>2 DEF Row, Absent, Entry
      <3>4. db[d][k].tomb >= db[d][k].tomb /\ db[d][k].row >= db[d][k].row
        BY <3>3
      <3> QED
        BY <3>1, <3>3, <3>4, Absorbs
    <2> QED
      BY <2>2 DEF Absorbed
  <1> QED
    BY <1>1, <1>2 DEF SkipInv, SeenIsMerged, ReadIsMerged, Init

(* While the copy stays, what was absorbed stays absorbed. *)
LEMMA StaysAbsorbed ==
    ASSUME TypeOK, RowOrTombstone, [Next]_vars, NEW d \in Devices, NEW e \in Devices,
           copy'[d][e] = copy[d][e], Absorbed(d, e)
    PROVE  Absorbed(d, e)'
  <1>1. TypeOK' /\ RowOrTombstone'
    BY TypeStep, ProperStep
  <1>2. ASSUME NEW k \in Keys PROVE MergeEntry(db'[d][k], copy[d][e][k]) = db'[d][k]
    <2>1. db[d][k] \in Entry /\ copy[d][e][k] \in Entry /\ Proper(db[d][k])
      BY DEF TypeOK, Entries, Entry, RowOrTombstone, Proper
    <2>2. db'[d][k] \in Entry /\ Proper(db'[d][k])
      BY <1>1 DEF TypeOK, Entries, Entry, RowOrTombstone, Proper
    <2>3. MergeEntry(db[d][k], copy[d][e][k]) = db[d][k]
      BY DEF Absorbed
    <2>4. CASE db'[d][k] = db[d][k]
      BY <2>3, <2>4
    <2>5. CASE db'[d][k] # db[d][k]
      BY <2>1, <2>2, <2>3, <2>5, StepAdvances, AbsorbedStays
    <2> QED
      BY <2>4, <2>5
  <1> QED
    BY <1>2 DEF Absorbed

(* After an import, what the file holds is absorbed. *)
LEMMA ImportAbsorbs ==
    ASSUME TypeOK, RowOrTombstone, NEW p \in Procs, ImportFile(p), ReadIsMerged,
           NEW e \in peeked[p]
    PROVE  Absorbed(Home[p], e)'
  <1>1. PICK f \in peeked[p] :
           /\ db' = [db EXCEPT ![Home[p]] = Merge(db[Home[p]], copy[Home[p]][f])]
           /\ copy' = copy
    BY DEF ImportFile, transit
  <1>2. e = f /\ e \in Devices /\ Home[p] \in Devices
    BY ConstantsAssumption DEF ReadIsMerged, TypeOK
  <1>3. ASSUME NEW k \in Keys
        PROVE  MergeEntry(db'[Home[p]][k], copy'[Home[p]][e][k]) = db'[Home[p]][k]
    <2>1. /\ db[Home[p]][k] \in Entry /\ copy[Home[p]][e][k] \in Entry
          /\ Proper(db[Home[p]][k])
      BY <1>2 DEF TypeOK, Entries, Entry, RowOrTombstone, Proper
    <2>2. db'[Home[p]][k] = MergeEntry(db[Home[p]][k], copy[Home[p]][e][k])
      BY <1>1, <1>2 DEF TypeOK, Merge, MergeEntry
    <2> QED
      BY <1>1, <2>1, <2>2, MergeTwice
  <1> QED
    BY <1>3 DEF Absorbed

(* Steps that neither read nor deliver a file. *)
LEMMA OtherSteps ==
    ASSUME SkipInv, [Next]_vars, UNCHANGED <<seen, copy, peeked, fresh>>,
           \A p \in Procs : pc'[p] = pc[p] \/ pc[p] # "peeked"
    PROVE  (SeenIsMerged /\ ReadIsMerged)'
  <1>1. ASSUME NEW d \in Devices, NEW e \in Devices, Absorbed(d, e) PROVE Absorbed(d, e)'
    BY <1>1, StaysAbsorbed DEF SkipInv
  <1>2. SeenIsMerged'
    BY <1>1 DEF SkipInv, SeenIsMerged
  <1>3. ASSUME NEW p \in Procs PROVE \A e \in fresh[p] \ peeked[p] : Absorbed(Home[p], e)'
    BY <1>1, ConstantsAssumption DEF SkipInv, ReadIsMerged, TypeOK
  <1>4. ASSUME NEW p \in Procs
        PROVE  /\ pc'[p] # "peeked" => peeked[p] = {}
               /\ \A e, f \in peeked[p] : e = f
    BY DEF SkipInv, ReadIsMerged
  <1> QED
    BY <1>2, <1>3, <1>4 DEF ReadIsMerged

LEMMA SkipStep == SkipInv /\ [Next]_vars => SkipInv'
  <1> SUFFICES ASSUME SkipInv, [Next]_vars PROVE (SeenIsMerged /\ ReadIsMerged)'
    BY TypeStep, ProperStep DEF SkipInv
  <1>0. ASSUME NEW d \in Devices, NEW e \in Devices, copy'[d][e] = copy[d][e], Absorbed(d, e)
        PROVE  Absorbed(d, e)'
    BY <1>0, StaysAbsorbed DEF SkipInv
  <1>1. CASE LocalWrite
    BY <1>1, OtherSteps DEF LocalWrite, Add, Update, Delete, Write, state, transit, scan
  <1>2. ASSUME NEW d \in Devices, Tick(d) PROVE (SeenIsMerged /\ ReadIsMerged)'
    BY <1>2, OtherSteps DEF Tick, state, transit, scan
  <1>3. ASSUME NEW d \in Devices, NEW e \in Devices, Deliver(d, e)
        PROVE  (SeenIsMerged /\ ReadIsMerged)'
    <2>1. /\ copy' = [copy EXCEPT ![d][e] = file[e]]
          /\ seen' = [seen EXCEPT ![d] = @ \ {e}]
          /\ fresh' = [p \in Procs |-> IF Home[p] = d THEN fresh[p] \ {e} ELSE fresh[p]]
          /\ pc' = pc /\ peeked' = peeked
      BY <1>3 DEF Deliver
    <2>2. ASSUME NEW c \in Devices, NEW f \in Devices, c # d \/ f # e
          PROVE  copy'[c][f] = copy[c][f]
      BY <2>1, <2>2 DEF SkipInv, TypeOK
    <2>3. ASSUME NEW c \in Devices, NEW f \in Devices, f \in seen'[c]
          PROVE  Absorbed(c, f)'
      <3>1. f \in seen[c] /\ (c # d \/ f # e)
        BY <2>1, <2>3 DEF SkipInv, TypeOK
      <3> QED
        BY <1>0, <2>2, <3>1 DEF SkipInv, SeenIsMerged
    <2>4. ASSUME NEW p \in Procs, NEW f \in fresh'[p] \ peeked'[p]
          PROVE  Absorbed(Home[p], f)'
      <3>1. /\ f \in fresh[p] \ peeked[p] /\ (Home[p] # d \/ f # e)
            /\ f \in Devices /\ Home[p] \in Devices
        BY <2>1, ConstantsAssumption DEF SkipInv, TypeOK
      <3>2. Absorbed(Home[p], f)
        BY <3>1 DEF SkipInv, ReadIsMerged
      <3> QED
        BY <1>0, <2>2, <3>1, <3>2
    <2> QED
      BY <2>1, <2>3, <2>4 DEF SeenIsMerged, ReadIsMerged, SkipInv
  <1>4. ASSUME NEW p \in Procs, StartPass(p) PROVE (SeenIsMerged /\ ReadIsMerged)'
    BY <1>4, OtherSteps DEF StartPass, CanStart, Goto, state, transit, SkipInv, TypeOK
  <1>5. ASSUME NEW p \in Procs, StartExport(p) PROVE (SeenIsMerged /\ ReadIsMerged)'
    BY <1>5, OtherSteps DEF StartExport, CanStart, Goto, state, transit, scan, SkipInv, TypeOK
  <1>6. ASSUME NEW p \in Procs, NEW e \in Devices, Peek(p, e)
        PROVE  (SeenIsMerged /\ ReadIsMerged)'
    <2>1. /\ pc[p] = "scanning" /\ UNCHANGED <<copy, seen>>
          /\ e \in seen[Home[p]] => UNCHANGED <<pc, peeked, fresh>>
      BY <1>6 DEF Peek, transit, state
    <2>2. CASE e \in seen[Home[p]]
      BY <2>1, <2>2, OtherSteps
    <2>3. CASE e \notin seen[Home[p]]
      <3>1. /\ pc' = [pc EXCEPT ![p] = "peeked"]
            /\ peeked' = [peeked EXCEPT ![p] = {e}]
            /\ fresh' = [fresh EXCEPT ![p] = @ \cup {e}]
        BY <1>6, <2>3 DEF Peek, Goto
      <3>2. SeenIsMerged'
        BY <1>0, <2>1 DEF SkipInv, SeenIsMerged
      <3>3. ASSUME NEW q \in Procs, NEW f \in fresh'[q] \ peeked'[q]
            PROVE  Absorbed(Home[q], f)'
        <4>1. peeked[p] = {}
          BY <2>1 DEF SkipInv, ReadIsMerged
        <4>2. f \in fresh[q] \ peeked[q] /\ f \in Devices /\ Home[q] \in Devices
          BY <3>1, <4>1, ConstantsAssumption DEF SkipInv, TypeOK
        <4> QED
          BY <1>0, <2>1, <4>2 DEF SkipInv, ReadIsMerged
      <3>4. ASSUME NEW q \in Procs
            PROVE  /\ pc'[q] # "peeked" => peeked'[q] = {}
                   /\ \A f, g \in peeked'[q] : f = g
        BY <3>1 DEF SkipInv, ReadIsMerged, TypeOK
      <3> QED
        BY <3>2, <3>3, <3>4 DEF ReadIsMerged
    <2> QED
      BY <2>2, <2>3
  <1>7. ASSUME NEW p \in Procs, ImportFile(p) PROVE (SeenIsMerged /\ ReadIsMerged)'
    <2>1. /\ pc' = [pc EXCEPT ![p] = "scanning"]
          /\ peeked' = [peeked EXCEPT ![p] = {}]
          /\ UNCHANGED <<seen, copy, fresh>>
      BY <1>7 DEF ImportFile, Goto, state, transit
    <2>2. SeenIsMerged'
      BY <1>0, <2>1 DEF SkipInv, SeenIsMerged
    <2>3. ASSUME NEW q \in Procs, NEW f \in fresh'[q] \ peeked'[q]
          PROVE  Absorbed(Home[q], f)'
      <3>1. f \in fresh[q] /\ f \in Devices /\ Home[q] \in Devices
        BY <2>1, ConstantsAssumption DEF SkipInv, TypeOK
      <3>2. CASE f \in peeked[q]
        <4>1. q = p
          BY <2>1, <3>2 DEF SkipInv, TypeOK
        <4> QED
          BY <1>7, <3>2, <4>1, ImportAbsorbs DEF SkipInv
      <3>3. CASE f \notin peeked[q]
        BY <1>0, <2>1, <3>1, <3>3 DEF SkipInv, ReadIsMerged
      <3> QED
        BY <3>2, <3>3
    <2>4. ASSUME NEW q \in Procs
          PROVE  /\ pc'[q] # "peeked" => peeked'[q] = {}
                 /\ \A f, g \in peeked'[q] : f = g
      BY <2>1 DEF SkipInv, ReadIsMerged, TypeOK
    <2> QED
      BY <2>2, <2>3, <2>4 DEF ReadIsMerged
  <1>8. ASSUME NEW p \in Procs, EndPass(p) PROVE (SeenIsMerged /\ ReadIsMerged)'
    <2>1. /\ pc[p] = "scanning" /\ UNCHANGED <<copy, peeked>>
          /\ seen' = [seen EXCEPT ![Home[p]] = @ \cup fresh[p]]
          /\ fresh' = [fresh EXCEPT ![p] = {}]
          /\ pc' = [pc EXCEPT ![p] = "gate"]
      BY <1>8 DEF EndPass, Goto, transit
    <2>2. peeked[p] = {}
      BY <2>1 DEF SkipInv, ReadIsMerged
    <2>3. ASSUME NEW d \in Devices, NEW e \in Devices, e \in seen'[d] PROVE Absorbed(d, e)'
      <3>1. e \in seen[d] \/ (d = Home[p] /\ e \in fresh[p] \ peeked[p])
        BY <2>1, <2>2, <2>3 DEF SkipInv, TypeOK
      <3>2. Absorbed(d, e)
        BY <3>1 DEF SkipInv, SeenIsMerged, ReadIsMerged
      <3> QED
        BY <1>0, <2>1, <3>2
    <2>4. ASSUME NEW q \in Procs, NEW f \in fresh'[q] \ peeked'[q]
          PROVE  Absorbed(Home[q], f)'
      <3>1. f \in fresh[q] \ peeked[q] /\ f \in Devices /\ Home[q] \in Devices
        BY <2>1, ConstantsAssumption DEF SkipInv, TypeOK
      <3> QED
        BY <1>0, <2>1, <3>1 DEF SkipInv, ReadIsMerged
    <2>5. ASSUME NEW q \in Procs
          PROVE  /\ pc'[q] # "peeked" => peeked'[q] = {}
                 /\ \A f, g \in peeked'[q] : f = g
      BY <2>1 DEF SkipInv, ReadIsMerged, TypeOK
    <2> QED
      BY <2>3, <2>4, <2>5 DEF SeenIsMerged, ReadIsMerged
  <1>9. ASSUME NEW p \in Procs, Decide(p) PROVE (SeenIsMerged /\ ReadIsMerged)'
    BY <1>9, OtherSteps DEF Decide, Goto, state, transit, SkipInv, TypeOK
  <1>10. ASSUME NEW p \in Procs, ReadTombstones(p) PROVE (SeenIsMerged /\ ReadIsMerged)'
    BY <1>10, OtherSteps DEF ReadTombstones, Goto, state, transit, scan, SkipInv, TypeOK
  <1>11. ASSUME NEW p \in Procs, ReadRows(p) PROVE (SeenIsMerged /\ ReadIsMerged)'
    BY <1>11, OtherSteps DEF ReadRows, Goto, state, transit, scan, SkipInv, TypeOK
  <1>12. ASSUME NEW p \in Procs, ReplaceFile(p) PROVE (SeenIsMerged /\ ReadIsMerged)'
    BY <1>12, OtherSteps DEF ReplaceFile, Goto, state, scan, SkipInv, TypeOK
  <1>13. ASSUME NEW p \in Procs, Record(p) PROVE (SeenIsMerged /\ ReadIsMerged)'
    BY <1>13, OtherSteps DEF Record, Goto, transit, scan, SkipInv, TypeOK
  <1>14. ASSUME NEW p \in Procs, CutShort(p) PROVE (SeenIsMerged /\ ReadIsMerged)'
    <2>1. /\ peeked' = [peeked EXCEPT ![p] = {}]
          /\ fresh' = [fresh EXCEPT ![p] = {}]
          /\ pc' = [pc EXCEPT ![p] = "idle"]
          /\ UNCHANGED <<seen, copy>>
      BY <1>14 DEF CutShort, Goto, state, transit
    <2>2. SeenIsMerged'
      BY <1>0, <2>1 DEF SkipInv, SeenIsMerged
    <2>3. ASSUME NEW q \in Procs, NEW f \in fresh'[q] \ peeked'[q]
          PROVE  Absorbed(Home[q], f)'
      <3>1. f \in fresh[q] \ peeked[q] /\ f \in Devices /\ Home[q] \in Devices
        BY <2>1, ConstantsAssumption DEF SkipInv, TypeOK
      <3> QED
        BY <1>0, <2>1, <3>1 DEF SkipInv, ReadIsMerged
    <2>4. ASSUME NEW q \in Procs
          PROVE  /\ pc'[q] # "peeked" => peeked'[q] = {}
                 /\ \A f, g \in peeked'[q] : f = g
      BY <2>1 DEF SkipInv, ReadIsMerged, TypeOK
    <2> QED
      BY <2>2, <2>3, <2>4 DEF ReadIsMerged
  <1>15. CASE UNCHANGED vars
    BY <1>15, OtherSteps DEF vars
  <1> QED
    BY <1>1, <1>2, <1>3, <1>4, <1>5, <1>6, <1>7, <1>8, <1>9, <1>10, <1>11, <1>12,
       <1>13, <1>14, <1>15 DEF Next, Step

(* A peer's file that is skipped because of its export_id has nothing to   *)
(* give, whatever was delivered between the two times it is opened, cut    *)
(* short, or written since.                                                *)
THEOREM SkippedIsMergedAlways == Spec => []SkippedIsMerged
  <1>1. Init => SkipInv
    BY InitSkip
  <1>2. SkipInv /\ [Next]_vars => SkipInv'
    BY SkipStep
  <1>3. SkipInv => SkippedIsMerged
    BY SeenIsSkipped DEF SkipInv
  <1> QED
    BY <1>1, <1>2, <1>3, PTL DEF Spec

-----------------------------------------------------------------------------
(* The file of a device, when the device has one process.                  *)

OneProcessEach == \A p, q \in Procs : Home[p] = Home[q] => p = q

(* The next export will see the entry, or the file has it.                 *)
Published(d, k) == Version(db[d][k]) >= exported[d] \/ Holds(file[d], k, Version(db[d][k]))

(* A device that is not exporting, nor about to, and was never cut short   *)
(* since its last export.                                                  *)
Settled(d) ==
    /\ ~severed[d]
    /\ \A p \in Procs : Home[p] = d => pc[p] \in {"idle", "scanning", "peeked", "gate"} /\ ~changed[p]

(* What an export has read is still so, but for what was written after its *)
(* stamp.                                                                  *)
ReadSoFar(p, k) ==
    LET d == Home[p] IN
    /\ pc[p] = "reading" => db[d][k].tomb = snap[p][k].tomb
    /\ pc[p] = "replacing" => Holds(snap[p], k, Version(db[d][k]))
    /\ pc[p] = "recording" => Holds(file[d], k, Version(db[d][k]))

ExportKnows(p) ==
    /\ stamp[p] <= Floor(clock[Home[p]])
    /\ pc[p] \in {"idle", "stamping", "reading", "replacing", "recording"} => ~changed[p]
    /\ pc[p] \in {"reading", "replacing", "recording"} => exported[Home[p]] <= stamp[p]
    /\ \A k \in Keys : Version(db[Home[p]][k]) >= stamp[p] \/ ReadSoFar(p, k)

FileInv ==
    /\ TypeOK
    /\ \A d \in Devices : exported[d] <= Floor(clock[d])
    /\ \A d \in Devices : \A k \in own[d] : Published(d, k)
    /\ \A d \in Devices : Settled(d) => \A k \in Keys : Published(d, k)
    /\ \A p \in Procs : ExportKnows(p)

(* The precision of a stamp.                                               *)
LEMMA FloorIs ==
    ASSUME NEW a \in Nat
    PROVE  /\ a \div Second \in Nat /\ Floor(a) = Second * (a \div Second)
           /\ Floor(a) <= a /\ a < Second * (a \div Second) + Second
  <1>1. Second \in Nat /\ Second > 0
    BY ConstantsAssumption
  <1>2. a \div Second \in Nat /\ a % Second \in 0 .. Second - 1
    BY <1>1
  <1>3. a % Second = a - Second * (a \div Second)
    BY <1>1
  <1>4. Second * (a \div Second) \in Nat
    BY <1>1, <1>2
  <1> QED
    BY <1>1, <1>2, <1>3, <1>4 DEF Floor

LEMMA FloorGrows ==
    ASSUME NEW a \in Nat, NEW b \in Nat, a <= b
    PROVE  Floor(a) <= Floor(b)
  <1>1. Second \in Nat /\ Second > 0
    BY ConstantsAssumption
  <1> DEFINE x == a \div Second
             y == b \div Second
  <1>2. /\ x \in Nat /\ Floor(a) = Second * x /\ Second * x <= a
        /\ y \in Nat /\ Floor(b) = Second * y /\ b < Second * y + Second
    BY FloorIs
  <1> HIDE DEF x, y
  <1>3. x <= y
    <2> SUFFICES ASSUME y + 1 <= x PROVE FALSE
      BY <1>2
    <2>1. Second * (y + 1) <= Second * x /\ Second * (y + 1) = Second * y + Second
      BY <1>1, <1>2
    <2> QED
      BY <1>1, <1>2, <2>1
  <1> QED
    BY <1>1, <1>2, <1>3

LEMMA VersionNat ==
    ASSUME TypeOK, NEW d \in Devices, NEW k \in Keys
    PROVE  /\ Version(db[d][k]) \in Nat /\ Version(file[d][k]) \in Nat
           /\ db[d][k].row \in Nat /\ db[d][k].tomb \in Nat
  BY DEF TypeOK, Entries, Version, Later

LEMMA SnapNat ==
    ASSUME TypeOK, NEW p \in Procs, NEW k \in Keys
    PROVE  /\ snap[p][k] \in Entry /\ Version(snap[p][k]) \in Nat /\ Home[p] \in Devices
  BY ConstantsAssumption DEF TypeOK, Entries, Entry, Version, Later

(* A local write makes an entry that is not older than the clock.          *)
LEMMA WritesLate ==
    ASSUME TypeOK, NEW d \in Devices, NEW k \in Keys, LocalWriteAt(d, k)
    PROVE  /\ \A e \in Devices, j \in Keys : e # d \/ j # k => db'[e][j] = db[e][j]
           /\ Version(db'[d][k]) >= clock[d]
           /\ \A e \in Devices : own'[e] \subseteq own[e] \cup (IF e = d THEN {k} ELSE {})
           /\ UNCHANGED <<clock, state, transit, pc, scan, exporting, ghosts>>
  <1>1. /\ db[d][k].row \in Nat /\ db[d][k].tomb \in Nat /\ clock[d] \in Nat
        /\ db \in [Devices -> [Keys -> Entry]] /\ own \in [Devices -> SUBSET Keys]
    BY ConstantsAssumption DEF TypeOK, Entries, Entry
  <1>2. PICK entry : Write(d, k, entry) /\ Version(entry) >= clock[d]
    <2>1. CASE Add(d, k)
      <3> DEFINE r == IF db[d][k].tomb >= clock[d] THEN db[d][k].tomb + 1 ELSE clock[d]
      <3>1. r \in Nat /\ r >= clock[d]
        BY <1>1
      <3>2. Write(d, k, Row(r))
        BY <2>1 DEF Add
      <3> HIDE DEF r
      <3>3. Version(Row(r)) = r
        BY <3>1, RowEntry DEF Version, Later
      <3> QED
        BY <3>1, <3>2, <3>3
    <2>2. CASE Update(d, k)
      <3> DEFINE r == Later(clock[d], db[d][k].row + 1)
      <3>1. r \in Nat /\ r >= clock[d]
        BY <1>1 DEF Later
      <3>2. Write(d, k, Row(r))
        BY <2>2 DEF Update
      <3> HIDE DEF r
      <3>3. Version(Row(r)) = r
        BY <3>1, RowEntry DEF Version, Later
      <3> QED
        BY <3>1, <3>2, <3>3
    <2>3. CASE Delete(d, k)
      <3> DEFINE t == Later(clock[d], db[d][k].row) + 1
      <3>1. t \in Nat /\ t >= clock[d]
        BY <1>1 DEF Later
      <3>2. Write(d, k, Tombstone(t))
        BY <2>3 DEF Delete
      <3> HIDE DEF t
      <3>3. Version(Tombstone(t)) = t
        BY <3>1, TombEntry DEF Version, Later
      <3> QED
        BY <3>1, <3>2, <3>3
    <2> QED
      BY <2>1, <2>2, <2>3 DEF LocalWriteAt
  <1>3. db' = [db EXCEPT ![d][k] = entry] /\ own' = [own EXCEPT ![d] = @ \cup {k}]
    BY <1>2 DEF Write
  <1>4. db'[d][k] = entry /\ \A e \in Devices, j \in Keys : e # d \/ j # k => db'[e][j] = db[e][j]
    BY <1>1, <1>3
  <1>5. \A e \in Devices : own'[e] \subseteq own[e] \cup (IF e = d THEN {k} ELSE {})
    BY <1>1, <1>3
  <1> QED
    BY <1>2, <1>4, <1>5 DEF Write

LEMMA InitFile == Init => FileInv
  <1> SUFFICES ASSUME Init PROVE FileInv
    OBVIOUS
  <1>1. TypeOK
    BY InitType
  <1>2. PICK S \in Initial :
           LET before == [k \in Keys |-> IF k \in S THEN Row(Second) ELSE Absent] IN
           /\ db = [d \in Devices |-> before]
           /\ file = [d \in Devices |-> before]
           /\ exported = [d \in Devices |-> IF S = {} THEN Never ELSE Second]
    BY DEF Init
  <1>3. Second \in Nat /\ Second > 0 /\ Start \in Nat /\ Second <= Start
    BY ConstantsAssumption
  <1>4. Floor(Second) = Second
    <2>1. Second % Second = 0
      BY <1>3
    <2> QED
      BY <1>3, <2>1 DEF Floor
  <1>5. Second <= Floor(Start) /\ Floor(Start) \in Nat
    BY <1>3, <1>4, FloorGrows, FloorNat
  <1>6. \A d \in Devices : exported[d] <= Floor(clock[d])
    BY <1>2, <1>3, <1>5 DEF Init, Never
  <1>7. \A d \in Devices, k \in Keys : Published(d, k)
    BY <1>1, <1>2, VersionNat DEF Published, Holds
  <1>8. \A p \in Procs : ExportKnows(p)
    <2> SUFFICES ASSUME NEW p \in Procs PROVE ExportKnows(p)
      OBVIOUS
    <2>1. Home[p] \in Devices
      BY ConstantsAssumption
    <2>2. stamp[p] = 0 /\ pc[p] = "idle" /\ ~changed[p] /\ clock[Home[p]] = Start
      BY <2>1 DEF Init, Never
    <2> QED
      BY <1>3, <1>5, <2>2 DEF ExportKnows, ReadSoFar
  <1> QED
    BY <1>1, <1>6, <1>7, <1>8 DEF FileInv, TypeOK

LEMMA PublishedKept ==
    ASSUME NEW d, NEW k, Published(d, k), db'[d][k] = db[d][k], exported'[d] = exported[d],
           file'[d][k] = file[d][k]
    PROVE  Published(d, k)'
  BY DEF Published, Holds

LEMMA KnowsKept ==
    ASSUME TypeOK, TypeOK', NEW p \in Procs, ExportKnows(p),
           db'[Home[p]] = db[Home[p]], exported'[Home[p]] = exported[Home[p]],
           file'[Home[p]] = file[Home[p]], clock'[Home[p]] >= clock[Home[p]],
           pc'[p] = pc[p], changed'[p] = changed[p], stamp'[p] = stamp[p], snap'[p] = snap[p]
    PROVE  ExportKnows(p)'
  <1>1. /\ clock[Home[p]] \in Nat /\ clock'[Home[p]] \in Nat /\ stamp[p] \in Nat
    BY ConstantsAssumption DEF TypeOK
  <1>2. /\ Floor(clock[Home[p]]) \in Nat /\ Floor(clock'[Home[p]]) \in Nat
        /\ Floor(clock[Home[p]]) <= Floor(clock'[Home[p]])
    BY <1>1, FloorNat, FloorGrows
  <1>3. stamp'[p] <= Floor(clock'[Home[p]])
    BY <1>1, <1>2 DEF ExportKnows
  <1> QED
    BY <1>3 DEF ExportKnows, ReadSoFar, Holds

(* What a step of the process of a device has to show.                     *)
LEMMA ProcessStep ==
    ASSUME FileInv, TypeOK', OneProcessEach, NEW p \in Procs, clock' = clock,
           \A e \in Devices \ {Home[p]} :
              /\ db'[e] = db[e] /\ exported'[e] = exported[e] /\ file'[e] = file[e]
              /\ own'[e] = own[e] /\ severed'[e] = severed[e],
           \A q \in Procs \ {p} :
              pc'[q] = pc[q] /\ changed'[q] = changed[q] /\ stamp'[q] = stamp[q] /\ snap'[q] = snap[q],
           exported'[Home[p]] <= Floor(clock[Home[p]]),
           \A k \in own'[Home[p]] : Published(Home[p], k)',
           ~severed'[Home[p]] /\ pc'[p] \in {"idle", "scanning", "peeked", "gate"} /\ ~changed'[p] =>
              \A k \in Keys : Published(Home[p], k)',
           ExportKnows(p)'
    PROVE  FileInv'
  <1>1. \A q \in Procs \ {p} : Home[q] \in Devices \ {Home[p]}
    BY ConstantsAssumption DEF OneProcessEach
  <1>2. \A q \in Procs : ExportKnows(q)'
    <2> TAKE q \in Procs
    <2>1. CASE q = p
      BY <2>1
    <2>2. CASE q # p
      <3>1. clock'[Home[q]] >= clock[Home[q]]
        BY <1>1, <2>2, ConstantsAssumption DEF FileInv, TypeOK
      <3> QED
        BY <1>1, <2>2, <3>1, KnowsKept DEF FileInv
    <2> QED
      BY <2>1, <2>2
  <1>3. \A e \in Devices : exported'[e] <= Floor(clock'[e])
    BY DEF FileInv
  <1>4. \A e \in Devices : \A k \in own'[e] : Published(e, k)'
    BY PublishedKept DEF FileInv
  <1>5. ASSUME NEW e \in Devices, Settled(e)', NEW k \in Keys PROVE Published(e, k)'
    <2>1. CASE e = Home[p]
      BY <1>5, <2>1 DEF Settled
    <2>2. CASE e # Home[p]
      <3>1. Settled(e)
        BY <1>5, <2>2 DEF Settled
      <3> QED
        BY <2>2, <3>1, PublishedKept DEF FileInv
    <2> QED
      BY <2>1, <2>2
  <1> QED
    BY <1>2, <1>3, <1>4, <1>5 DEF FileInv

(* A pass that only looks.                                                 *)
LEMMA LookingStep ==
    ASSUME FileInv, TypeOK', OneProcessEach, NEW p \in Procs,
           UNCHANGED <<db, clock, own, exported, file, severed, changed, stamp, snap>>,
           \A q \in Procs \ {p} : pc'[q] = pc[q],
           pc[p] \in {"idle", "scanning", "peeked", "gate"}, pc'[p] \in {"scanning", "peeked", "gate"}
    PROVE  FileInv'
  <1>1. \A e \in Devices, k \in Keys : Published(e, k) => Published(e, k)'
    BY PublishedKept
  <1>2. ExportKnows(p)'
    BY DEF FileInv, ExportKnows, ReadSoFar
  <1>3. Home[p] \in Devices /\ \A k \in own[Home[p]] : k \in Keys
    BY ConstantsAssumption DEF FileInv, TypeOK
  <1>4. ASSUME ~severed[Home[p]], ~changed[p] PROVE Settled(Home[p])
    BY <1>4 DEF Settled, OneProcessEach
  <1> QED
    BY <1>1, <1>2, <1>3, <1>4, ProcessStep DEF FileInv

LEMMA FileStep == OneProcessEach /\ FileInv /\ [Next]_vars => FileInv'
  <1> SUFFICES ASSUME OneProcessEach, FileInv, [Next]_vars PROVE FileInv'
    OBVIOUS
  <1>0. TypeOK /\ TypeOK'
    BY TypeStep DEF FileInv
  <1>a. ASSUME NEW p \in Procs
        PROVE  /\ Home[p] \in Devices /\ pc \in [Procs -> Labels] /\ changed \in [Procs -> BOOLEAN]
               /\ stamp \in [Procs -> Nat] /\ snap \in [Procs -> Entries]
               /\ exported \in [Devices -> Nat] /\ severed \in [Devices -> BOOLEAN]
               /\ file \in [Devices -> Entries] /\ db \in [Devices -> Entries]
               /\ clock[Home[p]] \in Nat /\ Floor(clock[Home[p]]) \in Nat
               /\ own \in [Devices -> SUBSET Keys]
    BY <1>0, FloorNat, ConstantsAssumption DEF TypeOK
  <1>1. ASSUME NEW d \in Devices, NEW k \in Keys, LocalWriteAt(d, k) PROVE FileInv'
    <2>1. /\ \A e \in Devices, j \in Keys : e # d \/ j # k => db'[e][j] = db[e][j]
          /\ Version(db'[d][k]) >= clock[d]
          /\ \A e \in Devices : own'[e] \subseteq own[e] \cup (IF e = d THEN {k} ELSE {})
          /\ UNCHANGED <<clock, seen, exported, file, delivered, copy, pc, todo, peeked, fresh, changed,
                         stamp, snap, cuts, severed>>
      BY <1>0, <1>1, WritesLate DEF state, transit, scan, exporting, ghosts
    <2>2. /\ clock[d] \in Nat /\ exported[d] \in Nat /\ exported[d] <= Floor(clock[d])
          /\ Floor(clock[d]) \in Nat /\ Floor(clock[d]) <= clock[d] /\ Version(db'[d][k]) \in Nat
      BY <1>0, ConstantsAssumption, FloorNat, FloorIs DEF FileInv, TypeOK, Entries, Version, Later
    <2>3. Published(d, k)'
      BY <2>1, <2>2 DEF Published
    <2>4. ASSUME NEW e \in Devices, NEW j \in Keys, Published(e, j) PROVE Published(e, j)'
      BY <2>1, <2>3, <2>4, PublishedKept
    <2>5. ASSUME NEW e \in Devices, NEW j \in own'[e] PROVE Published(e, j)'
      <3>1. j \in own[e] \/ (e = d /\ j = k)
        BY <2>1
      <3>2. j \in Keys
        BY <1>0 DEF TypeOK
      <3> QED
        BY <2>3, <2>4, <3>1, <3>2 DEF FileInv
    <2>6. \A e \in Devices : Settled(e)' => \A j \in Keys : Published(e, j)'
      BY <2>1, <2>4 DEF FileInv, Settled
    <2>7. ASSUME NEW p \in Procs PROVE ExportKnows(p)'
      <3>1. ExportKnows(p)
        BY DEF FileInv
      <3>2. ASSUME NEW j \in Keys
            PROVE  Version(db'[Home[p]][j]) >= stamp[p] \/ ReadSoFar(p, j)'
        <4>1. CASE Home[p] = d /\ j = k
          <5>1. stamp[p] \in Nat /\ stamp[p] <= Floor(clock[d])
            BY <1>a, <3>1, <4>1 DEF ExportKnows
          <5> QED
            BY <2>1, <2>2, <4>1, <5>1
        <4>2. CASE ~(Home[p] = d /\ j = k)
          <5>1. db'[Home[p]][j] = db[Home[p]][j]
            BY <1>a, <2>1, <4>2
          <5> QED
            BY <2>1, <3>1, <5>1 DEF ExportKnows, ReadSoFar, Holds
        <4> QED
          BY <4>1, <4>2
      <3> QED
        BY <2>1, <3>1, <3>2 DEF ExportKnows
    <2> QED
      BY <1>0, <2>1, <2>5, <2>6, <2>7 DEF FileInv
  <1>2. ASSUME NEW d \in Devices, Tick(d) PROVE FileInv'
    <2>1. /\ clock' = [clock EXCEPT ![d] = @ + 1]
          /\ UNCHANGED <<db, own, exported, file, pc, changed, stamp, snap, severed>>
      BY <1>2 DEF Tick, state, transit, scan, exporting, ghosts
    <2>2. \A e \in Devices : /\ clock[e] \in Nat /\ clock'[e] \in Nat /\ clock'[e] >= clock[e]
                             /\ Floor(clock[e]) \in Nat /\ Floor(clock'[e]) \in Nat
                             /\ Floor(clock[e]) <= Floor(clock'[e]) /\ exported[e] \in Nat
      <3> TAKE e \in Devices
      <3>1. clock[e] \in Nat /\ clock'[e] \in Nat /\ clock'[e] >= clock[e] /\ exported[e] \in Nat
        BY <1>0, <2>1, ConstantsAssumption DEF TypeOK
      <3> QED
        BY <3>1, FloorNat, FloorGrows
    <2>3. \A e \in Devices : exported'[e] <= Floor(clock'[e])
      BY <2>1, <2>2 DEF FileInv
    <2>4. \A e \in Devices, k \in Keys : Published(e, k) => Published(e, k)'
      BY <2>1, PublishedKept
    <2>5. \A p \in Procs : ExportKnows(p)'
      BY <1>0, <1>a, <2>1, <2>2, KnowsKept DEF FileInv
    <2>6. \A e \in Devices : Settled(e)' => Settled(e)
      BY <2>1 DEF Settled
    <2> QED
      BY <1>0, <2>1, <2>3, <2>4, <2>5, <2>6 DEF FileInv, TypeOK
  <1>3. ASSUME NEW d \in Devices, NEW e \in Devices, Deliver(d, e) PROVE FileInv'
    <2>1. UNCHANGED <<db, clock, own, exported, file, pc, changed, stamp, snap, severed>>
      BY <1>3 DEF Deliver, local, exporting, ghosts
    <2> QED
      BY <1>0, <2>1 DEF FileInv, Published, Holds, Settled, ExportKnows, ReadSoFar
  <1>4. ASSUME NEW p \in Procs, StartPass(p) \/ EndPass(p) \/ \E e \in Devices : Peek(p, e)
        PROVE  FileInv'
    <2>1. UNCHANGED <<db, clock, own, exported, file, severed, changed, stamp, snap>>
      BY <1>4 DEF StartPass, EndPass, Peek, local, transit, state, exporting, ghosts
    <2>2. /\ pc[p] \in {"idle", "scanning", "peeked", "gate"} /\ pc'[p] \in {"scanning", "peeked", "gate"}
          /\ \A q \in Procs \ {p} : pc'[q] = pc[q]
      BY <1>4, <1>a DEF StartPass, CanStart, EndPass, Peek, Goto
    <2> QED
      BY <1>0, <2>1, <2>2, LookingStep
  <1>5. ASSUME NEW p \in Procs, StartExport(p) PROVE FileInv'
    <2>1. /\ UNCHANGED <<db, clock, own, exported, file, severed, changed, stamp, snap>>
          /\ pc[p] = "idle" /\ pc' = [pc EXCEPT ![p] = "stamping"]
      BY <1>5 DEF StartExport, CanStart, Goto, local, transit, state, scan, exporting, ghosts
    <2>2. pc'[p] = "stamping" /\ \A q \in Procs \ {p} : pc'[q] = pc[q]
      BY <1>a, <2>1
    <2>3. ExportKnows(p)'
      BY <2>1, <2>2 DEF FileInv, ExportKnows, ReadSoFar
    <2>4. \A k \in own'[Home[p]] : Published(Home[p], k)'
      BY <1>a, <2>1, PublishedKept DEF FileInv
    <2> QED
      BY <1>0, <1>a, <2>1, <2>2, <2>3, <2>4, ProcessStep DEF FileInv
  <1>6. ASSUME NEW p \in Procs, ImportFile(p) PROVE FileInv'
    <2> DEFINE d == Home[p]
    <2>1. PICK e \in peeked[p] :
             LET merged == Merge(db[d], copy[d][e]) IN
             /\ db' = [db EXCEPT ![d] = merged]
             /\ changed' = [changed EXCEPT ![p] = @ \/ merged # db[d]]
             /\ own' = [own EXCEPT ![d] = {k \in @ : merged[k] = db[d][k]}]
      BY <1>6 DEF ImportFile
    <2>2. /\ pc[p] = "peeked" /\ pc' = [pc EXCEPT ![p] = "scanning"]
          /\ UNCHANGED <<clock, exported, file, severed, stamp, snap>>
      BY <1>6 DEF ImportFile, Goto, transit, state, exporting, ghosts
    <2> DEFINE merged == Merge(db[d], copy[d][e])
    <2>3. /\ db'[d] = merged /\ changed'[p] = (changed[p] \/ merged # db[d])
          /\ own'[d] = {k \in own[d] : merged[k] = db[d][k]}
          /\ pc'[p] = "scanning" /\ \A q \in Procs \ {p} : pc'[q] = pc[q] /\ changed'[q] = changed[q]
          /\ \A c \in Devices \ {d} : db'[c] = db[c] /\ own'[c] = own[c]
      BY <1>a, <2>1, <2>2
    <2> HIDE DEF merged
    <2>4. \A k \in own'[d] : Published(d, k)'
      BY <1>a, <2>2, <2>3, PublishedKept DEF FileInv
    <2>5. ASSUME ~severed'[d], ~changed'[p], NEW k \in Keys PROVE Published(d, k)'
      <3>1. merged = db[d] /\ ~changed[p]
        BY <2>3, <2>5
      <3>2. Settled(d)
        BY <2>2, <2>5, <3>1 DEF Settled, OneProcessEach
      <3> QED
        BY <1>a, <2>2, <2>3, <3>1, <3>2, PublishedKept DEF FileInv
    <2>6. ExportKnows(p)'
      BY <2>2, <2>3 DEF FileInv, ExportKnows, ReadSoFar
    <2> QED
      BY <1>0, <1>a, <2>2, <2>3, <2>4, <2>5, <2>6, ProcessStep DEF FileInv
  <1>7. ASSUME NEW p \in Procs, Decide(p) PROVE FileInv'
    <2>1. /\ UNCHANGED <<db, clock, own, exported, file, severed, stamp, snap>>
          /\ pc[p] = "gate" /\ changed' = [changed EXCEPT ![p] = FALSE]
          /\ pc' = [pc EXCEPT ![p] = IF changed[p] \/ HasUnexported(Home[p]) THEN "stamping" ELSE "idle"]
      BY <1>7 DEF Decide, Goto, local, transit, state, exporting, ghosts
    <2>2. /\ pc'[p] = IF changed[p] \/ HasUnexported(Home[p]) THEN "stamping" ELSE "idle"
          /\ ~changed'[p] /\ \A q \in Procs \ {p} : pc'[q] = pc[q] /\ changed'[q] = changed[q]
      BY <1>a, <2>1
    <2>3. ExportKnows(p)'
      BY <2>1, <2>2 DEF FileInv, ExportKnows, ReadSoFar
    <2>4. \A k \in own'[Home[p]] : Published(Home[p], k)'
      BY <1>a, <2>1, PublishedKept DEF FileInv
    <2>5. ASSUME ~severed'[Home[p]], pc'[p] \in {"idle", "scanning", "peeked", "gate"}, NEW k \in Keys
          PROVE  Published(Home[p], k)'
      <3>1. ~changed[p]
        BY <2>2, <2>5
      <3>2. Settled(Home[p])
        BY <2>1, <2>5, <3>1 DEF Settled, OneProcessEach
      <3> QED
        BY <1>a, <2>1, <3>2, PublishedKept DEF FileInv
    <2> QED
      BY <1>0, <1>a, <2>1, <2>2, <2>3, <2>4, <2>5, ProcessStep DEF FileInv
  <1>8. ASSUME NEW p \in Procs, ReadTombstones(p) PROVE FileInv'
    <2>1. /\ UNCHANGED <<db, clock, own, exported, file, severed, changed>>
          /\ pc[p] = "stamping" /\ pc' = [pc EXCEPT ![p] = "reading"]
          /\ stamp' = [stamp EXCEPT ![p] = Floor(clock[Home[p]])]
          /\ snap' = [snap EXCEPT ![p] = [k \in Keys |-> Tombstone(db[Home[p]][k].tomb)]]
      BY <1>8 DEF ReadTombstones, Goto, local, transit, state, scan, ghosts
    <2>2. /\ pc'[p] = "reading" /\ stamp'[p] = Floor(clock[Home[p]])
          /\ \A k \in Keys : snap'[p][k].tomb = db[Home[p]][k].tomb
          /\ \A q \in Procs \ {p} : pc'[q] = pc[q] /\ stamp'[q] = stamp[q] /\ snap'[q] = snap[q]
      BY <1>a, <2>1 DEF Tombstone
    <2>3. ExportKnows(p)'
      BY <1>a, <2>1, <2>2 DEF FileInv, ExportKnows, ReadSoFar
    <2>4. \A k \in own'[Home[p]] : Published(Home[p], k)'
      BY <1>a, <2>1, PublishedKept DEF FileInv
    <2> QED
      BY <1>0, <1>a, <2>1, <2>2, <2>3, <2>4, ProcessStep DEF FileInv
  <1>9. ASSUME NEW p \in Procs, ReadRows(p) PROVE FileInv'
    <2>1. /\ UNCHANGED <<db, clock, own, exported, file, severed, changed, stamp>>
          /\ pc[p] = "reading" /\ pc' = [pc EXCEPT ![p] = "replacing"]
          /\ snap' = [snap EXCEPT ![p] = [k \in Keys |-> [snap[p][k] EXCEPT !.row = db[Home[p]][k].row]]]
      BY <1>9 DEF ReadRows, Goto, local, transit, state, scan, ghosts
    <2>2. /\ pc'[p] = "replacing"
          /\ \A k \in Keys : snap'[p][k] = [snap[p][k] EXCEPT !.row = db[Home[p]][k].row]
          /\ \A q \in Procs \ {p} : pc'[q] = pc[q] /\ snap'[q] = snap[q]
      BY <1>a, <2>1
    <2>3. ASSUME NEW k \in Keys
          PROVE  Version(db[Home[p]][k]) >= stamp[p] \/ Holds(snap'[p], k, Version(db[Home[p]][k]))
      <3>1. Version(db[Home[p]][k]) >= stamp[p] \/ db[Home[p]][k].tomb = snap[p][k].tomb
        BY <2>1 DEF FileInv, ExportKnows, ReadSoFar
      <3>2. snap'[p][k].row = db[Home[p]][k].row /\ snap'[p][k].tomb = snap[p][k].tomb
        BY ZenonT(60), <1>0, <2>2, SnapNat DEF Entry
      <3>3. Version(db[Home[p]][k]) \in Nat
        BY <1>0, <1>a, VersionNat
      <3> QED
        BY <3>1, <3>2, <3>3 DEF Holds, Version
    <2>4. ExportKnows(p)'
      BY <2>1, <2>2, <2>3 DEF FileInv, ExportKnows, ReadSoFar
    <2>5. \A k \in own'[Home[p]] : Published(Home[p], k)'
      BY <1>a, <2>1, PublishedKept DEF FileInv
    <2> QED
      BY <1>0, <1>a, <2>1, <2>2, <2>4, <2>5, ProcessStep DEF FileInv
  <1>10. ASSUME NEW p \in Procs, ReplaceFile(p) PROVE FileInv'
    <2>1. /\ UNCHANGED <<db, clock, own, exported, severed, changed, stamp>>
          /\ pc[p] = "replacing" /\ pc' = [pc EXCEPT ![p] = "recording"]
          /\ file' = [file EXCEPT ![Home[p]] = snap[p]]
          /\ snap' = [snap EXCEPT ![p] = Nothing]
      BY <1>10 DEF ReplaceFile, Goto, local, state, scan, ghosts
    <2>2. /\ pc'[p] = "recording" /\ file'[Home[p]] = snap[p]
          /\ \A e \in Devices \ {Home[p]} : file'[e] = file[e]
          /\ \A q \in Procs \ {p} : pc'[q] = pc[q] /\ snap'[q] = snap[q]
      BY <1>a, <2>1
    <2>3. \A k \in Keys : Version(db[Home[p]][k]) >= stamp[p] \/ Holds(snap[p], k, Version(db[Home[p]][k]))
      BY <2>1 DEF FileInv, ExportKnows, ReadSoFar
    <2>4. ExportKnows(p)'
      BY <2>1, <2>2, <2>3 DEF FileInv, ExportKnows, ReadSoFar
    <2>5. \A k \in Keys : Published(Home[p], k)'
      <3>1. exported[Home[p]] <= stamp[p] /\ exported[Home[p]] \in Nat /\ stamp[p] \in Nat
        BY <1>a, <2>1 DEF FileInv, ExportKnows
      <3>2. \A k \in Keys : Version(db[Home[p]][k]) \in Nat
        BY <1>0, <1>a, VersionNat
      <3> QED
        BY <2>1, <2>2, <2>3, <3>1, <3>2 DEF Published
    <2> QED
      BY <1>0, <1>a, <2>1, <2>2, <2>4, <2>5, ProcessStep DEF FileInv
  <1>11. ASSUME NEW p \in Procs, Record(p) PROVE FileInv'
    <2>1. /\ UNCHANGED <<db, clock, own, file, changed, snap>>
          /\ pc[p] = "recording" /\ pc' = [pc EXCEPT ![p] = "idle"]
          /\ exported' = [exported EXCEPT ![Home[p]] = stamp[p]]
          /\ stamp' = [stamp EXCEPT ![p] = 0]
          /\ severed' = [severed EXCEPT ![Home[p]] = FALSE]
      BY <1>11 DEF Record, Goto, local, transit, scan, Never
    <2>2. /\ pc'[p] = "idle" /\ exported'[Home[p]] = stamp[p] /\ stamp'[p] = 0
          /\ \A e \in Devices \ {Home[p]} : exported'[e] = exported[e] /\ severed'[e] = severed[e]
          /\ \A q \in Procs \ {p} : pc'[q] = pc[q] /\ stamp'[q] = stamp[q]
      BY <1>a, <2>1
    <2>3. \A k \in Keys : Published(Home[p], k)'
      BY <2>1, <2>2 DEF FileInv, ExportKnows, ReadSoFar, Published
    <2>4. ExportKnows(p)'
      BY <1>a, <2>1, <2>2 DEF FileInv, ExportKnows, ReadSoFar
    <2>5. exported'[Home[p]] <= Floor(clock[Home[p]])
      BY <2>2 DEF FileInv, ExportKnows
    <2> QED
      BY <1>0, <1>a, <2>1, <2>2, <2>3, <2>4, <2>5, ProcessStep
  <1>12. ASSUME NEW p \in Procs, CutShort(p) PROVE FileInv'
    <2>1. /\ UNCHANGED <<db, clock, own, exported, file>>
          /\ pc' = [pc EXCEPT ![p] = "idle"] /\ changed' = [changed EXCEPT ![p] = FALSE]
          /\ stamp' = [stamp EXCEPT ![p] = 0] /\ snap' = [snap EXCEPT ![p] = Nothing]
          /\ severed' = [severed EXCEPT ![Home[p]] = TRUE]
      BY <1>12 DEF CutShort, Goto, local, transit, state, Never
    <2>2. /\ pc'[p] = "idle" /\ stamp'[p] = 0 /\ ~changed'[p] /\ severed'[Home[p]]
          /\ \A e \in Devices \ {Home[p]} : severed'[e] = severed[e]
          /\ \A q \in Procs \ {p} : /\ pc'[q] = pc[q] /\ stamp'[q] = stamp[q]
                                    /\ changed'[q] = changed[q] /\ snap'[q] = snap[q]
      BY <1>a, <2>1
    <2>3. ExportKnows(p)'
      BY <1>a, <2>1, <2>2 DEF FileInv, ExportKnows, ReadSoFar
    <2>4. \A k \in own'[Home[p]] : Published(Home[p], k)'
      BY <1>a, <2>1, PublishedKept DEF FileInv
    <2> QED
      BY <1>0, <1>a, <2>1, <2>2, <2>3, <2>4, ProcessStep DEF FileInv
  <1>13. CASE UNCHANGED vars
    BY <1>0, <1>13 DEF vars, FileInv, Published, Holds, Settled, ExportKnows, ReadSoFar
  <1> QED
    BY <1>1, <1>2, <1>3, <1>4, <1>5, <1>6, <1>7, <1>8, <1>9, <1>10, <1>11, <1>12, <1>13
       DEF Next, LocalWrite, LocalWriteAt, Step

(* While one process of a device passes or exports at a time: when it has   *)
(* nothing under way and the gate is closed, its file tells of all it wrote *)
(* itself; and of all that it holds, unless it was cut short since.         *)
THEOREM FilesAreCurrent ==
    ASSUME OneProcessEach
    PROVE  Spec => []FileIsCurrent
  <1>1. FileInv => FileIsCurrent
    <2> SUFFICES ASSUME FileInv PROVE FileIsCurrent
      OBVIOUS
    <2>1. ASSUME NEW d \in Devices, ~HasUnexported(d), NEW k \in Keys, Published(d, k)
          PROVE  Holds(file[d], k, Version(db[d][k]))
      BY <2>1 DEF HasUnexported, Published
    <2>2. \A d \in Devices : own[d] \subseteq Keys
      BY DEF FileInv, TypeOK
    <2>3. \A d \in Devices : Quiet(d) /\ ~severed[d] => Settled(d)
      BY DEF FileInv, ExportKnows, Quiet, Settled
    <2> QED
      BY <2>1, <2>2, <2>3 DEF FileInv, FileIsCurrent, OwnWritesPublished, RelayedUnlessCutShort
  <1>2. FileInv /\ [Next]_vars => FileInv'
    BY FileStep
  <1> QED
    BY <1>1, <1>2, InitFile, PTL DEF Spec
=============================================================================
