------------------------------ MODULE SourcePaths ------------------------------
(***************************************************************************)
(* One file, several spellings (source_identity.py): stored paths are      *)
(* folded to the canonical form when a vault is opened, lookups normalise, *)
(* and rows that collide are merged by `wiki source dedupe-paths`.         *)
(*                                                                         *)
(* What hangs off a source is named by the source that made it and keeps   *)
(* that name when its source_id changes.  Each row of Init was registered  *)
(* and compiled by an older version: a page, a span and a unit that cites  *)
(* the span for every text of Texts it read, and a generation that serves. *)
(***************************************************************************)
EXTENDS Naturals, FiniteSets

CONSTANTS
    Files,
    Spellings,    \* of a path; Canonical is one of them
    Canonical,
    Hashes,       \* contents
    Texts,
    MaxId         \* bound: registrations

VARIABLES
    rows,         \* sources: file, spelling (relpath) and content of each id
    pages,        \* source_pdf_pages, key (owner, text): [owner, text]
    spans,        \* source_spans, unique (owner, text): [maker, owner, text]
    units,        \* knowledge_units: [maker, owner, text]
    gens,         \* authoritative generations: [maker, owner]
    named,        \* prompt_runs.source_ids: the ids of one array, each there once
    last,         \* the last id: ids are not used again
    opened        \* the vault was opened by a command that canonicalises

vars == <<rows, pages, spans, units, gens, named, last, opened>>

Relpath(i) == <<rows[i].file, rows[i].spelling>>

(* Ids are consecutive; two rows have different paths; what a row has may   *)
(* differ although the content is the same: versions read more or less.     *)
Init ==
    \E n \in 1..(MaxId - 1) : \E made \in SUBSET [maker : 1..n, text : Texts] :
        /\ rows \in [1..n -> [file : Files, spelling : Spellings, hash : Hashes]]
        /\ \A i, j \in 1..n : i # j => Relpath(i) # Relpath(j)
        /\ named \in {{i, n} : i \in 1..n}
        /\ pages = {[owner |-> u.maker, text |-> u.text] : u \in made}
        /\ spans = {[maker |-> u.maker, owner |-> u.maker, text |-> u.text] : u \in made}
        /\ units = spans
        /\ gens = {[maker |-> i, owner |-> i] : i \in 1..n}
        /\ last = n
        /\ opened = FALSE

-----------------------------------------------------------------------------
(* Opening and registering *)

(* The rows of a file that are not canonical are taken by id: the first     *)
(* gets the canonical path unless another row has it, the rest is skipped.  *)
RowsOf(f) == {i \in DOMAIN rows : rows[i].file = f}
Folds(i) ==
    /\ \A j \in RowsOf(rows[i].file) : rows[j].spelling # Canonical
    /\ \A j \in RowsOf(rows[i].file) : i <= j

Canonicalise ==
    /\ rows' = [i \in DOMAIN rows |-> IF Folds(i) THEN [rows[i] EXCEPT !.spelling = Canonical] ELSE rows[i]]
    /\ opened' = TRUE
    /\ UNCHANGED <<pages, spans, units, gens, named, last>>

(* Mutant: the path is looked up as the file system spells it.              *)
FoundAsSpelled(f, spelling) == {i \in DOMAIN rows : Relpath(i) = <<f, spelling>>}

Found(f, spelling) == {i \in DOMAIN rows : Relpath(i) = <<f, Canonical>>}

(* add_file, or a row of a peer: a known path gets the new content, a path  *)
(* that is not known a new row.                                             *)
Register(f, spelling, hash) ==
    LET known == Found(f, spelling)  new == last + 1 IN
    /\ opened
    /\ \/ \E i \in known :
             /\ rows[i].hash # hash
             /\ rows' = [rows EXCEPT ![i].hash = hash]
             /\ last' = last
       \/ /\ known = {} /\ new <= MaxId
          /\ last' = new
          /\ rows' = [i \in DOMAIN rows \cup {new} |->
                         IF i = new THEN [file |-> f, spelling |-> Canonical, hash |-> hash] ELSE rows[i]]
    /\ UNCHANGED <<pages, spans, units, gens, named, opened>>

-----------------------------------------------------------------------------
(* dedupe-paths *)

Least(s) == CHOOSE i \in s : \A j \in s : i <= j

(* Groups that do not agree on the content are refused.                     *)
Merges(f) == Cardinality(RowsOf(f)) > 1 /\ \A i, j \in RowsOf(f) : rows[i].hash = rows[j].hash

Survivor(i) == IF i \in DOMAIN rows /\ Merges(rows[i].file) THEN Least(RowsOf(rows[i].file)) ELSE i

(* Mutant: the rows of the losers are deleted with them.                    *)
PagesOfSurvivor == {p \in pages : Survivor(p.owner) = p.owner}

PagesMoved == {[p EXCEPT !.owner = Survivor(@)] : p \in pages}

(* UPDATE OR IGNORE, loser by loser, then what is left of the loser is      *)
(* deleted: of the rows that would be equal for the survivor, its own stays *)
(* or else that of the first loser.                                         *)
SpansMoved ==
    LET Same(r) == {o \in spans : o.text = r.text /\ Survivor(o.owner) = Survivor(r.owner)}
    IN {[s EXCEPT !.owner = Survivor(@)] : s \in {r \in spans : \A o \in Same(r) : r.owner <= o.owner}}

(* Mutant: ids inside arrays are forgotten.                                 *)
NamedAsIs == named

NamedMoved == {Survivor(i) : i \in named}

Dedupe ==
    LET kept == {i \in DOMAIN rows : Survivor(i) = i} IN
    /\ kept # DOMAIN rows
    /\ rows' = [i \in kept |-> IF Merges(rows[i].file) THEN [rows[i] EXCEPT !.spelling = Canonical] ELSE rows[i]]
    /\ pages' = PagesMoved
    /\ spans' = SpansMoved
    /\ units' = {[u EXCEPT !.owner = Survivor(@)] : u \in units}
    /\ gens' = {[g EXCEPT !.owner = Survivor(@)] : g \in gens}
    /\ named' = NamedMoved
    /\ UNCHANGED <<last, opened>>

Next ==
    \/ Canonicalise
    \/ \E f \in Files, spelling \in Spellings, hash \in Hashes : Register(f, spelling, hash)
    \/ Dedupe

Spec == Init /\ [][Next]_vars

-----------------------------------------------------------------------------
(* Properties *)

(* Once a vault was opened, registering never makes a second row of a file, *)
(* however the file system spells its path and whatever old rows there are. *)
NoNewTwin == \A f \in Files : opened /\ RowsOf(f) # {} => Cardinality(RowsOf(f)') <= Cardinality(RowsOf(f))

(* What was read of a file is not lost when its rows are merged.            *)
PagesOf(f) == {p.text : p \in {q \in pages : q.owner \in RowsOf(f)}}
PagesKept == \A f \in Files : PagesOf(f) \subseteq PagesOf(f)'

(* A call names sources that exist, each once per merge: an id that is gone *)
(* would name whatever row is given its number.                             *)
NamesExist == named \subseteq DOMAIN rows

(* A merge of rows loses nothing of a file, and no row comes back twice.    *)
Merging == NoNewTwin /\ PagesKept /\ NamesExist'
MergesKeep == [][Merging]_vars

(* At most one generation of a source serves.  It fails: the merge repoints *)
(* the generations of both rows and discards none.                          *)
OneServes == \A g, h \in gens : g.owner = h.owner => g = h

(* A unit cites a span that is there.  It fails: the span of a row that is  *)
(* merged is deleted as a duplicate, its units move and keep citing it.     *)
UnitsCite == \A u \in units : \E s \in spans : s.maker = u.maker /\ s.text = u.text
=============================================================================
