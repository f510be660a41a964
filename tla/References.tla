------------------------------ MODULE References ------------------------------
(***************************************************************************)
(* Reference Mode: a document outside the vault is registered through a    *)
(* stub, a note in the vault that names it (ingest_raw.py,                 *)
(* source_tools.py, path_refs.py, file_access.py, zotero_tools.py).  The   *)
(* stub of a Zotero attachment has its key; that of another document has   *)
(* only a logical id made from its first path, and the place it is at is   *)
(* in the row of the source.                                               *)
(*                                                                         *)
(* Documents move, change, become unreadable and come back; imports run in *)
(* steps; the vault is scanned and its sources are built between them.     *)
(***************************************************************************)
EXTENDS Naturals, FiniteSets

CONSTANTS
    Places,      \* of documents, in a configured root; also their logical ids
    Texts,       \* of documents
    Importers,
    Key,         \* the logical id of the one Zotero attachment
    MaxStubs,    \* bound on the names of stubs: "x.md", "x-2.md", ...
    MaxEvents,   \* bound on what happens to documents and to the state
    MaxImports,  \* bound
    none, stub   \* no text; the text of a stub itself

Names == 1..MaxStubs

VARIABLES
    file,        \* the text at each place, or none
    reach,       \* why it can be read or not, apart from being there
    zotero,      \* where the attachment is, according to Zotero
    stubs,       \* the logical id each stub names, or none
    row,         \* sources, by their stub
    built,       \* what the units served for a stub were made from
    import,
    overlapped,  \* two imports have overlapped
    rebound,     \* a source was rebound to another document than its stub's
    events, imports

vars == <<file, reach, zotero, stubs, row, built, import, overlapped, rebound, events, imports>>

Absent == [here |-> FALSE, hash |-> none, at |-> none, logical |-> none, pending |-> FALSE, pages |-> none]
Unbuilt == [text |-> none, hash |-> none]
Idle == [step |-> "none"]

Init ==
    /\ file \in [Places -> Texts] /\ (\A p, q \in Places : p # q => file[p] # file[q])
    /\ reach = [p \in Places |-> "ok"]
    /\ zotero \in Places
    /\ stubs = [n \in Names |-> none]
    /\ row = [n \in Names |-> Absent]
    /\ built = [n \in Names |-> Unbuilt]
    /\ import = [i \in Importers |-> Idle]
    /\ overlapped = FALSE /\ rebound = FALSE
    /\ events = 0 /\ imports = 0

-----------------------------------------------------------------------------
(* The world: external to the program.                                      *)
Event(change) ==
    /\ events < MaxEvents /\ events' = events + 1
    /\ change
    /\ UNCHANGED <<stubs, built, import, overlapped, rebound, imports>>

Edit(p, text) ==
    Event(/\ file[p] # text /\ file' = [file EXCEPT ![p] = text] /\ UNCHANGED <<reach, zotero, row>>)

(* "denied": the file is refused; "folder": so is a folder above it;        *)
(* "cloud": its bytes are not on this machine.                              *)
Reach(p, why) ==
    Event(/\ reach[p] # why /\ reach' = [reach EXCEPT ![p] = why] /\ UNCHANGED <<file, zotero, row>>)

(* The file moves; Zotero follows its own, nobody follows the others.       *)
Move(p, q) ==
    Event(/\ file[p] # none /\ file[q] = none
          /\ file' = [file EXCEPT ![q] = file[p], ![p] = none]
          /\ zotero' = IF zotero = p THEN q ELSE zotero
          /\ UNCHANGED <<reach, row>>)

(* state.sqlite is rebuilt or belongs to another vault: the stubs survive.  *)
Lost == Event(row' = [n \in Names |-> Absent] /\ UNCHANGED <<file, reach, zotero>>)

-----------------------------------------------------------------------------
(* probe: opened and read; metadata would say otherwise.                    *)
Probe(p) == IF file[p] = none /\ reach[p] # "folder" THEN "missing" ELSE reach[p]

(* Mutant: what cannot be read is treated like what is not there.           *)
RefusedAlways(p) == FALSE

(* A Zotero attachment that is present and unreadable must not degrade.     *)
Refused(p) == Probe(p) \in {"denied", "folder", "cloud"}

(* _resolve_reference_source and the parser: the text of the document, that *)
(* of the stub if there is no document, or no text at all: an error.        *)
Recorded(n) ==
    LET p == IF row[n].logical = Key THEN zotero ELSE row[n].at IN
    IF ~row[n].here \/ p = none THEN stub
    ELSE CASE Probe(p) = "ok" -> file[p]
           [] Probe(p) \in {"denied", "cloud"} /\ p = row[n].at -> none   \* exists() is true, the parser fails
           [] OTHER -> stub                       \* exists() is false, or raises; Zotero gave no path

Text(n) ==
    IF stubs[n] # Key THEN Recorded(n)
    ELSE IF Refused(zotero) THEN none
    ELSE IF Probe(zotero) = "ok" THEN file[zotero] ELSE Recorded(n)

(* add_file: a row for the stub, or another hash and everything to be done  *)
(* again, or nothing new.  A row that is not here is Absent.                *)
Added(n) ==
    LET text == Text(n)  r == row[n] IN
    [row EXCEPT ![n] = [here |-> TRUE, hash |-> text, at |-> r.at, logical |-> r.logical,
                        pending |-> (~r.here \/ r.pending \/ r.hash # text), pages |-> text]]

Scan(n) ==
    /\ stubs[n] # none /\ Text(n) # none
    /\ row' = Added(n)
    /\ UNCHANGED <<file, reach, zotero, stubs, built, import, overlapped, rebound, events, imports>>

(* L1 and the compile parse the document again, whatever the row's hash is  *)
(* of; a source whose stub cannot be resolved stays as it is, in error.     *)
Build(n) ==
    /\ row[n].here /\ row[n].pending /\ stubs[n] # none /\ Text(n) # none
    /\ built' = [built EXCEPT ![n] = [text |-> Text(n), hash |-> row[n].hash]]
    /\ row' = [row EXCEPT ![n] = [row[n] EXCEPT !.pending = FALSE, !.pages = Text(n)]]
    /\ UNCHANGED <<file, reach, zotero, stubs, import, overlapped, rebound, events, imports>>

-----------------------------------------------------------------------------
(* The import of a document by its path, or of the attachment by its key.   *)
Mine(i) == import[i]

(* Mutant: a stub is written whether or not the document has one.           *)
StubsOfNone(logical) == {}

StubsOf(logical) == {n \in Names : stubs[n] = logical}

Free == {n \in Names : stubs[n] = none}
Least(S) == CHOOSE n \in S : \A k \in S : n <= k

(* The row of the document by its id or by its place, else its stub, else a *)
(* name no stub has: nothing is reserved.                                   *)
NameFor(logical, p) ==
    LET rows == {n \in Names : row[n].here /\ (row[n].logical = logical \/ (logical # Key /\ row[n].at = p))}
    IN  IF rows # {} THEN rows
        ELSE IF StubsOf(logical) # {} THEN {Least(StubsOf(logical))}
        ELSE IF Free # {} THEN {Least(Free)} ELSE {}

Plan(i, logical) ==
    LET p == IF logical = Key THEN zotero ELSE logical IN
    /\ Mine(i) = Idle /\ imports < MaxImports
    /\ Probe(p) = "ok"
    /\ \E n \in NameFor(logical, p) :
           import' = [import EXCEPT ![i] = [step |-> "write", n |-> n, logical |-> logical, p |-> p, text |-> file[p]]]
    /\ imports' = imports + 1
    /\ overlapped' = (overlapped \/ \E o \in Importers : Mine(o) # Idle)
    /\ UNCHANGED <<file, reach, zotero, stubs, row, built, rebound, events>>

WriteStub(i) ==
    /\ Mine(i).step = "write"
    /\ stubs' = [stubs EXCEPT ![Mine(i).n] = Mine(i).logical]
    /\ import' = [import EXCEPT ![i].step = "add"]
    /\ UNCHANGED <<file, reach, zotero, row, built, overlapped, rebound, events, imports>>

(* add_file on the stub: without a row that says where the document is, it  *)
(* registers the text of the stub.                                          *)
AddStub(i) ==
    /\ Mine(i).step = "add"
    /\ IF Text(Mine(i).n) = none THEN import' = [import EXCEPT ![i] = Idle] /\ UNCHANGED row
       ELSE import' = [import EXCEPT ![i].step = "stamp"] /\ row' = Added(Mine(i).n)
    /\ UNCHANGED <<file, reach, zotero, stubs, built, overlapped, rebound, events, imports>>

(* The second transaction gives the row its identity and the document's     *)
(* hash, as it was parsed first.                                            *)
Stamp(i) ==
    LET m == Mine(i)
        same == row[m.n].here /\ row[m.n].hash = m.text
    IN
    /\ m.step = "stamp"
    /\ row' = [row EXCEPT ![m.n] = [here |-> TRUE, hash |-> m.text, logical |-> m.logical, pages |-> m.text,
                                    at |-> IF m.logical = Key THEN none ELSE m.p,
                                    pending |-> (~same \/ row[m.n].pending)]]
    /\ import' = [import EXCEPT ![i] = Idle]
    /\ UNCHANGED <<file, reach, zotero, stubs, built, overlapped, rebound, events, imports>>

Die(i) ==
    /\ Mine(i) # Idle
    /\ import' = [import EXCEPT ![i] = Idle]
    /\ UNCHANGED <<file, reach, zotero, stubs, row, built, overlapped, rebound, events, imports>>

-----------------------------------------------------------------------------
(* Mutant: the layers keep their state when the place has another text.     *)
AgainNever(n, text) == row[n].pending

Again(n, text) == row[n].pending \/ row[n].hash # text

(* rebind_source, approved: where the document is now.  The key under which *)
(* it looks for the pages of the new file is one no parser writes.          *)
Rebind(n, p, updateHash) ==
    /\ row[n].here /\ row[n].logical # Key /\ Probe(p) = "ok"
    /\ events < MaxEvents /\ events' = events + 1
    /\ rebound' = (rebound \/ p # stubs[n])
    /\ row' = [row EXCEPT ![n] = [row[n] EXCEPT
                   !.at = p, !.pages = none,
                   !.hash = IF updateHash THEN file[p] ELSE row[n].hash,
                   !.pending = IF updateHash THEN Again(n, file[p]) ELSE row[n].pending]]
    /\ UNCHANGED <<file, reach, zotero, stubs, built, import, overlapped, imports>>

Next ==
    \/ \E p \in Places, text \in Texts \cup {none} : Edit(p, text)
    \/ \E p \in Places, why \in {"ok", "denied", "folder", "cloud"} : Reach(p, why)
    \/ \E p, q \in Places : Move(p, q)
    \/ Lost
    \/ \E n \in Names :
           \/ Scan(n) \/ Build(n)
           \/ \E p \in Places, updateHash \in BOOLEAN : Rebind(n, p, updateHash)
    \/ \E i \in Importers :
           \/ \E logical \in Places \cup {Key} : Plan(i, logical)
           \/ WriteStub(i) \/ AddStub(i) \/ Stamp(i) \/ Die(i)

Spec == Init /\ [][Next]_vars

-----------------------------------------------------------------------------
(* A document is not given a second stub, whatever imports were cut short   *)
(* or rows were lost before, as long as imports do not overlap and no       *)
(* source was rebound to another document than its stub's (an import looks  *)
(* for either and may find the wrong row): a stub is a source, and each     *)
(* source is compiled and paid for.                                         *)
OneStub == ~overlapped /\ ~rebound => \A logical \in Places \cup {Key} : Cardinality({n \in Names : stubs[n] = logical}) <= 1

(* A source that claims to be built was built for the hash it has: an       *)
(* import, a scan and a rebind that give it another one make it pending.    *)
InStep == \A n \in Names : row[n].here /\ ~row[n].pending => built[n].hash = row[n].hash

(* A Zotero source never becomes the text of its own stub while Zotero's    *)
(* file is there and only cannot be read: neither registered, scanned nor   *)
(* built as such.                                                           *)
NotItsStub == \A n \in Names :
                  stubs[n] = Key /\ Probe(zotero) # "missing" =>
                      /\ (row'[n].hash = stub => row[n].hash = stub)
                      /\ (built'[n].text = stub => built[n].text = stub)

(* A stub stands for one document and never for itself, and its source says *)
(* when it has to be built again.                                           *)
Resolving == OneStub' /\ InStep' /\ NotItsStub
StubsTruthful == [][Resolving]_vars

(* Not checked, and false: the same of the other documents, whose resolver  *)
(* takes a refused folder for an absent file, and every source for a stub   *)
(* until it is stamped; that what is served was made from the text of the   *)
(* hash; and that a rebound document keeps the record of its pages.         *)
NoneIsItsStub == [][\A n \in Names :
                    row[n].here /\ row[n].at # none /\ Probe(row[n].at) \in {"denied", "folder", "cloud"} =>
                        (built'[n].text = stub => built[n].text = stub)]_vars
BuiltOfHash == \A n \in Names : row[n].here /\ ~row[n].pending => built[n].text = row[n].hash
PagesOfHash == \A n \in Names : row[n].here => row[n].pages # none
=============================================================================
