-------------------------------- MODULE LintFix --------------------------------
(***************************************************************************)
(* `wiki lint --fix` (lint.py, commands/core.py): a lint of the pages, the *)
(* relinking of broken links by a language model, and rounds of            *)
(* deterministic repairs, each followed by a new lint, while people edit   *)
(* the vault.                                                              *)
(*                                                                         *)
(* One page, an Atom, is repaired; a page is its layer and its stem.  A    *)
(* link is where it is (the body, or parent_source in the frontmatter),    *)
(* what it names and how it is written: "plain"; "dotted", with a suffix,  *)
(* slash or scheme; "blank", with blanks inside the brackets of the body.  *)
(* A wrapped page has its frontmatter inside a code fence, unread.         *)
(***************************************************************************)
EXTENDS Naturals, FiniteSets

CONSTANTS
    Others,       \* pages that links may name: <<layer, stem>>
    Places,       \* of source files
    Raw,          \* those inside the source directories
    MaxEdits      \* bound: edits of the vault during the command

Empty == <<1, "">>   \* a layer without a page
Links == [at : {"body"}, to : Others \cup {Empty}, form : {"plain", "dotted", "blank"}]
         \cup [at : {"meta"}, to : Others, form : {"plain", "dotted"}]

VARIABLES
    page,         \* the repaired page: links, wrapped, path (its source_path)
    there,        \* the other pages that exist
    files,        \* source files that exist
    registered,   \* where the row of the page's source says it is
    at,           \* where the command is
    seen,         \* the lint's view: the page, the others, the files
    read,         \* what was read of the page before the model was asked
    round,        \* rounds of repairs
    added,        \* links that people added; calm if the command had seen the page they
                  \* name and was not asking a model then
    edits

vars == <<page, there, files, registered, at, seen, read, round, added, edits>>

View == [page |-> page, there |-> there, files |-> files]

Init ==
    /\ \E l \in Links, m \in Links : page \in [links : {{l, m}}, wrapped : BOOLEAN, path : Places]
    /\ there \in SUBSET Others
    /\ files \in {{f} : f \in Places}
    /\ registered \in Places
    /\ at = "lint" /\ seen = View /\ read = page
    /\ round = 0 /\ added = {} /\ edits = 0

-----------------------------------------------------------------------------
(* What a lint finds.  A wrapped page has no frontmatter: no parent_source  *)
(* and no source_path are known of it.                                      *)
Known(p) == {l \in p.links : p.wrapped => l.at = "body"}

Candidates(view, name) == {n \in view.there : n[2] = name[2]}

(* A broken link is reported as one of the body wherever it is.             *)
Broken(view) ==
    {[kind |-> IF l.to = Empty THEN "empty" ELSE IF Cardinality(Candidates(view, l.to)) = 1 THEN "moved" ELSE "ask",
      old |-> l.to, new |-> Candidates(view, l.to), at |-> "body"] :
        l \in {k \in Known(view.page) : k.to \notin view.there}}

(* A parent that is not there is left to the model as well.                 *)
Stale(view) ==
    {[kind |-> "ask", old |-> l.to, new |-> {}, at |-> "meta"] :
        l \in {k \in Known(view.page) : k.at = "meta" /\ k.to \notin view.there /\ k.to[1] = 1}}

Malformed(view) ==
    {[kind |-> "malformed", old |-> l.to, new |-> {}, at |-> l.at] : l \in {k \in Known(view.page) : k.form = "dotted"}}

(* The path is repaired only to one that exists.                            *)
DeadPath(view) ==
    IF view.page.path \in view.files \cap Raw \/ registered \notin view.files THEN {}
    ELSE {[kind |-> "path", old |-> Empty, new |-> {registered}, at |-> "meta"]}

Wrapped(view) ==
    IF view.page.wrapped THEN {[kind |-> "wrapped", old |-> Empty, new |-> {}, at |-> "meta"]} ELSE {}

Issues(view) == Broken(view) \cup Stale(view) \cup Malformed(view) \cup DeadPath(view) \cup Wrapped(view)

-----------------------------------------------------------------------------
(* Repairs *)

(* What the pattern [[old]] or [[old|alias]] meets.                         *)
Written(l, issue, form) == l.at = issue.at /\ l.to = issue.old /\ l.form = form

(* Mutant: a link is known by the page's stem.                              *)
MatchedByStem(l, issue, form) == l.at = issue.at /\ l.to[2] = issue.old[2] /\ l.form = form

Matched(l, issue, form) == Written(l, issue, form)

Relinked(links, issue, name) ==
    {IF Matched(l, issue, "plain") \/ (issue.at = "meta" /\ Matched(l, issue, "dotted"))
     THEN [l EXCEPT !.to = name, !.form = "plain"] ELSE l : l \in links}

(* _apply_fixes_to_page: one issue after the other; those that repair       *)
(* different links do not meet.                                             *)
Unwrapped(p, issues) == p.wrapped /\ \A i \in issues : i.kind # "wrapped"

Placed(p, issues) ==
    IF \E i \in issues : i.kind = "path" THEN CHOOSE q \in Places : \E i \in issues : i.kind = "path" /\ i.new = {q}
    ELSE p.path

Removed(l, issues) == \E i \in issues : i.kind = "empty" /\ Matched(l, i, "plain")

Repair(l, issues) ==
    IF \E i \in issues : i.kind = "moved" /\ Matched(l, i, "plain")
    THEN [l EXCEPT !.to = CHOOSE n \in Others : \E i \in issues : i.kind = "moved" /\ Matched(l, i, "plain") /\ i.new = {n}]
    ELSE IF \E i \in issues : i.kind = "malformed" /\ Matched(l, i, "dotted") THEN [l EXCEPT !.form = "plain"]
    ELSE l

Repaired(p, issues) ==
    [links |-> {Repair(l, issues) : l \in {k \in p.links : ~Removed(k, issues)}},
     wrapped |-> Unwrapped(p, issues),
     path |-> Placed(p, issues)]

(* A repair of the body counts as one whether or not anything was replaced. *)
Counts(p, issues) ==
    \/ Repaired(p, issues) # p
    \/ \E i \in issues : i.at = "body" /\ i.kind \in {"empty", "moved", "malformed"}

(* Mutant: the rounds end with the first.                                   *)
RoundsOne == 1

Rounds == 5

-----------------------------------------------------------------------------
(* The command *)

Go(step) == at' = step

Lint ==
    /\ at = "lint"
    /\ seen' = View
    /\ Go("ask")
    /\ UNCHANGED <<page, there, files, registered, read, round, added, edits>>

Asked == {i \in Issues(seen) : i.kind = "ask"}

(* Mutant: the page is the one that was linted.                             *)
PageSeen == seen.page

PageRead == page

(* apply_llm_fixes reads the page and asks about it; without a model, or    *)
(* issues for it, nothing is done.                                          *)
AskModel ==
    /\ at = "ask"
    /\ \/ Go("fix") /\ UNCHANGED read
       \/ Asked # {} /\ Go("answer") /\ read' = PageRead
    /\ UNCHANGED <<page, there, files, registered, seen, round, added, edits>>

(* A name that no page has is ignored; so is "none".                        *)
Answers == seen.there

(* One answer for all issues here, or none; the page that was read is       *)
(* written back with the answer, and a new lint is made.                    *)
Answer ==
    /\ at = "answer"
    /\ \/ /\ Go("fix")
          /\ UNCHANGED <<page, seen>>
       \/ \E i \in Asked, name \in Answers :
              /\ page' = [read EXCEPT !.links = Relinked(@, i, name)]
              /\ seen' = [View EXCEPT !.page = page']
              /\ Go("fix")
    /\ UNCHANGED <<there, files, registered, read, round, added, edits>>

(* apply_fixes, a round: the page is read again, repaired and written.      *)
Fix ==
    /\ at = "fix"
    /\ IF round < Rounds /\ Counts(page, Issues(seen))
       THEN page' = Repaired(page, Issues(seen)) /\ round' = round + 1 /\ Go("relint")
       ELSE Go("end") /\ UNCHANGED <<page, round>>
    /\ UNCHANGED <<there, files, registered, seen, read, added, edits>>

Relint ==
    /\ at = "relint"
    /\ seen' = View
    /\ Go("fix")
    /\ UNCHANGED <<page, there, files, registered, read, round, added, edits>>

-----------------------------------------------------------------------------
(* People *)

Busy == at # "end" /\ edits < MaxEdits /\ edits' = edits + 1

AddLink(l) ==
    /\ Busy
    /\ l \notin page.links
    /\ page' = [page EXCEPT !.links = @ \cup {l}]
    /\ added' = added \cup {[link |-> l, calm |-> at # "answer" /\ l.to \in seen.there]}
    /\ UNCHANGED <<there, files, registered, at, seen, read, round>>

(* A link to it is not followed further: it may be corrected rightly.       *)
CreateOrDelete(n) ==
    /\ Busy
    /\ there' = IF n \in there THEN there \ {n} ELSE there \cup {n}
    /\ added' = {a \in added : a.link.to # n}
    /\ UNCHANGED <<page, files, registered, at, seen, read, round>>

MoveFile(f) ==
    /\ Busy
    /\ files' = {f}
    /\ UNCHANGED <<page, there, registered, at, seen, read, round, added>>

Next ==
    \/ Lint \/ AskModel \/ Answer \/ Fix \/ Relint
    \/ \E l \in Links : AddLink(l)
    \/ \E n \in Others : CreateOrDelete(n)
    \/ \E f \in Places : MoveFile(f)

Spec == Init /\ [][Next]_vars

-----------------------------------------------------------------------------
(* A repair changes no link to a page that was there when the command       *)
(* looked, and makes no link to one that was not.                           *)
LinksKept ==
    (Answer \/ Fix) =>
          LET before == {<<l.at, l.to>> : l \in page.links}  after == {<<l.at, l.to>> : l \in page'.links}
              view == IF Answer THEN read.links ELSE page.links
          IN /\ \A l \in view : l.to \in seen.there => <<l.at, l.to>> \in after
             /\ \A l \in after \ before : l[2] \in seen.there \/ \E k \in view : l[2] = k.to

(* A command that nobody disturbed leaves nothing in the body, in the path  *)
(* or around the frontmatter that a repair is promised for: the repairs     *)
(* reveal each other, and five rounds are enough.  Excepted are links with  *)
(* blanks, and a source that is registered outside the source directories.  *)
Settled ==
    /\ ~ page.wrapped
    /\ \A i \in Issues(View) :
          /\ i.kind = "path" => registered \notin Raw
          /\ i.kind \in {"empty", "moved", "malformed"} =>
                 \A l \in page.links : l.at = "body" /\ l.to = i.old => l.form = "blank"

FixSettles == at = "end" /\ edits = 0 => Settled

(* A link that somebody adds to a page, while the command runs, stays,      *)
(* unless it was added while the model was asked about this page, or to one *)
(* that was made since the command looked.                                  *)
EditsKept ==
    \A a \in added : a.calm /\ a.link.to \in there =>
        \E l \in page.links : l.at = a.link.at /\ l.to = a.link.to

(* Repairs end, mend what they promise, and take no link from the user.     *)
Repairing == LinksKept /\ FixSettles' /\ EditsKept'
RepairsHold == [][Repairing]_vars

(* Not checked, and false: "Run `wiki lint --fix` to auto-correct." holds   *)
(* for every link it is said of.  One in the frontmatter, or with blanks,   *)
(* is reported, counted as repaired five times, and stays.                  *)
PromisedIsFixed == at = "end" /\ edits = 0 => \A i \in Issues(View) : i.kind \notin {"moved", "empty", "malformed"}
=============================================================================
